------------------------- MODULE RedisSessionsProofs -------------------------
(***************************************************************************)
(* Theorems about RedisSessions, for any requests, sessions, data sets and *)
(* any order of commands, failures and expirations.                        *)
(***************************************************************************)
EXTENDS RedisSessions, TLAPS

\* A reservation that Redis still holds is the newest one, so the token of a late
\* request never matches once another one has begun.
TokenIsNewest == \A s \in Sessions : token[s] \in {None, newest[s]}

\* Where there is now a context that a request could have used instead of what it
\* has refused, another request has reserved the session after it.
Overtaken ==
  \A r \in Requests :
    phase[r] = "forgetting" /\ Acceptable(r, value[Session[r]]) => newest[Session[r]] # r

\* Nothing is inherited before get() returns.
Unread == \A r \in Requests : phase[r] \in {"new", "begun", "forgetting"} => inherited[r] = None

\* The token is the only way to write a context, so that all of it is inductive.
Inv == TypeOK /\ TokenIsNewest /\ Overtaken /\ Unread

\* The invariant holds of an empty store.
LEMMA InvInit == Init => Inv
BY DEF Init, Inv, TypeOK, TokenIsNewest, Overtaken, Unread, Phase

\* Every command, failed or not, keeps the invariant.
LEMMA InvNext == Inv /\ [Next]_vars => Inv'
<1> SUFFICES ASSUME Inv, [Next]_vars PROVE Inv'
  OBVIOUS
<1> USE RedisAssumption DEF Inv, TypeOK, TokenIsNewest, Overtaken, Unread, Acceptable, Move, Phase
<1>1. ASSUME NEW r \in Requests, Begin(r) PROVE Inv'
  BY <1>1 DEF Begin
<1>2. ASSUME NEW r \in Requests, Get(r) PROVE Inv'
  BY <1>2 DEF Get
<1>3. ASSUME NEW r \in Requests, Refuse(r) PROVE Inv'
  BY <1>3 DEF Refuse
<1>4. ASSUME NEW r \in Requests, Forget(r) PROVE Inv'
  BY <1>4 DEF Forget
<1>5. ASSUME NEW r \in Requests, Put(r) PROVE Inv'
  BY <1>5 DEF Put
<1>6. ASSUME NEW r \in Requests, EndWithoutPut(r) PROVE Inv'
  BY <1>6 DEF EndWithoutPut
<1>7. ASSUME NEW r \in Requests, BeginFails(r) PROVE Inv'
  BY <1>7 DEF BeginFails
<1>8. ASSUME NEW r \in Requests, GetFails(r) PROVE Inv'
  BY <1>8 DEF GetFails
<1>9. ASSUME NEW r \in Requests, PutFails(r) PROVE Inv'
  BY <1>9 DEF PutFails
<1>10. ASSUME NEW s \in Sessions, Expire(s) PROVE Inv'
  BY <1>10 DEF Expire
<1>11. CASE UNCHANGED vars
  BY <1>11 DEF vars
<1> QED
  BY <1>1, <1>2, <1>3, <1>4, <1>5, <1>6, <1>7, <1>8, <1>9, <1>10, <1>11
     DEF Next, Rest

\* The invariant holds throughout.
LEMMA Invariance == Spec => []Inv
BY InvInit, InvNext, PTL DEF Spec

\* Type correctness of the two Redis keys of each session and of the requests.
THEOREM TypeCorrect == Spec => []TypeOK
BY Invariance, PTL DEF Inv

\* A context that Redis keeps goes only when the newest request of its session replaces it,
\* when a request that may not use it deletes it, or when one deletes it that others overtook
\* between its GET and its DEL (session.py:203-243).
THEOREM LossesHaveCause == Spec => LostForCause
<1> DEFINE Caused ==
      \A s \in Sessions : value[s] \in Requests /\ value'[s] # value[s] =>
        \/ Expire(s)
        \/ \E r \in Requests :
             /\ Session[r] = s
             /\ \/ value'[s] = r /\ newest[s] = r
                \/ Forget(r) /\ (~Acceptable(r, value[s]) \/ newest[s] # r)
<1>1. Inv /\ [Next]_vars => [Caused]_vars
  <2> SUFFICES ASSUME Inv, Next, NEW s \in Sessions, value[s] \in Requests, value'[s] # value[s]
               PROVE  Caused!(s)!2
    BY DEF vars
  <2> USE RedisAssumption DEF Inv, TypeOK
  <2>1. ASSUME NEW r \in Requests, Forget(r) PROVE Caused!(s)!2
    <3>1. Session[r] = s /\ phase[r] = "forgetting"
      BY <2>1 DEF Forget, Move
    <3>2. ~Acceptable(r, value[s]) \/ newest[s] # r
      BY <3>1 DEF Overtaken
    <3> QED BY <2>1, <3>1, <3>2
  <2>2. ASSUME NEW r \in Requests, Put(r) \/ PutFails(r) PROVE Caused!(s)!2
    <3>1. Session[r] = s /\ value'[s] = r /\ token[s] = r
      BY <2>2 DEF Put, PutFails
    <3>2. newest[s] = r
      BY <3>1 DEF TokenIsNewest
    <3> QED BY <3>1, <3>2
  <2>3. ASSUME NEW t \in Sessions, Expire(t) PROVE Caused!(s)!2
    <3>1. t = s
      BY <2>3 DEF Expire
    <3> QED BY <2>3, <3>1
  <2> QED
    BY <2>1, <2>2, <2>3 DEF Next, Rest, vars, Begin, Get, Refuse, EndWithoutPut, BeginFails, GetFails
<1> QED BY <1>1, Invariance, PTL DEF Spec, LostForCause

-----------------------------------------------------------------------------
Stored == [s \in Sessions |-> IF value[s] = Unsafe THEN None ELSE value[s]]

\* Whatever commands fail, expire or race, a context is written only by the
\* request that reserved its session last, and a request inherits what is
\* stored for its data set or nothing (session.py:144-290, orchestrator.py:141-284).
THEOREM RedisImplementsContinuity == Spec => ImplementsContinuity
<1> DEFINE ph == [r \in Requests |-> StatusOf(phase[r])]
<1> USE RedisAssumption
<1>1. Init => Continuity!Init
  BY DEF Init, Continuity!Init, StatusOf
<1>2. Inv /\ Inv' /\ [Next]_vars =>
        [Stored' \in [Sessions -> Requests \cup {None}] /\ Continuity!Next]_(Continuity!vars)
  <2> SUFFICES ASSUME Inv, Inv', [Next]_vars
               PROVE  [Stored' \in [Sessions -> Requests \cup {None}]
                         /\ Continuity!Next]_(Continuity!vars)
    OBVIOUS
  <2>1. Stored' \in [Sessions -> Requests \cup {None}]
    BY DEF Inv, TypeOK, Stored
  <2>2. TypeOK /\ TypeOK' /\ TokenIsNewest /\ Unread
    BY DEF Inv
  <2>3. ASSUME NEW r \in Requests, Begin(r) \/ BeginFails(r)
        PROVE  Continuity!Next \/ UNCHANGED Continuity!vars
    <3>1. \A s \in Sessions : Stored'[s] \in {Stored[s], None}
      BY <2>3 DEF Begin, BeginFails, Stored
    <3>2. UNCHANGED inherited
      BY <2>3 DEF Begin, BeginFails
    <3>3. CASE newest' = [newest EXCEPT ![Session[r]] = r]
      <4>1. phase[r] = "new" /\ (phase' = [phase EXCEPT ![r] = "begun"]
                                 \/ phase' = [phase EXCEPT ![r] = "ended"])
        BY <2>3 DEF Begin, BeginFails, Move
      <4>2. ph[r] = "new" /\ (ph' = [ph EXCEPT ![r] = "begun"]
                              \/ ph' = [ph EXCEPT ![r] = "ended"])
        BY <4>1, <2>2 DEF TypeOK, StatusOf
      <4>3. Continuity!Reserve(r)
        BY <3>1, <3>2, <3>3, <4>2
           DEF Continuity!Reserve, Continuity!Move, Continuity!Forgetful, Stored
      <4> QED BY <4>3 DEF Continuity!Next
    <3>4. CASE UNCHANGED newest /\ BeginFails(r)
      <4>1. ph[r] = "new" /\ ph' = [ph EXCEPT ![r] = "ended"]
        BY <3>4, <2>2 DEF TypeOK, BeginFails, Move, StatusOf
      <4>2. Continuity!Leave(r)
        BY <3>1, <3>2, <3>4, <4>1
           DEF Continuity!Leave, Continuity!Forgetful, Stored
      <4> QED BY <4>2 DEF Continuity!Next
    <3> QED BY <2>3, <3>3, <3>4 DEF Begin, BeginFails
  <2>4. ASSUME NEW r \in Requests, Get(r) \/ Forget(r)
        PROVE  Continuity!Next
    <3>1. \A s \in Sessions : Stored'[s] \in {Stored[s], None}
      <4>1. \A s \in Sessions : value'[s] \in {value[s], None}
        BY <2>4, <2>2 DEF Get, Forget, TypeOK
      <4> QED BY <4>1 DEF Stored
    <3>2. ph[r] = "begun" /\ ph' = [ph EXCEPT ![r] = "read"]
      BY <2>4, <2>2 DEF Get, Forget, Move, TypeOK, StatusOf
    <3>3. \/ UNCHANGED inherited
          \/ LET w == Stored[Session[r]]
             IN  /\ w # None /\ Dataset[w] = Dataset[r]
                 /\ inherited' = [inherited EXCEPT ![r] = w]
      <4>1. CASE Forget(r)
        BY <4>1 DEF Forget
      <4>2. CASE Get(r) /\ value[Session[r]] = None
        BY <4>2, <2>2 DEF Get, Move, Unread, TypeOK
      <4>3. CASE Get(r) /\ Acceptable(r, value[Session[r]])
        BY <4>3, <2>2 DEF Get, Acceptable, Stored, TypeOK
      <4> QED BY <2>4, <4>1, <4>2, <4>3 DEF Get
    <3>4. UNCHANGED newest
      BY <2>4 DEF Get, Forget
    <3>5. Continuity!Inherit(r)
      BY <3>1, <3>2, <3>3, <3>4
         DEF Continuity!Inherit, Continuity!Move, Continuity!Forgetful, Stored
    <3> QED BY <3>5 DEF Continuity!Next
  <2>5. ASSUME NEW r \in Requests, Refuse(r)
        PROVE  UNCHANGED Continuity!vars
    <3>1. ph' = ph
      BY <2>5, <2>2 DEF Refuse, Move, TypeOK, StatusOf
    <3>2. UNCHANGED <<newest, inherited, value>>
      BY <2>5 DEF Refuse
    <3> QED BY <3>1, <3>2 DEF Continuity!vars
  <2>6. ASSUME NEW r \in Requests, EndWithoutPut(r) \/ GetFails(r)
        PROVE  Continuity!Next
    <3>1. ph[r] # "ended" /\ ph' = [ph EXCEPT ![r] = "ended"]
      BY <2>6, <2>2 DEF EndWithoutPut, GetFails, Move, TypeOK, StatusOf
    <3>2. UNCHANGED <<newest, inherited, value>>
      BY <2>6 DEF EndWithoutPut, GetFails
    <3>3. Continuity!Leave(r)
      BY <3>1, <3>2 DEF Continuity!Leave, Continuity!Forgetful
    <3> QED BY <3>3 DEF Continuity!Next
  <2>7. ASSUME NEW r \in Requests, Put(r) \/ PutFails(r)
        PROVE  Continuity!Next
    <3>1. ph[r] = "read" /\ ph' = [ph EXCEPT ![r] = "ended"]
      BY <2>7, <2>2 DEF Put, PutFails, Move, TypeOK, StatusOf
    <3>2. UNCHANGED <<newest, inherited>>
      BY <2>7 DEF Put, PutFails
    <3>3. CASE UNCHANGED value
      <4>1. Continuity!Leave(r)
        BY <3>1, <3>2, <3>3 DEF Continuity!Leave, Continuity!Forgetful
      <4> QED BY <4>1 DEF Continuity!Next
    <3>4. CASE token[Session[r]] = r /\ value' = [value EXCEPT ![Session[r]] = r]
      <4>1. newest[Session[r]] = r
        BY <3>4, <2>2 DEF TokenIsNewest
      <4>2. Stored'[Session[r]] = r
        BY <3>4, <2>2 DEF Stored, TypeOK
      <4>3. \A s \in Sessions \ {Session[r]} : Stored'[s] \in {Stored[s], None}
        BY <3>4, <2>2 DEF Stored, TypeOK
      <4>4. Continuity!Save(r)
        BY <3>1, <3>2, <4>1, <4>2, <4>3
           DEF Continuity!Save, Continuity!Move, Continuity!Forgetful, Stored
      <4> QED BY <4>4 DEF Continuity!Next
    <3> QED BY <2>7, <3>3, <3>4 DEF Put, PutFails
  <2>8. ASSUME NEW s \in Sessions, Expire(s)
        PROVE  Continuity!Next
    <3>1. \A t \in Sessions : Stored'[t] \in {Stored[t], None}
      <4>1. \A t \in Sessions : value'[t] \in {value[t], None}
        BY <2>8, <2>2 DEF Expire, TypeOK
      <4> QED BY <4>1 DEF Stored
    <3>2. UNCHANGED <<phase, inherited, newest>>
      BY <2>8 DEF Expire
    <3>3. Continuity!Forget
      BY <3>1, <3>2 DEF Continuity!Forget, Continuity!Forgetful, Stored
    <3> QED BY <3>3 DEF Continuity!Next
  <2>9. CASE UNCHANGED vars
    BY <2>9 DEF vars, Continuity!vars
  <2> QED
    BY <2>1, <2>3, <2>4, <2>5, <2>6, <2>7, <2>8, <2>9 DEF Next, Rest
<1> QED BY <1>1, <1>2, Invariance, PTL DEF Spec, ImplementsContinuity, Continuity!Spec, Stored
=============================================================================
