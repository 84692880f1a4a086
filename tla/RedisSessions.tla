---------------------------- MODULE RedisSessions ----------------------------
(***************************************************************************)
(* agent/session.py: RedisSessionStore, shared by worker processes that    *)
(* may serve different data sets, and the calls that requests make on it.  *)
(* Each Redis command is one step; get() is a GET that may be followed by  *)
(* a DELETE, and a command whose reply is lost may have been executed.     *)
(***************************************************************************)
EXTENDS Integers, FiniteSets

CONSTANTS
  Requests, Sessions, Session, None,
  Dataset,   \* Dataset[r]: dataset_version of the worker that serves r
  Unsafe     \* a stored value get() refuses: too long, or not strict JSON

ASSUME RedisAssumption ==
  /\ Session \in [Requests -> Sessions]
  /\ None \notin Requests /\ Unsafe \notin Requests /\ None # Unsafe

VARIABLES
  value,      \* value[s]: the context under the session's key
  token,      \* token[s]: the request under the session's ":request" key
  phase,      \* phase[r]: how far request r is
  inherited,  \* inherited[r]: what get() returned to r
  newest      \* history: the last request whose reservation reached Redis

vars == <<value, token, phase, inherited, newest>>

Phase == {"new", "begun", "forgetting", "read", "ended"}

\* Contexts are named by the request that wrote them.
Acceptable(r, v) == v \in Requests /\ Dataset[v] = Dataset[r]

Move(r, from, to) == phase[r] = from /\ phase' = [phase EXCEPT ![r] = to]

-----------------------------------------------------------------------------
Init ==
  /\ value \in [Sessions -> {None, Unsafe}]
  /\ token = [s \in Sessions |-> None]
  /\ phase = [r \in Requests |-> "new"]
  /\ inherited = [r \in Requests |-> None]
  /\ newest = [s \in Sessions |-> None]

\* Faulty variant: the key is set only if it does not exist.
BeginIfFree(r) ==
  /\ Move(r, "new", "begun")
  /\ token' = [token EXCEPT ![Session[r]] = IF @ = None THEN r ELSE @]
  /\ newest' = [newest EXCEPT ![Session[r]] = r]
  /\ UNCHANGED <<value, inherited>>

\* begin(): SETEX of the ":request" key.
Begin(r) ==
  /\ Move(r, "new", "begun")
  /\ token' = [token EXCEPT ![Session[r]] = r]
  /\ newest' = [newest EXCEPT ![Session[r]] = r]
  /\ UNCHANGED <<value, inherited>>

\* Faulty variant: only contexts of another data set are refused.
GetUnparsed(r) ==
  /\ Move(r, "begun", "read")
  /\ value[Session[r]] \in {None, Unsafe} \/ Acceptable(r, value[Session[r]])
  /\ inherited' = [inherited EXCEPT ![r] = value[Session[r]]]
  /\ UNCHANGED <<value, token, newest>>

\* Faulty variant: only values that cannot be parsed are refused.
GetAnyDataset(r) ==
  /\ Move(r, "begun", "read")
  /\ value[Session[r]] # Unsafe
  /\ inherited' = [inherited EXCEPT ![r] = value[Session[r]]]
  /\ UNCHANGED <<value, token, newest>>

\* get() finds nothing, or a context of its own data set.
Get(r) ==
  /\ Move(r, "begun", "read")
  /\ value[Session[r]] = None \/ Acceptable(r, value[Session[r]])
  /\ inherited' = [inherited EXCEPT ![r] = value[Session[r]]]
  /\ UNCHANGED <<value, token, newest>>

\* get() refuses what it read ...
Refuse(r) ==
  /\ Move(r, "begun", "forgetting")
  /\ value[Session[r]] # None /\ ~Acceptable(r, value[Session[r]])
  /\ UNCHANGED <<value, token, inherited, newest>>

\* ... and deletes what is there by then; a failure to delete is ignored.
Forget(r) ==
  /\ Move(r, "forgetting", "read")
  /\ value' \in {value, [value EXCEPT ![Session[r]] = None]}
  /\ UNCHANGED <<token, inherited, newest>>

\* Faulty variant: SETEX of the context without comparing the token.
PutUnchecked(r) ==
  /\ Move(r, "read", "ended")
  /\ value' = [value EXCEPT ![Session[r]] = r]
  /\ UNCHANGED <<token, inherited, newest>>

\* put(expected_token=...): compare and SETEX in one script.
Put(r) ==
  /\ Move(r, "read", "ended")
  /\ value' = IF token[Session[r]] = r THEN [value EXCEPT ![Session[r]] = r] ELSE value
  /\ UNCHANGED <<token, inherited, newest>>

\* ask() ends without put(): it clarifies, stops on missing evidence or raises.
EndWithoutPut(r) ==
  /\ Move(r, "read", "ended")
  /\ UNCHANGED <<value, token, inherited, newest>>

\* SessionStoreError from begin(), get() or put(): the request ends, and a
\* command that writes may have been executed all the same.
BeginFails(r) ==
  /\ Move(r, "new", "ended")
  /\ \/ UNCHANGED <<token, newest>>
     \/ /\ token' = [token EXCEPT ![Session[r]] = r]
        /\ newest' = [newest EXCEPT ![Session[r]] = r]
  /\ UNCHANGED <<value, inherited>>

GetFails(r) ==
  /\ Move(r, "begun", "ended")
  /\ UNCHANGED <<value, token, inherited, newest>>

PutFails(r) ==
  /\ Move(r, "read", "ended")
  /\ \/ UNCHANGED value
     \/ token[Session[r]] = r /\ value' = [value EXCEPT ![Session[r]] = r]
  /\ UNCHANGED <<token, inherited, newest>>

\* The time to live of either key ends, or Redis loses it.
Expire(s) ==
  /\ \/ value[s] # None /\ value' = [value EXCEPT ![s] = None] /\ UNCHANGED token
     \/ token[s] # None /\ token' = [token EXCEPT ![s] = None] /\ UNCHANGED value
  /\ UNCHANGED <<phase, inherited, newest>>

Rest ==
  /\ \A r \in Requests : phase[r] = "ended"
  /\ UNCHANGED vars

Next ==
  \/ \E r \in Requests :
       \/ Begin(r) \/ Get(r) \/ Refuse(r) \/ Forget(r) \/ Put(r)
       \/ EndWithoutPut(r) \/ BeginFails(r) \/ GetFails(r) \/ PutFails(r)
  \/ \E s \in Sessions : Expire(s)
  \/ Rest

Spec == Init /\ [][Next]_vars

-----------------------------------------------------------------------------
(***************************************************************************)
(* Properties.                                                             *)
(***************************************************************************)

TypeOK ==
  /\ value \in [Sessions -> Requests \cup {None, Unsafe}]
  /\ token \in [Sessions -> Requests \cup {None}]
  /\ phase \in [Requests -> Phase]
  /\ inherited \in [Requests -> Requests \cup {None}]
  /\ newest \in [Sessions -> Requests \cup {None}]

\* get() deletes what is there, which need not be what it judged.  Still, no
\* context goes but for a cause: Redis loses it, the newest request of the
\* session replaces it, or a request deletes it that may not continue from it.
\* One that might have is deleted only by a request that others overtook after
\* it had read something else; in a session without overlap none ever is.
LostForCause ==
  [][\A s \in Sessions : value[s] \in Requests /\ value'[s] # value[s] =>
       \/ Expire(s)
       \/ \E r \in Requests :
            /\ Session[r] = s
            /\ \/ value'[s] = r /\ newest[s] = r
               \/ Forget(r) /\ (~Acceptable(r, value[s]) \/ newest[s] # r)]_vars

\* The store implements SessionContinuity, whatever commands fail or keys
\* expire: a late request never overwrites the context of a newer one, and
\* none continues from a context of another data set.
StatusOf(ph) == IF ph = "forgetting" THEN "begun" ELSE ph

Continuity == INSTANCE SessionContinuity WITH
  phase  <- [r \in Requests |-> StatusOf(phase[r])],
  stored <- [s \in Sessions |-> IF value[s] = Unsafe THEN None ELSE value[s]]

ImplementsContinuity == Continuity!Spec
=============================================================================
