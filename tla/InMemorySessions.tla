--------------------------- MODULE InMemorySessions ---------------------------
(***************************************************************************)
(* agent/session.py: InMemoryTTLSessionStore, and the calls that requests  *)
(* make on it in agent/orchestrator.py.  Every method runs under one lock  *)
(* and starts by purging.  _values and _requests are dictionaries: a       *)
(* function of the sessions that are there, each with its place in         *)
(* insertion order, the first of which is evicted first.                   *)
(***************************************************************************)
EXTENDS Integers, FiniteSets

CONSTANTS
  Requests, Sessions, Session, None,
  TTL,          \* ttl_seconds
  MaxSessions,  \* max_sessions
  MaxClock      \* bound: the clock stops here

ASSUME StoreAssumption ==
  /\ Session \in [Requests -> Sessions] /\ None \notin Requests
  /\ TTL \in Nat \ {0} /\ MaxSessions \in Nat \ {0} /\ MaxClock \in Nat

VARIABLES
  clock,      \* monotonic()
  values,     \* _values
  requests,   \* _requests; the token is the request
  phase,      \* phase[r]: how far request r is
  inherited,  \* inherited[r]: what get() returned to r
  newest,     \* history: the request that called begin() last, by session
  begunAt,    \* history: begunAt[r] is the time of r's begin()
  putAt       \* history: putAt[r] is the time of r's put(), -1 before

storeVars == <<values, requests>>
vars == <<clock, storeVars, phase, inherited, newest, begunAt, putAt>>

-----------------------------------------------------------------------------
\* Assigning to a key that is there keeps its place; a new one goes to the end.
Assign(d, s, r) ==
  [k \in DOMAIN d \cup {s} |->
     IF k # s THEN d[k]
     ELSE [expires |-> clock + TTL, request |-> r,
           place |-> IF s \in DOMAIN d THEN d[s].place ELSE Cardinality(DOMAIN d) + 1]]

\* The keys among S that were inserted after s.
After(d, S, s) == {k \in S : d[k].place > d[s].place}

\* What is left when only the keys of S stay: their places close up.
Left(d, S) ==
  [s \in S |-> [d[s] EXCEPT !.place = Cardinality({k \in S : d[k].place <= d[s].place})]]

Live(d) == {s \in DOMAIN d : d[s].expires > clock}

\* Faulty variant: evicts one entry too many.
PurgeEarly(d) == Left(d, {s \in Live(d) : Cardinality(After(d, Live(d), s)) < MaxSessions - 1})

\* Faulty variant: evicts, but keeps what has expired.
PurgeBySize(d) == Left(d, {s \in DOMAIN d : Cardinality(After(d, DOMAIN d, s)) < MaxSessions})

\* _purge(): drop what has expired, then evict from the front.
Purge(d) == Left(d, {s \in Live(d) : Cardinality(After(d, Live(d), s)) < MaxSessions})

\* The request recorded for session s in a dictionary, if there is one.
Held(d, s) == IF s \in DOMAIN d THEN d[s].request ELSE None

Move(r, from, to) == phase[r] = from /\ phase' = [phase EXCEPT ![r] = to]

-----------------------------------------------------------------------------
Init ==
  /\ clock = 0
  /\ values = [s \in {} |-> None] /\ requests = [s \in {} |-> None]
  /\ phase = [r \in Requests |-> "new"]
  /\ inherited = [r \in Requests |-> None]
  /\ newest = [s \in Sessions |-> None]
  /\ begunAt = [r \in Requests |-> 0]
  /\ putAt = [r \in Requests |-> -1]

\* begin(): purge, reserve the session, purge.
Begin(r) ==
  /\ Move(r, "new", "begun")
  /\ values' = Purge(values)
  /\ requests' = Purge(Assign(Purge(requests), Session[r], r))
  /\ newest' = [newest EXCEPT ![Session[r]] = r]
  /\ begunAt' = [begunAt EXCEPT ![r] = clock]
  /\ UNCHANGED <<clock, inherited, putAt>>

\* get(): purge, then what is left of the session.
Get(r) ==
  /\ Move(r, "begun", "read")
  /\ values' = Purge(values)
  /\ requests' = Purge(requests)
  /\ inherited' = [inherited EXCEPT ![r] = Held(values', Session[r])]
  /\ UNCHANGED <<clock, newest, begunAt, putAt>>

\* Faulty variant: the token is not compared.
PutAnyway(r) ==
  /\ Move(r, "read", "ended")
  /\ requests' = Purge(requests)
  /\ values' = Purge(Assign(Purge(values), Session[r], r))
  /\ putAt' = [putAt EXCEPT ![r] = clock]
  /\ UNCHANGED <<clock, inherited, newest, begunAt>>

\* put(expected_token=...): purge; the write happens only if the reservation
\* is still this request's.
Put(r) ==
  /\ Move(r, "read", "ended")
  /\ requests' = Purge(requests)
  /\ values' = IF Held(requests', Session[r]) = r
               THEN Purge(Assign(Purge(values), Session[r], r))
               ELSE Purge(values)
  /\ putAt' = [putAt EXCEPT ![r] = clock]
  /\ UNCHANGED <<clock, inherited, newest, begunAt>>

\* ask() ends without put(): it clarifies, stops on missing evidence or raises.
EndWithoutPut(r) ==
  /\ Move(r, "read", "ended")
  /\ UNCHANGED <<clock, storeVars, inherited, newest, begunAt, putAt>>

Tick ==
  /\ clock < MaxClock
  /\ clock' = clock + 1
  /\ UNCHANGED <<storeVars, phase, inherited, newest, begunAt, putAt>>

Rest ==
  /\ clock = MaxClock /\ \A r \in Requests : phase[r] = "ended"
  /\ UNCHANGED vars

Next ==
  \/ \E r \in Requests : Begin(r) \/ Get(r) \/ Put(r) \/ EndWithoutPut(r)
  \/ Tick
  \/ Rest

Spec == Init /\ [][Next]_vars

-----------------------------------------------------------------------------
(***************************************************************************)
(* Properties.                                                             *)
(***************************************************************************)

\* As long as the sessions in use fit, the context of the request that reserved
\* a session last is there from its put() until its time to live is over,
\* provided the put() came before the reservation expired: no purge, eviction
\* or late completion of another request takes it away.
InUse == {Session[r] : r \in {q \in Requests : phase[q] # "new"}}

LastWriteKept ==
  Cardinality(InUse) <= MaxSessions =>
    \A r \in Requests :
      /\ putAt[r] >= 0
      /\ putAt[r] < begunAt[r] + TTL
      /\ clock < putAt[r] + TTL
      /\ newest[Session[r]] = r
      => Held(values, Session[r]) = r

\* get() never hands out a context that has outlived its time to live, nor one
\* that was put() in the session after its writer had lost the reservation.
InheritsLive ==
  [][\A r \in Requests :
       inherited'[r] # inherited[r] =>
         LET w == inherited'[r]
         IN  /\ Session[w] = Session[r]
             /\ clock < putAt[w] + TTL /\ putAt[w] < begunAt[w] + TTL]_vars

\* The store implements SessionContinuity: in particular a request that
\* finishes late never overwrites the context of one that began after it.  A
\* process serves one data set.
Continuity == INSTANCE SessionContinuity WITH
  stored  <- [s \in Sessions |-> Held(values, s)],
  Dataset <- [r \in Requests |-> "served"]

ImplementsContinuity == Continuity!Spec
=============================================================================
