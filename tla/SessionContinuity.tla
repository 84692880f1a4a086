-------------------------- MODULE SessionContinuity --------------------------
(***************************************************************************)
(* What the session stores of agent/session.py promise to the requests of  *)
(* agent/orchestrator.py: a request reserves its session, inherits what an *)
(* earlier one left there for the same data set or nothing, and leaves its *)
(* own context only if no request reserved the session after it did.  A    *)
(* store may forget any context at any time (time to live, eviction, a     *)
(* request of another data set).                                           *)
(***************************************************************************)
EXTENDS Integers, FiniteSets

CONSTANTS
  Requests,   \* the requests that name a session
  Sessions,   \* scoped session identifiers
  Session,    \* Session[r]: the session of request r
  Dataset,    \* Dataset[r]: the data set that request r is answered from
  None        \* no request

VARIABLES
  phase,      \* phase[r]: how far request r is
  newest,     \* newest[s]: the request that reserved s last
  stored,     \* stored[s]: the request whose context s holds
  inherited   \* inherited[r]: the request whose context r started from

vars == <<phase, newest, stored, inherited>>

Phase == {"new", "begun", "read", "ended"}

Init ==
  /\ phase = [r \in Requests |-> "new"]
  /\ newest = [s \in Sessions |-> None]
  /\ stored = [s \in Sessions |-> None]
  /\ inherited = [r \in Requests |-> None]

Forgetful(S) == \A s \in S : stored'[s] \in {stored[s], None}

Move(r, from, to) == phase[r] = from /\ phase' = [phase EXCEPT ![r] = to]

\* A reservation may be made although the request learns of a failure.
Reserve(r) ==
  /\ Move(r, "new", "begun") \/ Move(r, "new", "ended")
  /\ newest' = [newest EXCEPT ![Session[r]] = r]
  /\ Forgetful(Sessions)
  /\ UNCHANGED inherited

Inherit(r) ==
  /\ Move(r, "begun", "read")
  /\ \/ UNCHANGED inherited
     \/ LET w == stored[Session[r]]
        IN  /\ w # None /\ Dataset[w] = Dataset[r]
            /\ inherited' = [inherited EXCEPT ![r] = w]
  /\ Forgetful(Sessions)
  /\ UNCHANGED newest

Save(r) ==
  /\ Move(r, "read", "ended")
  /\ newest[Session[r]] = r
  /\ stored'[Session[r]] = r
  /\ Forgetful(Sessions \ {Session[r]})
  /\ UNCHANGED <<newest, inherited>>

\* The request ends without leaving its context: it asked back, was stopped or
\* failed, or another request reserved the session meanwhile.
Leave(r) ==
  /\ phase[r] # "ended"
  /\ phase' = [phase EXCEPT ![r] = "ended"]
  /\ Forgetful(Sessions)
  /\ UNCHANGED <<newest, inherited>>

Forget ==
  /\ Forgetful(Sessions)
  /\ UNCHANGED <<phase, newest, inherited>>

Next ==
  \/ \E r \in Requests : Reserve(r) \/ Inherit(r) \/ Save(r) \/ Leave(r)
  \/ Forget

Spec ==
  /\ Init
  /\ [][stored' \in [Sessions -> Requests \cup {None}] /\ Next]_vars
=============================================================================
