---------------------------- MODULE DagExecution ----------------------------
(***************************************************************************)
(* What agent/tools.py promises of a plan, without threads, futures, a     *)
(* clock or a pool: every operation of a plan moves at most once from      *)
(* waiting to running and at most once to an outcome, an operation runs    *)
(* only after every operation it depends on is done and sees the packets   *)
(* of exactly its ancestors, and a plan is returned only when each of its  *)
(* operations has an outcome, after which nothing about it changes.        *)
(***************************************************************************)
EXTENDS PlanDag

VARIABLES
  status,     \* status[p][op]: what has become of the operation
  seen,       \* seen[p][op]: the operations whose packets op was started with
  packets,    \* packets[p]: the operations whose packets plan p returns
  returned    \* the plans whose result was handed to the caller

vars == <<status, seen, packets, returned>>

Outcome == {"done", "failed", "skipped"}
Status  == {"waiting", "running"} \cup Outcome

Init ==
  /\ status = [p \in Plans |-> [op \in OpIds |-> "waiting"]]
  /\ seen = [p \in Plans |-> [op \in OpIds |-> {}]]
  /\ packets = [p \in Plans |-> {}]
  /\ returned = {}

\* An operation starts: everything it depends on is done, and it is given the
\* packets of all its ancestors.
Begin(p, op) ==
  /\ status[p][op] = "waiting" /\ status'[p][op] = "running"
  /\ Known(p, op) /\ \A d \in Deps[p][op] : status[p][d] = "done"
  /\ seen'[p][op] = Ancestors(p, op)

\* A running operation is done, or fails.
End(p, op) ==
  /\ status[p][op] = "running" /\ status'[p][op] \in {"done", "failed"}
  /\ seen'[p][op] = seen[p][op]

\* An operation that never ran is given up.
Abandon(p, op) ==
  /\ status[p][op] = "waiting" /\ status'[p][op] \in {"failed", "skipped"}
  /\ seen'[p][op] = seen[p][op]

Keep(p, op) ==
  status'[p][op] = status[p][op] /\ seen'[p][op] = seen[p][op]

\* One step of plan p, in which several of its operations may move.
Advance(p) ==
  /\ p \notin returned
  /\ status' \in [Plans -> [OpIds -> Status]]
  /\ seen' \in [Plans -> [OpIds -> SUBSET OpIds]]
  /\ \A q \in Plans \ {p} : status'[q] = status[q] /\ seen'[q] = seen[q]
  /\ \A op \in OpIds :
       Begin(p, op) \/ End(p, op) \/ Abandon(p, op) \/ Keep(p, op)
  /\ packets' = [packets EXCEPT ![p] =
                   {op \in Planned[p] : status'[p][op] = "done"}]
  /\ returned' \in {returned, returned \cup {p}}
  /\ p \in returned' => \A op \in Planned[p] : status'[p][op] \in Outcome

Next == \E p \in Plans : Advance(p)

Spec == Init /\ [][Next]_vars
=============================================================================
