---------------------------- MODULE PlanExecutor ----------------------------
(***************************************************************************)
(* agent/tools.py: PlanExecutor.execute, run by one thread per plan, over  *)
(* the process-wide BoundedToolPool that all plans share.                  *)
(*                                                                         *)
(* A plan is a set of operations with depends_on edges.  An operation is   *)
(* submitted to the pool as a future when all its dependencies succeeded;  *)
(* a future holds one of Workers permits until it really ends, which may   *)
(* be long after the plan that started it was returned.  The plan and      *)
(* each tool have a deadline on a common monotonic clock; every reading of *)
(* the clock is a step of its own, so time may pass between any two.       *)
(***************************************************************************)
EXTENDS PlanDag

CONSTANTS
  Workers,       \* SWUFE_TOOL_WORKERS
  MaxToolCalls,  \* RuntimePolicy.max_tool_calls
  PlanTimeout,   \* RuntimePolicy.tool_timeout_seconds
  ToolTimeout,   \* ToolTimeout[op]: RegisteredTool.timeout_seconds
  MaxStart,      \* bound: no plan starts after this time
  MaxClock       \* bound: the clock stops here

ASSUME LimitsAssumption ==
  /\ Workers \in Nat \ {0}
  /\ MaxToolCalls \in Nat
  /\ PlanTimeout \in Nat
  /\ ToolTimeout \in [OpIds -> Nat]
  /\ MaxStart \in Nat /\ MaxClock \in Nat

VARIABLES
  clock,       \* monotonic()
  permits,     \* value of BoundedToolPool._permits
  holding,     \* the futures <<p, op>> that still hold a permit
  future,      \* future[p][op]: the future of operation op of plan p
  pc,          \* pc[p]: where the thread of plan p is in execute()
  deadline,    \* deadline[p]: plan_deadline
  opDeadline,  \* opDeadline[p][op]: _RunningTool.deadline
  todo,        \* todo[p]: the ready operations not yet submitted this round
  state,       \* state[p][op]: states[operation_id]
  code,        \* code[p][op]: outcome recorded in execution_results
  context,     \* context[p][op]: operations in ToolExecutionContext.prior_packets
  packets      \* packets[p]: domain of packets_by_operation

poolVars == <<permits, holding, future>>
planVars == <<pc, deadline, opDeadline, todo, state, code, context, packets>>
vars == <<clock, poolVars, planVars>>

-----------------------------------------------------------------------------
PC == {"new", "iterate", "check", "submit", "wait", "expire", "returned"}

Unsuccessful == {"failed", "skipped"}
Terminal == {"succeeded"} \cup Unsuccessful
State == {"pending", "running"} \cup Terminal

Code == {"none", "success", "max_tool_calls_exceeded", "duplicate_operation_id",
         "unknown_dependency", "dependency_failed", "plan_deadline_exceeded",
         "tool_timeout_exceeded", "tool_capacity_exceeded",
         "tool_execution_failed", "invalid_operation_dependency_cycle"}

Live     == {"queued", "executing"}
Finished == {"ok", "raised"}
Future   == {"none", "cancelled"} \cup Live \cup Finished

InState(p, s) == {op \in Planned[p] : state[p][op] = s}
Pending(p) == InState(p, "pending")
Running(p) == InState(p, "running")

\* Faulty variant: a dependency that has not succeeded yet counts as failed.
BlockedUnlessSucceeded(p, op) ==
  ~Known(p, op) \/ \E d \in Deps[p][op] : state[p][d] # "succeeded"

\* A pending operation is blocked by a name it cannot find or by a dependency
\* that failed or was skipped, which may have been skipped earlier in the same
\* pass: the pass visits operations in increasing order of identifier.
BlockedOutright(p, op) ==
  ~Known(p, op) \/ \E d \in Deps[p][op] : state[p][d] \in Unsuccessful

PassClosed(p, S) ==
  \A op \in Pending(p) :
    BlockedOutright(p, op) \/ (\E d \in Deps[p][op] \cap S : d < op) => op \in S

Blocked(p) ==
  {op \in Pending(p) :
     \A S \in SUBSET Pending(p) : PassClosed(p, S) => op \in S}

Ready(p) ==
  {op \in Pending(p) :
     Known(p, op) /\ \A d \in Deps[p][op] : state[p][d] = "succeeded"}

\* record(): every operation in S gets the same state and error code.
Record(p, S, s, c) ==
  /\ state' = [state EXCEPT ![p] = [op \in OpIds |-> IF op \in S THEN s ELSE @[op]]]
  /\ code'  = [code  EXCEPT ![p] = [op \in OpIds |-> IF op \in S THEN c ELSE @[op]]]

\* Faulty variant: cancelling gives the permit of an executing tool back too.
CancelFreesExecuting(p, S) ==
  LET freed == {f \in holding : f[1] = p /\ f[2] \in S}
  IN  /\ future' = future
      /\ holding' = holding \ freed
      /\ permits' = permits + Cardinality(freed)

\* future.cancel() for the futures of S: it succeeds on queued futures only,
\* and then the done callback gives the permit back in the same call.
Cancel(p, S) ==
  LET stopped == {op \in S : future[p][op] = "queued"}
      freed == {p} \X stopped
  IN  /\ future' = [future EXCEPT ![p] =
                      [op \in OpIds |-> IF op \in stopped THEN "cancelled" ELSE @[op]]]
      /\ holding' = holding \ freed
      /\ permits' = permits + Cardinality(freed)

Goto(p, from, to) == pc[p] = from /\ pc' = [pc EXCEPT ![p] = to]

-----------------------------------------------------------------------------
Init ==
  /\ clock = 0
  /\ permits = Workers
  /\ holding = {}
  /\ future = [p \in Plans |-> [op \in OpIds |-> "none"]]
  /\ pc = [p \in Plans |-> "new"]
  /\ deadline = [p \in Plans |-> 0]
  /\ opDeadline = [p \in Plans |-> [op \in OpIds |-> 0]]
  /\ todo = [p \in Plans |-> {}]
  /\ state = [p \in Plans |-> [op \in OpIds |-> "pending"]]
  /\ code = [p \in Plans |-> [op \in OpIds |-> "none"]]
  /\ context = [p \in Plans |-> [op \in OpIds |-> {}]]
  /\ packets = [p \in Plans |-> {}]

-----------------------------------------------------------------------------
(***************************************************************************)
(* The thread of plan p, from the call of execute() to its return.         *)
(***************************************************************************)

Start(p, to) ==
  /\ clock <= MaxStart
  /\ Goto(p, "new", to)
  /\ UNCHANGED <<clock, poolVars, opDeadline, todo, context, packets>>

StartOverBudget(p) ==
  /\ Start(p, "returned")
  /\ Listed[p] > MaxToolCalls
  /\ Record(p, Planned[p], "skipped", "max_tool_calls_exceeded")
  /\ UNCHANGED deadline

StartDuplicate(p) ==
  /\ Start(p, "returned")
  /\ Listed[p] <= MaxToolCalls /\ Listed[p] # Cardinality(Planned[p])
  /\ Record(p, Planned[p], "failed", "duplicate_operation_id")
  /\ UNCHANGED deadline

StartLoop(p) ==
  /\ Start(p, "iterate")
  /\ Listed[p] <= MaxToolCalls /\ Listed[p] = Cardinality(Planned[p])
  /\ deadline' = [deadline EXCEPT ![p] = clock + PlanTimeout]
  /\ UNCHANGED <<state, code>>

\* Nothing is pending or running: leave the loop and merge the packets.
Return(p) ==
  /\ Goto(p, "iterate", "returned")
  /\ Pending(p) = {} /\ Running(p) = {}
  /\ UNCHANGED <<clock, poolVars, deadline, opDeadline, todo, state, code,
                 context, packets>>

\* The pass over the pending operations at the head of each round.
SkipBlocked(p) ==
  LET unknown == {op \in Blocked(p) : ~Known(p, op)}
  IN  /\ Goto(p, "iterate", "check")
      /\ Pending(p) # {} \/ Running(p) # {}
      /\ state' = [state EXCEPT ![p] =
                    [op \in OpIds |-> IF op \in Blocked(p) THEN "skipped" ELSE @[op]]]
      /\ code' = [code EXCEPT ![p] =
                    [op \in OpIds |-> IF op \in unknown THEN "unknown_dependency"
                                      ELSE IF op \in Blocked(p) THEN "dependency_failed"
                                      ELSE @[op]]]
      /\ UNCHANGED <<clock, poolVars, deadline, opDeadline, todo, context, packets>>

\* The plan deadline has passed at the head of a round.
PlanDeadline(p) ==
  /\ Goto(p, "check", "returned")
  /\ clock >= deadline[p]
  /\ Cancel(p, Running(p))
  /\ state' = [state EXCEPT ![p] =
                [op \in OpIds |-> IF op \in Running(p) THEN "failed"
                                  ELSE IF op \in Pending(p) THEN "skipped" ELSE @[op]]]
  /\ code' = [code EXCEPT ![p] =
                [op \in OpIds |-> IF op \in Running(p) \cup Pending(p)
                                  THEN "plan_deadline_exceeded" ELSE @[op]]]
  /\ UNCHANGED <<clock, deadline, opDeadline, todo, context, packets>>

CollectReady(p) ==
  /\ Goto(p, "check", "submit")
  /\ clock < deadline[p]
  /\ todo' = [todo EXCEPT ![p] = Ready(p)]
  /\ UNCHANGED <<clock, poolVars, deadline, opDeadline, state, code, context, packets>>

\* The ready operations are submitted in increasing order of identifier.
IsNext(p, op) ==
  /\ pc[p] = "submit"
  /\ op \in todo[p]
  /\ \A other \in todo[p] : op <= other

\* The plan deadline passed after the round began: the rest is not submitted.
StopSubmitting(p) ==
  /\ pc[p] = "submit" /\ todo[p] # {}
  /\ clock >= deadline[p]
  /\ todo' = [todo EXCEPT ![p] = {}]
  /\ UNCHANGED <<clock, poolVars, pc, deadline, opDeadline, state, code, context, packets>>

Attempt(p, op) ==
  /\ IsNext(p, op)
  /\ clock < deadline[p]
  /\ todo' = [todo EXCEPT ![p] = @ \ {op}]
  /\ UNCHANGED <<clock, pc, deadline, packets>>

SubmitTooLate(p, op) ==
  /\ Attempt(p, op)
  /\ ToolTimeout[op] = 0
  /\ Record(p, {op}, "failed", "tool_timeout_exceeded")
  /\ UNCHANGED <<poolVars, opDeadline, context>>

SubmitRejected(p, op) ==
  /\ Attempt(p, op)
  /\ ToolTimeout[op] > 0
  /\ permits = 0
  /\ Record(p, {op}, "failed", "tool_capacity_exceeded")
  /\ UNCHANGED <<poolVars, opDeadline, context>>

Submit(p, op) ==
  /\ Attempt(p, op)
  /\ ToolTimeout[op] > 0
  /\ permits > 0
  /\ permits' = permits - 1
  /\ holding' = holding \cup {<<p, op>>}
  /\ future' = [future EXCEPT ![p][op] = "queued"]
  /\ opDeadline' = [opDeadline EXCEPT ![p][op] =
                      IF clock + ToolTimeout[op] < deadline[p]
                      THEN clock + ToolTimeout[op] ELSE deadline[p]]
  /\ context' = [context EXCEPT ![p][op] = Ancestors(p, op) \cap packets[p]]
  /\ state' = [state EXCEPT ![p][op] = "running"]
  /\ UNCHANGED code

\* Nothing runs after the submissions: whatever is still pending is recorded
\* as a dependency cycle.
GiveUpUnresolved(p) ==
  /\ todo[p] = {}
  /\ Running(p) = {}
  /\ Goto(p, "submit", "iterate")
  /\ Record(p, Pending(p), "skipped", "invalid_operation_dependency_cycle")
  /\ UNCHANGED <<clock, poolVars, deadline, opDeadline, todo, context, packets>>

BeginWait(p) ==
  /\ todo[p] = {}
  /\ Running(p) # {}
  /\ Goto(p, "submit", "wait")
  /\ UNCHANGED <<clock, poolVars, deadline, opDeadline, todo, state, code,
                 context, packets>>

\* Faulty variant: results of operations that were already given up count.
CollectLateResults(p) ==
  LET good == {op \in Planned[p] : future[p][op] = "ok"}
  IN  /\ Goto(p, "wait", "expire")
      /\ \/ good # {}
         \/ \E op \in Running(p) : clock >= opDeadline[p][op]
      /\ Record(p, good, "succeeded", "success")
      /\ packets' = [packets EXCEPT ![p] = @ \cup good]
      /\ UNCHANGED <<clock, poolVars, deadline, opDeadline, todo, context>>

\* Faulty variant: wait() without a timeout.
CollectWithoutTimeout(p) ==
  LET good == {op \in Running(p) : future[p][op] = "ok"}
  IN  /\ Goto(p, "wait", "expire")
      /\ good # {}
      /\ Record(p, good, "succeeded", "success")
      /\ packets' = [packets EXCEPT ![p] = @ \cup good]
      /\ UNCHANGED <<clock, poolVars, deadline, opDeadline, todo, context>>

\* wait(FIRST_COMPLETED) returns: some future ended, or the earliest deadline
\* passed.  The results of all the futures that ended by now are recorded.
Collect(p) ==
  LET completed == {op \in Running(p) : future[p][op] \in Finished}
      good == {op \in completed : future[p][op] = "ok"}
  IN  /\ Goto(p, "wait", "expire")
      /\ \/ completed # {}
         \/ clock >= deadline[p]
         \/ \E op \in Running(p) : clock >= opDeadline[p][op]
      /\ state' = [state EXCEPT ![p] =
                    [op \in OpIds |-> IF op \in good THEN "succeeded"
                                      ELSE IF op \in completed THEN "failed" ELSE @[op]]]
      /\ code' = [code EXCEPT ![p] =
                    [op \in OpIds |-> IF op \in good THEN "success"
                                      ELSE IF op \in completed
                                      THEN "tool_execution_failed" ELSE @[op]]]
      /\ packets' = [packets EXCEPT ![p] = @ \cup good]
      /\ UNCHANGED <<clock, poolVars, deadline, opDeadline, todo, context>>

\* Running operations whose deadline has passed are given up, even those
\* whose future ended since the results were collected.
Expire(p) ==
  LET expired == {op \in Running(p) : clock >= opDeadline[p][op]}
  IN  /\ Goto(p, "expire", "iterate")
      /\ Cancel(p, expired)
      /\ Record(p, expired, "failed",
                IF clock >= deadline[p] THEN "plan_deadline_exceeded"
                ELSE "tool_timeout_exceeded")
      /\ UNCHANGED <<clock, deadline, opDeadline, todo, context, packets>>

PlanStep(p) ==
  \/ StartOverBudget(p) \/ StartDuplicate(p) \/ StartLoop(p)
  \/ Return(p) \/ SkipBlocked(p) \/ PlanDeadline(p) \/ CollectReady(p)
  \/ StopSubmitting(p)
  \/ \E op \in OpIds : SubmitTooLate(p, op) \/ SubmitRejected(p, op) \/ Submit(p, op)
  \/ GiveUpUnresolved(p) \/ BeginWait(p) \/ Collect(p) \/ Expire(p)

-----------------------------------------------------------------------------
(***************************************************************************)
(* The worker threads of the pool, and time.                               *)
(***************************************************************************)

BeginTool(p, op) ==
  /\ future[p][op] = "queued"
  /\ future' = [future EXCEPT ![p][op] = "executing"]
  /\ UNCHANGED <<clock, permits, holding, planVars>>

\* The tool returns an EvidencePacket, or raises (or returns something else).
\* The thread waiting for the future can see that before the permit is back.
EndTool(p, op) ==
  /\ future[p][op] = "executing"
  /\ \E result \in Finished : future' = [future EXCEPT ![p][op] = result]
  /\ UNCHANGED <<clock, permits, holding, planVars>>

\* Faulty variant: a permit may be given back twice.
ReleasePermitTwice(p, op) ==
  /\ future[p][op] \in Finished
  /\ permits' = permits + 1
  /\ UNCHANGED <<clock, future, holding, planVars>>

\* Faulty variant: the permit of a tool that raised is lost.
ReleasePermitOnSuccess(p, op) ==
  /\ future[p][op] = "ok" /\ <<p, op>> \in holding
  /\ holding' = holding \ {<<p, op>>}
  /\ permits' = permits + 1
  /\ UNCHANGED <<clock, future, planVars>>

\* The done callback of a future that ended.
ReleasePermit(p, op) ==
  /\ future[p][op] \in Finished
  /\ <<p, op>> \in holding
  /\ holding' = holding \ {<<p, op>>}
  /\ permits' = permits + 1
  /\ UNCHANGED <<clock, future, planVars>>

ToolStep(p, op) == BeginTool(p, op) \/ EndTool(p, op) \/ ReleasePermit(p, op)

Tick ==
  /\ clock < MaxClock
  /\ clock' = clock + 1
  /\ UNCHANGED <<poolVars, planVars>>

\* Every request was answered or came too late, and every tool has ended.
Rest ==
  /\ clock = MaxClock /\ holding = {}
  /\ \A p \in Plans : pc[p] \in {"new", "returned"}
  /\ UNCHANGED vars

Next ==
  \/ \E p \in Plans : PlanStep(p)
  \/ \E p \in Plans, op \in OpIds : ToolStep(p, op)
  \/ Tick
  \/ Rest

Spec == Init /\ [][Next]_vars

\* Request threads run and time passes; nothing is assumed of the tools,
\* which may hang for ever.
FairSpec == Spec /\ WF_vars(Tick) /\ \A p \in Plans : WF_vars(PlanStep(p))

-----------------------------------------------------------------------------
(***************************************************************************)
(* Properties.                                                             *)
(***************************************************************************)

TypeOK ==
  /\ clock \in Nat
  /\ permits \in 0 .. Workers
  /\ holding \in SUBSET (Plans \X OpIds)
  /\ future \in [Plans -> [OpIds -> Future]]
  /\ pc \in [Plans -> PC]
  /\ deadline \in [Plans -> Nat]
  /\ opDeadline \in [Plans -> [OpIds -> Nat]]
  /\ todo \in [Plans -> SUBSET OpIds]
  /\ state \in [Plans -> [OpIds -> State]]
  /\ code \in [Plans -> [OpIds -> Code]]
  /\ context \in [Plans -> [OpIds -> SUBSET OpIds]]
  /\ packets \in [Plans -> SUBSET OpIds]

\* Permits belong to futures, not to plans or answers: whatever plans time out,
\* return or start, the permits that are out are exactly those of the futures
\* that hold one, and no queued or executing tool is without a permit.  So the
\* pool never has more than Workers calls, and never loses one of its permits.
PermitAccounting ==
  /\ permits + Cardinality(holding) = Workers
  /\ \A p \in Plans, op \in OpIds :
       future[p][op] \in Live => <<p, op>> \in holding

\* An operation is reported as blocked by its dependencies only if one of its
\* ancestors has a trouble of its own: blame never goes in a circle, and an
\* operation is never lost because of an unrelated one.
RootCause ==
  \A p \in Plans : \A op \in Planned[p] :
    code[p][op] = "dependency_failed" =>
      \E a \in Ancestors(p, op) :
        code[p][a] \notin {"none", "success", "dependency_failed"}

\* The executor, seen through this mapping, does only what DagExecution allows:
\* dependency order, complete contexts, one outcome for each operation, and
\* nothing added to a plan after it was returned, however late a tool ends.
StatusOf(s) ==
  CASE s = "pending" -> "waiting" [] s = "succeeded" -> "done" [] OTHER -> s

Dag == INSTANCE DagExecution WITH
  status   <- [p \in Plans |-> [op \in OpIds |-> StatusOf(state[p][op])]],
  seen     <- context,
  returned <- {p \in Plans : pc[p] = "returned"}

ImplementsDag == Dag!Spec

\* "The next loop records any still-pending work as skipped under the same
\* plan-level deadline" (agent/tools.py:329): an operation that was ready, all
\* of its dependencies having succeeded, is never reported as part of a
\* dependency cycle.
ReadyIsNoCycle ==
  \A p \in Plans : \A op \in Planned[p] :
    code[p][op] = "invalid_operation_dependency_cycle" =>
      \E d \in Deps[p][op] : d \notin Planned[p] \/ state[p][d] # "succeeded"

\* A plan that was started is returned, whatever its tools do.
AlwaysReturns ==
  \A p \in Plans : (pc[p] # "new") ~> (pc[p] = "returned")

\* If every tool that was started returns or raises, the pool gets all its
\* permits back.
ToolsEnd == \A p \in Plans, op \in OpIds : WF_vars(ToolStep(p, op))

PermitsComeBack == ToolsEnd => <>[](permits = Workers)
=============================================================================
