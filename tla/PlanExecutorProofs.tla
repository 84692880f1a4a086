------------------------- MODULE PlanExecutorProofs -------------------------
(***************************************************************************)
(* Theorems about PlanExecutor, for every set of plans, every dependency   *)
(* graph, every pool size and every timeout.                               *)
(***************************************************************************)
EXTENDS PlanExecutor, FiniteSetTheorems, TLAPS

-----------------------------------------------------------------------------
(***************************************************************************)
(* Types.  That the semaphore never leaves 0 .. Workers is not inductive   *)
(* by itself (a release adds a permit without looking), so the induction   *)
(* keeps it in Nat and the bound follows from the accounting below.        *)
(***************************************************************************)

Types ==
  /\ clock \in Nat
  /\ permits \in Nat
  /\ holding \in SUBSET (Plans \X OpIds)
  /\ IsFiniteSet(holding)
  /\ future \in [Plans -> [OpIds -> Future]]
  /\ pc \in [Plans -> PC]
  /\ deadline \in [Plans -> Nat]
  /\ opDeadline \in [Plans -> [OpIds -> Nat]]
  /\ todo \in [Plans -> SUBSET OpIds]
  /\ state \in [Plans -> [OpIds -> State]]
  /\ code \in [Plans -> [OpIds -> Code]]
  /\ context \in [Plans -> [OpIds -> SUBSET OpIds]]
  /\ packets \in [Plans -> SUBSET OpIds]

\* Cancelling futures keeps the pool well typed.
LEMMA CancelTypes ==
  ASSUME Types, NEW p \in Plans, NEW S \in SUBSET OpIds, Cancel(p, S)
  PROVE  /\ permits' \in Nat
         /\ holding' \in SUBSET (Plans \X OpIds)
         /\ IsFiniteSet(holding')
         /\ future' \in [Plans -> [OpIds -> Future]]
<1> DEFINE stopped == {op \in S : future[p][op] = "queued"}
           freed == {p} \X stopped
<1>1. /\ future' = [future EXCEPT ![p] =
                     [op \in OpIds |-> IF op \in stopped THEN "cancelled" ELSE @[op]]]
      /\ holding' = holding \ freed
      /\ permits' = permits + Cardinality(freed)
  BY DEF Cancel
<1>2. IsFiniteSet(stopped) /\ IsFiniteSet({p})
  BY PlansAssumption, FS_Subset, FS_Singleton
<1>3. IsFiniteSet(freed)
  <2> HIDE DEF stopped
  <2> QED BY <1>2, FS_Product
<1>4. Cardinality(freed) \in Nat
  <2> HIDE DEF freed
  <2> QED BY <1>3, FS_CardinalityType
<1>5. holding' \in SUBSET (Plans \X OpIds) /\ IsFiniteSet(holding')
  <2> HIDE DEF freed
  <2> QED BY <1>1, FS_Subset DEF Types
<1>6. future' \in [Plans -> [OpIds -> Future]]
  BY <1>1 DEF Types, Future
<1> QED BY <1>1, <1>4, <1>5, <1>6 DEF Types

\* Recording outcomes keeps the plan well typed.
LEMMA RecordTypes ==
  ASSUME Types, NEW p \in Plans, NEW S, NEW s \in State, NEW c \in Code,
         Record(p, S, s, c)
  PROVE  /\ state' \in [Plans -> [OpIds -> State]]
         /\ code' \in [Plans -> [OpIds -> Code]]
BY DEF Types, Record

\* The types hold at the start.
LEMMA TypesInit == Init => Types
BY FS_EmptySet, LimitsAssumption DEF Init, Types, Future, PC, State, Code

\* The steps of a plan's thread that leave the pool alone.
LEMMA TypesLocal ==
  ASSUME Types, UNCHANGED <<clock, poolVars>>,
         pc' \in [Plans -> PC], deadline' \in [Plans -> Nat],
         todo' \in [Plans -> SUBSET OpIds],
         state' \in [Plans -> [OpIds -> State]],
         code' \in [Plans -> [OpIds -> Code]],
         packets' \in [Plans -> SUBSET OpIds],
         UNCHANGED <<opDeadline, context>>
  PROVE  Types'
BY DEF Types, poolVars

\* Every step of a plan, a tool or the clock keeps the types.
LEMMA TypesNext == Types /\ [Next]_vars => Types'
<1> SUFFICES ASSUME Types, [Next]_vars PROVE Types'
  OBVIOUS
<1>1. ASSUME NEW p \in Plans, PlanStep(p) PROVE Types'
  <2>1. CASE StartOverBudget(p)
    <3>1. Record(p, Planned[p], "skipped", "max_tool_calls_exceeded")
      BY <2>1 DEF StartOverBudget
    <3>2. /\ state' \in [Plans -> [OpIds -> State]]
          /\ code' \in [Plans -> [OpIds -> Code]]
      BY <3>1, RecordTypes DEF State, Code, Unsuccessful, Terminal
    <3> QED BY <2>1, <3>2, TypesLocal DEF StartOverBudget, Start, Goto, Types, PC
  <2>2. CASE StartDuplicate(p)
    <3>1. Record(p, Planned[p], "failed", "duplicate_operation_id")
      BY <2>2 DEF StartDuplicate
    <3>2. /\ state' \in [Plans -> [OpIds -> State]]
          /\ code' \in [Plans -> [OpIds -> Code]]
      BY <3>1, RecordTypes DEF State, Code, Unsuccessful, Terminal
    <3> QED BY <2>2, <3>2, TypesLocal DEF StartDuplicate, Start, Goto, Types, PC
  <2>3. CASE StartLoop(p)
    BY <2>3, TypesLocal, LimitsAssumption DEF StartLoop, Start, Goto, Types, PC
  <2>4. CASE Return(p)
    BY <2>4, TypesLocal DEF Return, Goto, Types, PC
  <2>5. CASE SkipBlocked(p)
    <3>1. state' \in [Plans -> [OpIds -> State]]
      BY <2>5 DEF SkipBlocked, Types, State, Unsuccessful, Terminal
    <3>2. code' \in [Plans -> [OpIds -> Code]]
      BY <2>5 DEF SkipBlocked, Types, Code
    <3> QED BY <2>5, <3>1, <3>2, TypesLocal DEF SkipBlocked, Goto, Types, PC
  <2>6. CASE PlanDeadline(p)
    <3>1. state' \in [Plans -> [OpIds -> State]]
      BY <2>6 DEF PlanDeadline, Types, State, Unsuccessful, Terminal
    <3>2. code' \in [Plans -> [OpIds -> Code]]
      BY <2>6 DEF PlanDeadline, Types, Code
    <3>3. Cancel(p, Running(p)) /\ Running(p) \in SUBSET OpIds
      BY <2>6, PlansAssumption DEF PlanDeadline, Running, InState
    <3>4. /\ permits' \in Nat
          /\ holding' \in SUBSET (Plans \X OpIds)
          /\ IsFiniteSet(holding')
          /\ future' \in [Plans -> [OpIds -> Future]]
      BY <3>3, CancelTypes
    <3> QED BY <2>6, <3>1, <3>2, <3>4 DEF PlanDeadline, Goto, Types, PC
  <2>7. CASE CollectReady(p)
    <3>1. Ready(p) \in SUBSET OpIds
      BY PlansAssumption DEF Ready, Pending, InState
    <3> QED BY <2>7, <3>1, TypesLocal DEF CollectReady, Goto, Types, PC
  <2>8. CASE StopSubmitting(p)
    BY <2>8, TypesLocal DEF StopSubmitting, Types
  <2>9. ASSUME NEW op \in OpIds, SubmitTooLate(p, op) PROVE Types'
    <3>1. Record(p, {op}, "failed", "tool_timeout_exceeded")
      BY <2>9 DEF SubmitTooLate
    <3>2. /\ state' \in [Plans -> [OpIds -> State]]
          /\ code' \in [Plans -> [OpIds -> Code]]
      BY <3>1, RecordTypes DEF State, Code, Unsuccessful, Terminal
    <3> QED BY <2>9, <3>2, TypesLocal DEF SubmitTooLate, Attempt, Types
  <2>10. ASSUME NEW op \in OpIds, SubmitRejected(p, op) PROVE Types'
    <3>1. Record(p, {op}, "failed", "tool_capacity_exceeded")
      BY <2>10 DEF SubmitRejected
    <3>2. /\ state' \in [Plans -> [OpIds -> State]]
          /\ code' \in [Plans -> [OpIds -> Code]]
      BY <3>1, RecordTypes DEF State, Code, Unsuccessful, Terminal
    <3> QED BY <2>10, <3>2, TypesLocal DEF SubmitRejected, Attempt, Types
  <2>11. ASSUME NEW op \in OpIds, Submit(p, op) PROVE Types'
    <3>1. permits' \in Nat
      BY <2>11 DEF Submit, Types
    <3>2. IsFiniteSet(holding') /\ holding' \in SUBSET (Plans \X OpIds)
      <4> DEFINE f == <<p, op>>
      <4>1. IsFiniteSet(holding) /\ holding' = holding \cup {f}
        BY <2>11 DEF Submit, Types
      <4>2. IsFiniteSet(holding')
        <5> HIDE DEF f
        <5> QED BY <4>1, FS_AddElement
      <4> QED BY <4>1, <4>2 DEF Types
    <3>3. future' \in [Plans -> [OpIds -> Future]]
      BY <2>11 DEF Submit, Types, Future, Live
    <3>4. opDeadline' \in [Plans -> [OpIds -> Nat]]
      BY <2>11, LimitsAssumption DEF Submit, Types
    <3>5. context' \in [Plans -> [OpIds -> SUBSET OpIds]]
      BY <2>11 DEF Submit, Types
    <3>6. state' \in [Plans -> [OpIds -> State]]
      BY <2>11 DEF Submit, Types, State
    <3>7. todo' \in [Plans -> SUBSET OpIds]
      BY <2>11 DEF Submit, Attempt, Types
    <3> QED
      BY <2>11, <3>1, <3>2, <3>3, <3>4, <3>5, <3>6, <3>7
         DEF Submit, Attempt, Types
  <2>12. CASE GiveUpUnresolved(p)
    <3>1. Record(p, Pending(p), "skipped", "invalid_operation_dependency_cycle")
      BY <2>12 DEF GiveUpUnresolved
    <3>2. /\ state' \in [Plans -> [OpIds -> State]]
          /\ code' \in [Plans -> [OpIds -> Code]]
      BY <3>1, RecordTypes DEF State, Code, Unsuccessful, Terminal
    <3> QED BY <2>12, <3>2, TypesLocal DEF GiveUpUnresolved, Goto, Types, PC
  <2>13. CASE BeginWait(p)
    BY <2>13, TypesLocal DEF BeginWait, Goto, Types, PC
  <2>14. CASE Collect(p)
    <3> DEFINE completed == {op \in Running(p) : future[p][op] \in Finished}
               good == {op \in completed : future[p][op] = "ok"}
    <3>1. state' \in [Plans -> [OpIds -> State]]
      BY <2>14 DEF Collect, Types, State, Unsuccessful, Terminal
    <3>2. code' \in [Plans -> [OpIds -> Code]]
      BY <2>14 DEF Collect, Types, Code
    <3>3. packets' \in [Plans -> SUBSET OpIds]
      <4>1. good \subseteq OpIds
        BY PlansAssumption DEF Running, InState
      <4>2. packets' = [packets EXCEPT ![p] = @ \cup good]
        BY <2>14 DEF Collect
      <4> HIDE DEF good
      <4> QED BY <4>1, <4>2 DEF Types
    <3> QED BY <2>14, <3>1, <3>2, <3>3, TypesLocal DEF Collect, Goto, Types, PC
  <2>15. CASE Expire(p)
    <3> DEFINE expired == {op \in Running(p) : clock >= opDeadline[p][op]}
               c == IF clock >= deadline[p] THEN "plan_deadline_exceeded"
                    ELSE "tool_timeout_exceeded"
    <3>1. Record(p, expired, "failed", c) /\ Cancel(p, expired)
      BY <2>15 DEF Expire
    <3>2. expired \in SUBSET OpIds
      BY PlansAssumption DEF Running, InState
    <3>3. c \in Code
      BY DEF Code
    <3>4. /\ state' \in [Plans -> [OpIds -> State]]
          /\ code' \in [Plans -> [OpIds -> Code]]
      <4> HIDE DEF c, expired
      <4> QED BY <3>1, <3>3, RecordTypes DEF State, Unsuccessful, Terminal
    <3>5. /\ permits' \in Nat
          /\ holding' \in SUBSET (Plans \X OpIds)
          /\ IsFiniteSet(holding')
          /\ future' \in [Plans -> [OpIds -> Future]]
      <4> HIDE DEF c, expired
      <4> QED BY <3>1, <3>2, CancelTypes
    <3> QED BY <2>15, <3>4, <3>5 DEF Expire, Goto, Types, PC
  <2> QED
    BY <1>1, <2>1, <2>2, <2>3, <2>4, <2>5, <2>6, <2>7, <2>8, <2>9, <2>10,
       <2>11, <2>12, <2>13, <2>14, <2>15 DEF PlanStep
<1>2. ASSUME NEW p \in Plans, NEW op \in OpIds, ToolStep(p, op) PROVE Types'
  <2>1. CASE BeginTool(p, op)
    BY <2>1 DEF BeginTool, Types, planVars, Future, Live
  <2>2. CASE EndTool(p, op)
    BY <2>2 DEF EndTool, Types, planVars, Future, Finished
  <2>3. CASE ReleasePermit(p, op)
    <3>1. IsFiniteSet(holding')
      BY <2>3, FS_Subset DEF ReleasePermit, Types
    <3> QED BY <2>3, <3>1 DEF ReleasePermit, Types, planVars
  <2> QED BY <1>2, <2>1, <2>2, <2>3 DEF ToolStep
<1>3. CASE Tick
  BY <1>3 DEF Tick, Types, poolVars, planVars
<1>4. CASE UNCHANGED vars
  BY <1>4 DEF vars, Types, poolVars, planVars
<1> QED BY <1>1, <1>2, <1>3, <1>4 DEF Next, Rest

-----------------------------------------------------------------------------
(***************************************************************************)
(* What holds of one plan while its thread runs.  The invariant speaks of  *)
(* the ready operations that wait to be submitted (they were found ready   *)
(* by an earlier step and must still be), of what a future says about its  *)
(* operation, and of the dependencies of everything that ran.              *)
(***************************************************************************)

TodoInv(p) ==
  todo[p] # {} => pc[p] = "submit" /\ todo[p] \subseteq Ready(p)

FutureInv(p) ==
  \A op \in OpIds :
    future[p][op] # "none" => op \in Planned[p] /\ state[p][op] # "pending"

PacketsInv(p) == packets[p] = InState(p, "succeeded")

DepsInv(p) ==
  \A op \in Planned[p] :
    state[p][op] \in {"running", "succeeded"} =>
      Known(p, op) /\ \A d \in Deps[p][op] : state[p][d] = "succeeded"

PcInv(p) ==
  /\ pc[p] = "returned" => \A op \in Planned[p] : state[p][op] \in Terminal
  /\ pc[p] = "new" => \A op \in OpIds : state[p][op] = "pending"

PlanInv(p) ==
  TodoInv(p) /\ FutureInv(p) /\ PacketsInv(p) /\ DepsInv(p) /\ PcInv(p)

\* Steps that do not touch plan q keep its invariant.
LEMMA PlanInvOther ==
  ASSUME NEW q \in Plans, PlanInv(q),
         todo'[q] = todo[q], pc'[q] = pc[q], future'[q] = future[q],
         state'[q] = state[q], packets'[q] = packets[q]
  PROVE  PlanInv(q)'
BY DEF PlanInv, TodoInv, FutureInv, PacketsInv, DepsInv, PcInv, Ready, Pending,
       InState

\* A step of plan p's thread leaves the other plans alone.
LEMMA PlanStepOther ==
  ASSUME Types, NEW p \in Plans, PlanStep(p), NEW q \in Plans, q # p
  PROVE  /\ todo'[q] = todo[q] /\ pc'[q] = pc[q] /\ future'[q] = future[q]
         /\ state'[q] = state[q] /\ packets'[q] = packets[q]
         /\ context'[q] = context[q]
<1> USE DEF Types, poolVars
<1>1. CASE StartOverBudget(p) \/ StartDuplicate(p) \/ StartLoop(p)
  BY <1>1 DEF StartOverBudget, StartDuplicate, StartLoop, Start, Goto, Record
<1>2. CASE Return(p) \/ SkipBlocked(p) \/ CollectReady(p) \/ StopSubmitting(p)
  BY <1>2 DEF Return, SkipBlocked, CollectReady, StopSubmitting, Goto
<1>3. CASE PlanDeadline(p)
  BY <1>3 DEF PlanDeadline, Goto, Cancel
<1>4. ASSUME NEW op \in OpIds,
             SubmitTooLate(p, op) \/ SubmitRejected(p, op) \/ Submit(p, op)
      PROVE  /\ todo'[q] = todo[q] /\ pc'[q] = pc[q] /\ future'[q] = future[q]
             /\ state'[q] = state[q] /\ packets'[q] = packets[q]
             /\ context'[q] = context[q]
  BY <1>4 DEF SubmitTooLate, SubmitRejected, Submit, Attempt, Record
<1>5. CASE GiveUpUnresolved(p) \/ BeginWait(p) \/ Collect(p)
  BY <1>5 DEF GiveUpUnresolved, BeginWait, Collect, Goto, Record
<1>6. CASE Expire(p)
  BY <1>6 DEF Expire, Goto, Record, Cancel
<1> QED BY <1>1, <1>2, <1>3, <1>4, <1>5, <1>6 DEF PlanStep

\* A step of plan p's thread keeps the invariant of p.
LEMMA PlanInvStep ==
  ASSUME Types, NEW p \in Plans, PlanInv(p), PlanStep(p)
  PROVE  PlanInv(p)'
<1> USE PlansAssumption
    DEF Types, PlanInv, Pending, Running, InState, Terminal, Unsuccessful, Live,
        Finished
<1>0. /\ Planned[p] \subseteq OpIds
      /\ \A op \in Planned[p] : state[p][op] \in State
  OBVIOUS
<1>1. CASE StartOverBudget(p)
  <2> USE DEF StartOverBudget, Start, Goto, Record, poolVars
  <2>1. TodoInv(p)' /\ PcInv(p)'
    BY <1>1 DEF TodoInv, PcInv
  <2>2. FutureInv(p)' /\ PacketsInv(p)' /\ DepsInv(p)'
    BY <1>1 DEF FutureInv, PacketsInv, DepsInv, PcInv
  <2> QED BY <2>1, <2>2
<1>2. CASE StartDuplicate(p)
  <2> USE DEF StartDuplicate, Start, Goto, Record, poolVars
  <2>1. TodoInv(p)' /\ PcInv(p)'
    BY <1>2 DEF TodoInv, PcInv
  <2>2. FutureInv(p)' /\ PacketsInv(p)' /\ DepsInv(p)'
    BY <1>2 DEF FutureInv, PacketsInv, DepsInv, PcInv
  <2> QED BY <2>1, <2>2
<1>3. CASE StartLoop(p)
  BY <1>3 DEF StartLoop, Start, Goto, poolVars, TodoInv, FutureInv, PacketsInv,
              DepsInv, PcInv
<1>4. CASE Return(p)
  <2>1. ASSUME NEW op \in Planned[p] PROVE state[p][op] \in Terminal
    BY <1>0, <1>4 DEF Return, State
  <2> QED BY <1>4, <2>1 DEF Return, Goto, poolVars, TodoInv, FutureInv,
                            PacketsInv, DepsInv, PcInv
<1>5. CASE SkipBlocked(p)
  <2>1. /\ pc'[p] = "check" /\ todo' = todo /\ future' = future
        /\ packets' = packets /\ todo[p] = {}
        /\ state'[p] = [op \in OpIds |-> IF op \in Blocked(p) THEN "skipped"
                                         ELSE state[p][op]]
    BY <1>5 DEF SkipBlocked, Goto, poolVars, TodoInv
  <2>2. \A op \in Blocked(p) : op \in Planned[p] /\ state[p][op] = "pending"
    BY DEF Blocked
  <2> QED BY <2>1, <2>2 DEF TodoInv, FutureInv, PacketsInv, DepsInv, PcInv, Known
<1>6. CASE PlanDeadline(p)
  <2>1. /\ pc'[p] = "returned" /\ todo' = todo /\ packets' = packets
        /\ todo[p] = {}
        /\ state'[p] = [op \in OpIds |-> IF op \in Running(p) THEN "failed"
                                         ELSE IF op \in Pending(p) THEN "skipped"
                                         ELSE state[p][op]]
    BY <1>6 DEF PlanDeadline, Goto, TodoInv
  <2>2. future'[p] = [op \in OpIds |->
          IF op \in Running(p) /\ future[p][op] = "queued" THEN "cancelled"
          ELSE future[p][op]]
    BY <1>6 DEF PlanDeadline, Cancel
  <2>3. FutureInv(p)'
    BY <2>1, <2>2 DEF FutureInv
  <2>4. PacketsInv(p)' /\ TodoInv(p)'
    BY <2>1 DEF PacketsInv, TodoInv
  <2>5. DepsInv(p)'
    BY <2>1 DEF DepsInv, Known
  <2>6. PcInv(p)'
    BY <1>0, <2>1 DEF PcInv, State
  <2> QED BY <2>3, <2>4, <2>5, <2>6
<1>7. CASE CollectReady(p)
  BY <1>7 DEF CollectReady, Goto, poolVars, TodoInv, FutureInv, PacketsInv,
              DepsInv, PcInv, Ready
<1>8. CASE StopSubmitting(p)
  BY <1>8 DEF StopSubmitting, poolVars, TodoInv, FutureInv, PacketsInv, DepsInv,
              PcInv
<1>9. ASSUME NEW op \in OpIds, SubmitTooLate(p, op) \/ SubmitRejected(p, op)
      PROVE  PlanInv(p)'
  <2>1. /\ pc' = pc /\ pc[p] = "submit" /\ future' = future
        /\ packets' = packets /\ op \in Ready(p)
        /\ todo[p] \subseteq Ready(p) /\ todo'[p] = todo[p] \ {op}
        /\ state'[p] = [o \in OpIds |-> IF o \in {op} THEN "failed"
                                        ELSE state[p][o]]
    BY <1>9 DEF SubmitTooLate, SubmitRejected, Attempt, IsNext, Record, poolVars,
                TodoInv
  <2>2. op \in Planned[p] /\ state[p][op] = "pending"
    BY <2>1 DEF Ready
  <2>3. TodoInv(p)'
    BY <2>1, <2>2 DEF TodoInv, Ready, Known
  <2>4. FutureInv(p)' /\ PacketsInv(p)' /\ PcInv(p)'
    BY <2>1, <2>2 DEF FutureInv, PacketsInv, PcInv
  <2>5. DepsInv(p)'
    BY <2>1, <2>2 DEF DepsInv, Known
  <2> QED BY <2>3, <2>4, <2>5
<1>10. ASSUME NEW op \in OpIds, Submit(p, op) PROVE PlanInv(p)'
  <2>1. /\ pc' = pc /\ pc[p] = "submit" /\ packets' = packets
        /\ future'[p] = [future[p] EXCEPT ![op] = "queued"]
        /\ op \in Ready(p) /\ todo[p] \subseteq Ready(p)
        /\ todo'[p] = todo[p] \ {op}
        /\ state'[p] = [state[p] EXCEPT ![op] = "running"]
    BY <1>10 DEF Submit, Attempt, IsNext, TodoInv
  <2>2. /\ op \in Planned[p] /\ state[p][op] = "pending" /\ Known(p, op)
        /\ \A d \in Deps[p][op] : state[p][d] = "succeeded"
    BY <2>1 DEF Ready
  <2>3. TodoInv(p)'
    BY <2>1, <2>2 DEF TodoInv, Ready, Known
  <2>4. FutureInv(p)' /\ PacketsInv(p)' /\ PcInv(p)'
    BY <2>1, <2>2 DEF FutureInv, PacketsInv, PcInv
  <2>5. DepsInv(p)'
    <3>1. ASSUME NEW o \in Planned[p], state'[p][o] \in {"running", "succeeded"}
          PROVE  Known(p, o) /\ \A d \in Deps[p][o] : state[p][d] = "succeeded"
      BY <1>0, <2>1, <2>2, <3>1 DEF DepsInv
    <3>2. ASSUME NEW d \in Planned[p], state[p][d] = "succeeded"
          PROVE  state'[p][d] = "succeeded"
      BY <1>0, <2>1, <2>2, <3>2
    <3> QED BY <3>1, <3>2 DEF DepsInv, Known
  <2> QED BY <2>3, <2>4, <2>5
<1>11. CASE GiveUpUnresolved(p)
  <2>1. /\ pc'[p] = "iterate" /\ todo' = todo /\ future' = future
        /\ packets' = packets /\ todo[p] = {}
        /\ state'[p] = [op \in OpIds |-> IF op \in Pending(p) THEN "skipped"
                                         ELSE state[p][op]]
    BY <1>11 DEF GiveUpUnresolved, Goto, Record, poolVars
  <2> QED BY <2>1 DEF TodoInv, FutureInv, PacketsInv, DepsInv, PcInv, Known
<1>12. CASE BeginWait(p)
  BY <1>12 DEF BeginWait, Goto, poolVars, TodoInv, FutureInv, PacketsInv,
               DepsInv, PcInv
<1>13. CASE Collect(p)
  <2> DEFINE completed == {op \in Running(p) : future[p][op] \in Finished}
             good == {op \in completed : future[p][op] = "ok"}
  <2>1. /\ pc'[p] = "expire" /\ todo' = todo /\ future' = future /\ todo[p] = {}
        /\ packets'[p] = packets[p] \cup good
        /\ state'[p] = [op \in OpIds |-> IF op \in good THEN "succeeded"
                                         ELSE IF op \in completed THEN "failed"
                                         ELSE state[p][op]]
    BY <1>13 DEF Collect, Goto, poolVars, TodoInv
  <2>2. /\ good \subseteq completed
        /\ \A op \in completed : op \in Planned[p] /\ state[p][op] = "running"
    OBVIOUS
  <2> HIDE DEF completed, good
  <2>3. TodoInv(p)' /\ PcInv(p)' /\ FutureInv(p)'
    BY <2>1, <2>2 DEF TodoInv, PcInv, FutureInv
  <2>4. PacketsInv(p)'
    BY <2>1, <2>2 DEF PacketsInv
  <2>5. DepsInv(p)'
    BY <2>1, <2>2 DEF DepsInv, Known
  <2> QED BY <2>3, <2>4, <2>5
<1>14. CASE Expire(p)
  <2> DEFINE expired == {op \in Running(p) : clock >= opDeadline[p][op]}
  <2>1. /\ pc'[p] = "iterate" /\ todo' = todo /\ packets' = packets
        /\ todo[p] = {}
        /\ state'[p] = [op \in OpIds |-> IF op \in expired THEN "failed"
                                         ELSE state[p][op]]
    BY <1>14 DEF Expire, Goto, Record, TodoInv
  <2>2. future'[p] = [op \in OpIds |->
          IF op \in expired /\ future[p][op] = "queued" THEN "cancelled"
          ELSE future[p][op]]
    BY <1>14 DEF Expire, Cancel
  <2>3. \A op \in expired : op \in Planned[p] /\ state[p][op] = "running"
    OBVIOUS
  <2> HIDE DEF expired
  <2>4. TodoInv(p)' /\ PcInv(p)' /\ FutureInv(p)'
    BY <2>1, <2>2, <2>3 DEF TodoInv, PcInv, FutureInv
  <2>5. PacketsInv(p)'
    BY <2>1, <2>3 DEF PacketsInv
  <2>6. DepsInv(p)'
    BY <2>1, <2>3 DEF DepsInv, Known
  <2> QED BY <2>4, <2>5, <2>6
<1> QED
  BY <1>1, <1>2, <1>3, <1>4, <1>5, <1>6, <1>7, <1>8, <1>9, <1>10, <1>11, <1>12,
     <1>13, <1>14 DEF PlanStep

\* A worker thread moves one future that was submitted, and no plan.
LEMMA PlanInvTool ==
  ASSUME Types, NEW p \in Plans, NEW op \in OpIds, ToolStep(p, op),
         NEW q \in Plans, PlanInv(q)
  PROVE  PlanInv(q)'
<1>1. /\ todo' = todo /\ pc' = pc /\ state' = state /\ packets' = packets
      /\ context' = context
  BY DEF ToolStep, BeginTool, EndTool, ReleasePermit, planVars
<1>2. \A o \in OpIds : future'[q][o] # "none" => future[q][o] # "none"
  <2>1. CASE BeginTool(p, op)
    BY <2>1 DEF BeginTool, Types
  <2>2. CASE EndTool(p, op)
    BY <2>2 DEF EndTool, Types
  <2>3. CASE ReleasePermit(p, op)
    BY <2>3 DEF ReleasePermit
  <2> QED BY <2>1, <2>2, <2>3 DEF ToolStep
<1> QED
  BY <1>1, <1>2 DEF PlanInv, TodoInv, FutureInv, PacketsInv, DepsInv, PcInv,
                    Ready, Pending, InState

HoldInv ==
  \A p \in Plans, op \in OpIds : <<p, op>> \in holding => future[p][op] # "none"

Inv ==
  /\ Types
  /\ \A p \in Plans : PlanInv(p)
  /\ PermitAccounting
  /\ HoldInv

\* The invariant holds at the start.
LEMMA InvInit == Init => Inv
<1> SUFFICES ASSUME Init PROVE Inv
  OBVIOUS
<1>1. Types
  BY TypesInit
<1>2. ASSUME NEW p \in Plans PROVE PlanInv(p)
  BY PlansAssumption
     DEF Init, PlanInv, TodoInv, FutureInv, PacketsInv, DepsInv, PcInv, InState
<1>3. PermitAccounting /\ HoldInv
  BY FS_EmptySet, LimitsAssumption DEF Init, PermitAccounting, HoldInv, Live
<1> QED BY <1>1, <1>2, <1>3 DEF Inv

\* Cancelling futures frees the permits of the queued ones, each of which
\* holds a permit; executing ones keep theirs.
LEMMA CancelKeepsAccount ==
  ASSUME Types, PermitAccounting, HoldInv,
         NEW p \in Plans, NEW S \in SUBSET OpIds, Cancel(p, S)
  PROVE  PermitAccounting' /\ HoldInv'
<1> DEFINE stopped == {op \in S : future[p][op] = "queued"}
           freed == {p} \X stopped
<1>1. /\ future' = [future EXCEPT ![p] =
                     [op \in OpIds |-> IF op \in stopped THEN "cancelled" ELSE @[op]]]
      /\ holding' = holding \ freed
      /\ permits' = permits + Cardinality(freed)
  BY DEF Cancel
<1>2. freed \subseteq holding
  BY DEF PermitAccounting, Live
<1>3. IsFiniteSet(holding) /\ IsFiniteSet(freed)
  BY <1>2, FS_Subset DEF Types
<1>4. Cardinality(holding') = Cardinality(holding) - Cardinality(freed)
  <2>1. holding \cap freed = freed /\ holding' = holding \ freed
    BY <1>1, <1>2
  <2> HIDE DEF freed
  <2> QED BY <2>1, <1>3, FS_Difference
<1>5. Cardinality(freed) \in Nat /\ Cardinality(holding) \in Nat
  BY <1>3, FS_CardinalityType
<1>6. permits' + Cardinality(holding') = Workers
  BY <1>1, <1>4, <1>5 DEF Types, PermitAccounting
<1>7. ASSUME NEW q \in Plans, NEW op \in OpIds, future'[q][op] \in Live
      PROVE  <<q, op>> \in holding'
  <2>1. future[q][op] \in Live /\ ~(q = p /\ op \in stopped)
    BY <1>1, <1>7 DEF Types, Live
  <2>2. <<q, op>> \in holding
    BY <2>1 DEF PermitAccounting
  <2> QED BY <2>1, <2>2, <1>1
<1>8. ASSUME NEW q \in Plans, NEW op \in OpIds, <<q, op>> \in holding'
      PROVE  future'[q][op] # "none"
  BY <1>1, <1>8 DEF Types, HoldInv
<1> QED BY <1>6, <1>7, <1>8 DEF PermitAccounting, HoldInv

\* A step of plan p's thread keeps the permits in account.
LEMMA AccountStep ==
  ASSUME Inv, [Next]_vars
  PROVE  PermitAccounting' /\ HoldInv'
<1> USE DEF Inv
<1>1. CASE UNCHANGED poolVars
  BY <1>1 DEF poolVars, PermitAccounting, HoldInv
<1>2. ASSUME NEW p \in Plans, NEW op \in OpIds, Submit(p, op)
      PROVE  PermitAccounting' /\ HoldInv'
  <2> DEFINE f == <<p, op>>
  <2>1. /\ permits' = permits - 1 /\ holding' = holding \cup {f}
        /\ future' = [future EXCEPT ![p][op] = "queued"]
    BY <1>2 DEF Submit
  <2>2. f \notin holding
    <3>1. op \in Ready(p)
      BY <1>2 DEF Submit, Attempt, IsNext, PlanInv, TodoInv
    <3>2. future[p][op] = "none"
      BY <3>1 DEF Ready, Pending, InState, PlanInv, FutureInv
    <3> QED BY <3>2 DEF HoldInv
  <2>3. IsFiniteSet(holding)
    BY DEF Types
  <2>4. /\ Cardinality(holding') = Cardinality(holding) + 1
        /\ Cardinality(holding) \in Nat
    <3> HIDE DEF f
    <3> QED BY <2>1, <2>2, <2>3, FS_AddElement, FS_CardinalityType
  <2>5. permits' + Cardinality(holding') = Workers
    BY <2>1, <2>4 DEF Types, PermitAccounting
  <2> QED BY <2>1, <2>5 DEF PermitAccounting, HoldInv, Types
<1>3. ASSUME NEW p \in Plans, PlanDeadline(p) \/ Expire(p)
      PROVE  PermitAccounting' /\ HoldInv'
  <2>1. PICK S \in SUBSET OpIds : Cancel(p, S)
    BY <1>3, PlansAssumption DEF PlanDeadline, Expire, Running, InState
  <2> QED BY <2>1, CancelKeepsAccount
<1>4. ASSUME NEW p \in Plans, NEW op \in OpIds, ToolStep(p, op)
      PROVE  PermitAccounting' /\ HoldInv'
  <2>1. CASE BeginTool(p, op)
    BY <2>1 DEF BeginTool, Types, PermitAccounting, HoldInv, Live
  <2>2. CASE EndTool(p, op)
    BY <2>2 DEF EndTool, Types, PermitAccounting, HoldInv, Live, Finished
  <2>3. CASE ReleasePermit(p, op)
    <3> DEFINE f == <<p, op>>
    <3>0. /\ IsFiniteSet(holding) /\ f \in holding /\ holding' = holding \ {f}
          /\ permits' = permits + 1
      BY <2>3 DEF ReleasePermit, Types
    <3>1. /\ Cardinality(holding') = Cardinality(holding) - 1
          /\ Cardinality(holding) \in Nat
      <4> HIDE DEF f
      <4> QED BY <3>0, FS_RemoveElement, FS_CardinalityType
    <3>2. permits' + Cardinality(holding') = Workers
      BY <3>0, <3>1 DEF Types, PermitAccounting
    <3>3. ASSUME NEW q \in Plans, NEW o \in OpIds, future'[q][o] \in Live
          PROVE  <<q, o>> \in holding'
      BY <2>3, <3>3 DEF ReleasePermit, PermitAccounting, Live, Finished
    <3> QED BY <2>3, <3>2, <3>3 DEF ReleasePermit, PermitAccounting, HoldInv
  <2> QED BY <1>4, <2>1, <2>2, <2>3 DEF ToolStep
<1>5. ASSUME NEW p \in Plans, PlanStep(p)
      PROVE  \/ UNCHANGED poolVars
             \/ \E op \in OpIds : Submit(p, op)
             \/ PlanDeadline(p) \/ Expire(p)
  BY <1>5 DEF PlanStep, StartOverBudget, StartDuplicate, StartLoop, Start, Return,
     SkipBlocked, CollectReady, StopSubmitting, SubmitTooLate, SubmitRejected,
     GiveUpUnresolved, BeginWait, Collect
<1> QED
  BY <1>1, <1>2, <1>3, <1>4, <1>5 DEF Next, Tick, Rest, vars

\* Every step keeps the invariant.
LEMMA InvNext == Inv /\ [Next]_vars => Inv'
<1> SUFFICES ASSUME Inv, [Next]_vars PROVE Inv'
  OBVIOUS
<1>1. Types'
  BY TypesNext DEF Inv
<1>2. PermitAccounting' /\ HoldInv'
  BY AccountStep
<1>3. ASSUME NEW q \in Plans PROVE PlanInv(q)'
  <2>1. CASE \E p \in Plans : PlanStep(p)
    <3>1. PICK p \in Plans : PlanStep(p)
      BY <2>1
    <3>2. CASE q = p
      BY <3>1, <3>2, PlanInvStep DEF Inv
    <3>3. CASE q # p
      BY <3>1, <3>3, PlanStepOther, PlanInvOther DEF Inv
    <3> QED BY <3>2, <3>3
  <2>2. CASE \E p \in Plans, op \in OpIds : ToolStep(p, op)
    BY <2>2, PlanInvTool DEF Inv
  <2>3. CASE Tick \/ Rest \/ UNCHANGED vars
    BY <2>3, PlanInvOther DEF Inv, Tick, Rest, vars, poolVars, planVars
  <2> QED BY <2>1, <2>2, <2>3 DEF Next
<1> QED BY <1>1, <1>2, <1>3 DEF Inv

\* The invariant holds throughout.
LEMMA Invariance == Spec => []Inv
BY InvInit, InvNext, PTL DEF Spec

\* Type correctness of every variable, with the semaphore within its bounds
\* (agent/tools.py:154: a BoundedSemaphore(workers) is never over-released).
THEOREM TypeCorrect == Spec => []TypeOK
<1>1. Inv => TypeOK
  <2> SUFFICES ASSUME Inv PROVE TypeOK
    OBVIOUS
  <2>1. Cardinality(holding) \in Nat
    BY FS_CardinalityType DEF Inv, Types
  <2>2. permits \in 0 .. Workers
    BY <2>1, LimitsAssumption DEF Inv, Types, PermitAccounting
  <2> QED BY <2>2 DEF Inv, Types, TypeOK
<1> QED BY <1>1, Invariance, PTL

\* Whatever plans time out, are cancelled or return, the permits that are out
\* are those of the futures that have not ended (agent/tools.py:148-172).
THEOREM PermitsAccounted == Spec => []PermitAccounting
<1>1. Inv => PermitAccounting
  BY DEF Inv
<1> QED BY <1>1, Invariance, PTL

-----------------------------------------------------------------------------
(***************************************************************************)
(* Who is to blame for an operation that was skipped.                      *)
(***************************************************************************)

Unsettled == {"pending", "running"}

\* The codes of an operation with a trouble of its own.
OwnTrouble == Code \ {"none", "success", "dependency_failed"}

\* Codes go with states, and whoever is blocked has an ancestor to blame.
BlameInv(p) ==
  \A op \in Planned[p] :
    /\ state[p][op] \in Unsettled <=> code[p][op] = "none"
    /\ state[p][op] = "succeeded" <=> code[p][op] = "success"
    /\ code[p][op] = "dependency_failed" =>
         \E a \in Ancestors(p, op) : code[p][a] \in OwnTrouble

\* What a plan depends on through a dependency, it depends on.
LEMMA AncestorsOfDeps ==
  ASSUME NEW p \in Plans, NEW op \in OpIds, NEW d \in Deps[p][op] \cap Planned[p]
  PROVE  d \in Ancestors(p, op) /\ Ancestors(p, d) \subseteq Ancestors(p, op)
BY DEF Ancestors, ClosedUnderDeps

\* An operation settles with a trouble of its own or a success, or does not settle.
Settles(p, op) ==
  \/ /\ code'[p][op] = code[p][op]
     /\ state'[p][op] = state[p][op] \/ {state[p][op], state'[p][op]} \subseteq Unsettled
  \/ /\ state[p][op] \in Unsettled
     /\ \/ state'[p][op] = "succeeded" /\ code'[p][op] = "success"
        \/ state'[p][op] \in Unsuccessful /\ code'[p][op] \in OwnTrouble

\* Operations that settle so keep the blame where it is.
LEMMA SettlingKeepsBlame ==
  ASSUME NEW p \in Plans, BlameInv(p), \A op \in Planned[p] : Settles(p, op)
  PROVE  BlameInv(p)'
<1>1. ASSUME NEW op \in Planned[p], code[p][op] \in OwnTrouble
      PROVE  code'[p][op] \in OwnTrouble
  BY <1>1 DEF BlameInv, Settles, OwnTrouble
<1>2. \A op \in Planned[p] : Ancestors(p, op) \subseteq Planned[p]
  BY DEF Ancestors
<1>3. ASSUME NEW op \in Planned[p]
      PROVE  /\ state'[p][op] \in Unsettled <=> code'[p][op] = "none"
             /\ state'[p][op] = "succeeded" <=> code'[p][op] = "success"
  BY DEF BlameInv, Settles, OwnTrouble, Unsettled, Unsuccessful
<1>4. ASSUME NEW op \in Planned[p], code'[p][op] = "dependency_failed"
      PROVE  \E a \in Ancestors(p, op) : code'[p][a] \in OwnTrouble
  <2>1. code[p][op] = "dependency_failed"
    BY <1>4 DEF Settles, OwnTrouble
  <2> QED BY <1>1, <1>2, <2>1 DEF BlameInv
<1> QED BY <1>3, <1>4 DEF BlameInv

\* Every step of the thread but the pass over blocked operations settles so.
LEMMA StepSettles ==
  ASSUME Types, NEW p \in Plans, PlanInv(p), PlanStep(p), ~ SkipBlocked(p), NEW op \in Planned[p]
  PROVE  Settles(p, op)
<1> USE PlansAssumption
    DEF Types, Settles, Unsettled, OwnTrouble, Code, Unsuccessful, Pending, Running, InState
<1>1. CASE StartOverBudget(p) \/ StartDuplicate(p)
  <2>1. state[p][op] = "pending"
    BY <1>1 DEF StartOverBudget, StartDuplicate, Start, Goto, PlanInv, PcInv
  <2>2. CASE StartOverBudget(p)
    BY <2>1, <2>2 DEF StartOverBudget, Record
  <2>3. CASE StartDuplicate(p)
    BY <2>1, <2>3 DEF StartDuplicate, Record
  <2> QED BY <1>1, <2>2, <2>3
<1>2. CASE StartLoop(p) \/ Return(p) \/ CollectReady(p) \/ StopSubmitting(p) \/ BeginWait(p)
  BY <1>2 DEF StartLoop, Start, Return, CollectReady, StopSubmitting, BeginWait
<1>3. CASE PlanDeadline(p)
  BY <1>3 DEF PlanDeadline
<1>4. ASSUME NEW o \in OpIds, SubmitTooLate(p, o) \/ SubmitRejected(p, o)
      PROVE  Settles(p, op)
  <2>1. state[p][o] = "pending"
    BY <1>4 DEF SubmitTooLate, SubmitRejected, Attempt, IsNext, PlanInv, TodoInv, Ready
  <2>2. CASE SubmitTooLate(p, o)
    BY <2>1, <2>2 DEF SubmitTooLate, Record
  <2>3. CASE SubmitRejected(p, o)
    BY <2>1, <2>3 DEF SubmitRejected, Record
  <2> QED BY <1>4, <2>2, <2>3
<1>5. ASSUME NEW o \in OpIds, Submit(p, o) PROVE Settles(p, op)
  <2>1. state[p][o] = "pending"
    BY <1>5 DEF Submit, Attempt, IsNext, PlanInv, TodoInv, Ready
  <2>2. state' = [state EXCEPT ![p][o] = "running"] /\ code' = code
    BY <1>5 DEF Submit
  <2> QED BY <2>1, <2>2
<1>6. CASE GiveUpUnresolved(p)
  BY <1>6 DEF GiveUpUnresolved, Record
<1>7. CASE Collect(p)
  BY <1>7 DEF Collect
<1>8. CASE Expire(p)
  BY <1>8 DEF Expire, Record
<1> QED BY <1>1, <1>2, <1>3, <1>4, <1>5, <1>6, <1>7, <1>8 DEF PlanStep

\* The pass skips only operations that have somebody to blame: the pending ones of which that
\* holds are closed under the pass, and what it skips is the least such set.
LEMMA SkippingKeepsBlame ==
  ASSUME Types, NEW p \in Plans, BlameInv(p), SkipBlocked(p)
  PROVE  BlameInv(p)'
<1> DEFINE ToBlame(a) == code[p][a] \in OwnTrouble \/ (a \in Pending(p) /\ ~ Known(p, a))
           S == {op \in Pending(p) : ~ Known(p, op) \/ \E a \in Ancestors(p, op) : ToBlame(a)}
<1>0. /\ Planned[p] \subseteq OpIds /\ Pending(p) \subseteq Planned[p]
      /\ \A op \in OpIds : Ancestors(p, op) \subseteq Planned[p]
  BY PlansAssumption DEF Pending, InState, Ancestors
<1>1. PassClosed(p, S)
  <2> SUFFICES ASSUME NEW op \in Pending(p), Known(p, op),
                      BlockedOutright(p, op) \/ (\E d \in Deps[p][op] \cap S : d < op)
               PROVE  \E a \in Ancestors(p, op) : ToBlame(a)
    BY DEF PassClosed
  <2>1. CASE BlockedOutright(p, op)
    <3>1. PICK d \in Deps[p][op] \cap Planned[p] : state[p][d] \in Unsuccessful
      BY <2>1 DEF BlockedOutright, Known
    <3>2. d \in Ancestors(p, op) /\ Ancestors(p, d) \subseteq Ancestors(p, op)
      BY <1>0, AncestorsOfDeps
    <3>3. code[p][d] \in OwnTrouble \/ code[p][d] = "dependency_failed"
      BY <1>0, <3>1 DEF Types, BlameInv, OwnTrouble, Unsuccessful, Unsettled
    <3> QED BY <3>1, <3>2, <3>3 DEF BlameInv
  <2>2. CASE \E d \in Deps[p][op] \cap S : d < op
    <3>1. PICK d \in Deps[p][op] \cap S : TRUE
      BY <2>2
    <3>2. d \in Ancestors(p, op) /\ Ancestors(p, d) \subseteq Ancestors(p, op)
      BY <1>0, AncestorsOfDeps
    <3> QED BY <3>1, <3>2
  <2> QED BY <2>1, <2>2
<1>2. Blocked(p) \subseteq S /\ Blocked(p) \subseteq Pending(p)
  BY <1>1 DEF Blocked
<1>3. ASSUME NEW a \in Pending(p), ~ Known(p, a) PROVE a \in Blocked(p)
  BY <1>3 DEF Blocked, PassClosed, BlockedOutright
<1>4. \A op \in OpIds :
        /\ state'[p][op] = IF op \in Blocked(p) THEN "skipped" ELSE state[p][op]
        /\ code'[p][op] = IF op \in Blocked(p) /\ ~ Known(p, op) THEN "unknown_dependency"
                          ELSE IF op \in Blocked(p) THEN "dependency_failed" ELSE code[p][op]
  BY DEF SkipBlocked, Types
<1>5. ASSUME NEW a \in Planned[p], ToBlame(a) PROVE code'[p][a] \in OwnTrouble
  <2>1. CASE a \in Pending(p) /\ ~ Known(p, a)
    BY <1>0, <1>3, <1>4, <2>1 DEF OwnTrouble, Code
  <2>2. CASE code[p][a] \in OwnTrouble
    <3>1. a \notin Pending(p)
      BY <2>2 DEF BlameInv, OwnTrouble, Pending, InState, Unsettled
    <3> QED BY <1>0, <1>2, <1>4, <2>2, <3>1
  <2> QED BY <1>5, <2>1, <2>2
<1>6. ASSUME NEW op \in Planned[p]
      PROVE  /\ state'[p][op] \in Unsettled <=> code'[p][op] = "none"
             /\ state'[p][op] = "succeeded" <=> code'[p][op] = "success"
             /\ code'[p][op] = "dependency_failed" =>
                  \E a \in Ancestors(p, op) : code'[p][a] \in OwnTrouble
  <2>1. CASE op \notin Blocked(p)
    <3>1. state'[p][op] = state[p][op] /\ code'[p][op] = code[p][op]
      BY <1>0, <1>4, <2>1
    <3> QED BY <1>0, <1>5, <3>1 DEF BlameInv
  <2>2. CASE op \in Blocked(p) /\ ~ Known(p, op)
    BY <1>0, <1>4, <2>2 DEF Unsettled
  <2>3. CASE op \in Blocked(p) /\ Known(p, op)
    <3>1. PICK a \in Ancestors(p, op) : ToBlame(a)
      BY <1>2, <2>3
    <3> QED BY <1>0, <1>4, <1>5, <2>3, <3>1 DEF Unsettled
  <2> QED BY <2>1, <2>2, <2>3
<1> QED BY <1>6 DEF BlameInv

\* Another plan's codes and states are its own.
LEMMA BlameOther ==
  ASSUME Types, NEW p \in Plans, PlanStep(p), NEW q \in Plans, q # p, BlameInv(q)
  PROVE  BlameInv(q)'
<1>1. state'[q] = state[q]
  BY PlanStepOther
<1>2. code'[q] = code[q]
  BY DEF Types, PlanStep, StartOverBudget, StartDuplicate, StartLoop, Start, Return,
         SkipBlocked, PlanDeadline, CollectReady, StopSubmitting, SubmitTooLate,
         SubmitRejected, Submit, Attempt, GiveUpUnresolved, BeginWait, Collect, Expire, Record
<1> QED BY <1>1, <1>2 DEF BlameInv

\* An operation is reported as blocked by its dependencies only if an ancestor has a trouble of
\* its own: unknown name, time, capacity or a failing tool (agent/tools.py:262-285).
THEOREM BlameHasARoot == Spec => []RootCause
<1> DEFINE Blame == \A p \in Plans : BlameInv(p)
<1>1. Init => Blame
  BY PlansAssumption DEF Init, BlameInv, Unsettled
<1>2. ASSUME Inv, Blame, [Next]_vars PROVE Blame'
  <2>1. ASSUME NEW p \in Plans, PlanStep(p), NEW q \in Plans PROVE BlameInv(q)'
    <3>1. CASE q # p
      BY <1>2, <2>1, <3>1, BlameOther DEF Inv
    <3>2. CASE q = p /\ SkipBlocked(p)
      BY <1>2, <3>2, SkippingKeepsBlame DEF Inv
    <3>3. CASE q = p /\ ~ SkipBlocked(p)
      BY <1>2, <2>1, <3>3, StepSettles, SettlingKeepsBlame DEF Inv
    <3> QED BY <3>1, <3>2, <3>3
  <2>2. ASSUME UNCHANGED <<state, code>> PROVE Blame'
    BY <1>2, <2>2 DEF BlameInv
  <2>3. ASSUME NEW p \in Plans, NEW op \in OpIds, ToolStep(p, op) PROVE UNCHANGED <<state, code>>
    BY <2>3 DEF ToolStep, BeginTool, EndTool, ReleasePermit, planVars
  <2>4. CASE Tick \/ Rest \/ UNCHANGED vars
    BY <2>2, <2>4 DEF Tick, Rest, vars, planVars
  <2> QED BY <1>2, <2>1, <2>2, <2>3, <2>4 DEF Next
<1>3. Blame => RootCause
  BY DEF BlameInv, RootCause, OwnTrouble
<1> QED BY <1>1, <1>2, <1>3, Invariance, PTL DEF Spec

-----------------------------------------------------------------------------
(***************************************************************************)
(* Refinement of DagExecution.                                             *)
(***************************************************************************)

\* When an operation is submitted the packets of all its ancestors are there:
\* the operations that succeeded are closed under dependencies, so they
\* contain the least closed set.
LEMMA AncestorsSucceeded ==
  ASSUME NEW p \in Plans, PlanInv(p), NEW op \in Ready(p)
  PROVE  Ancestors(p, op) \cap packets[p] = Ancestors(p, op)
<1>1. packets[p] \subseteq Planned[p]
  BY DEF PlanInv, PacketsInv, InState
<1>2. Deps[p][op] \cap Planned[p] \subseteq packets[p]
  BY DEF PlanInv, PacketsInv, Ready, InState
<1>3. ClosedUnderDeps(p, packets[p])
  BY DEF PlanInv, PacketsInv, DepsInv, InState, ClosedUnderDeps
<1>4. ASSUME NEW a \in Ancestors(p, op) PROVE a \in packets[p]
  BY <1>1, <1>2, <1>3 DEF Ancestors
<1> QED BY <1>4

\* The moves of one operation of plan p in a step of its thread.
Moves(p, op) ==
  \/ /\ state[p][op] = "pending" /\ state'[p][op] = "running"
     /\ op \in Ready(p) /\ context'[p][op] = Ancestors(p, op)
  \/ /\ state[p][op] = "running" /\ state'[p][op] \in {"succeeded", "failed"}
     /\ context'[p][op] = context[p][op]
  \/ /\ state[p][op] = "pending" /\ state'[p][op] \in {"failed", "skipped"}
     /\ context'[p][op] = context[p][op]
  \/ /\ state'[p][op] = state[p][op]
     /\ context'[p][op] = context[p][op]

\* What a step of plan p's thread does to its operations, seen as DagExecution does.
LEMMA StepMoves ==
  ASSUME Types, NEW p \in Plans, PlanInv(p), PlanStep(p), NEW op \in OpIds
  PROVE  Moves(p, op)
<1> USE DEF Types, Moves, Pending, Running, InState
<1>1. CASE StartOverBudget(p) \/ StartDuplicate(p)
  BY <1>1 DEF StartOverBudget, StartDuplicate, Start, Goto, Record, PlanInv, PcInv
<1>2. CASE StartLoop(p) \/ Return(p) \/ CollectReady(p) \/ StopSubmitting(p)
           \/ BeginWait(p)
  BY <1>2 DEF StartLoop, Start, Return, CollectReady, StopSubmitting, BeginWait
<1>3. CASE SkipBlocked(p)
  BY <1>3 DEF SkipBlocked, Blocked
<1>4. CASE PlanDeadline(p)
  BY <1>4 DEF PlanDeadline
<1>5. ASSUME NEW o \in OpIds, SubmitTooLate(p, o) \/ SubmitRejected(p, o)
      PROVE  Moves(p, op)
  BY <1>5 DEF SubmitTooLate, SubmitRejected, Attempt, IsNext, Record, PlanInv,
              TodoInv, Ready
<1>6. ASSUME NEW o \in OpIds, Submit(p, o) PROVE Moves(p, op)
  <2>1. o \in Ready(p) /\ state[p][o] = "pending"
    BY <1>6 DEF Submit, Attempt, IsNext, PlanInv, TodoInv, Ready
  <2>2. Ancestors(p, o) \cap packets[p] = Ancestors(p, o)
    BY <2>1, AncestorsSucceeded
  <2>3. /\ state' = [state EXCEPT ![p][o] = "running"]
        /\ context' = [context EXCEPT ![p][o] = Ancestors(p, o)]
    BY <1>6, <2>2 DEF Submit
  <2> QED BY <2>1, <2>3
<1>7. CASE GiveUpUnresolved(p)
  BY <1>7 DEF GiveUpUnresolved, Record
<1>8. CASE Collect(p)
  BY <1>8 DEF Collect
<1>9. CASE Expire(p)
  BY <1>9 DEF Expire, Record
<1> QED BY <1>1, <1>2, <1>3, <1>4, <1>5, <1>6, <1>7, <1>8, <1>9 DEF PlanStep

\* A thread that returned takes no further step, and it returns from one of
\* three places.
LEMMA StepReturns ==
  ASSUME Types, NEW p \in Plans, PlanStep(p)
  PROVE  /\ pc[p] # "returned"
         /\ \A q \in Plans : q # p => pc'[q] = pc[q]
BY DEF Types, PlanStep, StartOverBudget, StartDuplicate, StartLoop, Start, Return,
   SkipBlocked, PlanDeadline, CollectReady, StopSubmitting, SubmitTooLate,
   SubmitRejected, Submit, Attempt, IsNext, GiveUpUnresolved, BeginWait, Collect,
   Expire, Goto

\* The refinement mapping keeps the states of operations apart.
LEMMA StatusValues ==
  /\ StatusOf("pending") = "waiting" /\ StatusOf("running") = "running"
  /\ StatusOf("succeeded") = "done" /\ StatusOf("failed") = "failed"
  /\ StatusOf("skipped") = "skipped"
BY DEF StatusOf

\* The executor implements DagExecution: whatever the tools, the pool and the
\* clock do, each operation runs at most once, after its dependencies and with
\* the packets of exactly its ancestors, gets one outcome, and the packet of a
\* plan is never changed after execute() returned (agent/tools.py:191-439).
THEOREM ExecutorImplementsDag == Spec => ImplementsDag
<1> DEFINE status == [p \in Plans |-> [op \in OpIds |-> StatusOf(state[p][op])]]
           returned == {p \in Plans : pc[p] = "returned"}
<1>1. Init => Dag!Init
  <2> SUFFICES ASSUME Init PROVE Dag!Init
    OBVIOUS
  <2>1. \A p \in Plans, op \in OpIds : StatusOf(state[p][op]) = "waiting"
    BY StatusValues DEF Init
  <2>2. status = [p \in Plans |-> [op \in OpIds |-> "waiting"]]
    BY <2>1
  <2>3. returned = {}
    BY DEF Init
  <2> QED BY <2>2, <2>3 DEF Init, Dag!Init
<1>2. Inv /\ Inv' /\ [Next]_vars => [Dag!Next]_(Dag!vars)
  <2> SUFFICES ASSUME Inv, Inv', [Next]_vars PROVE [Dag!Next]_(Dag!vars)
    OBVIOUS
  <2>1. CASE UNCHANGED <<state, context, packets, pc>>
    BY <2>1 DEF Dag!vars
  <2>2. ASSUME NEW p \in Plans, PlanStep(p) PROVE Dag!Advance(p)
    <3>1. pc[p] # "returned" /\ \A q \in Plans : q # p => pc'[q] = pc[q]
      BY <2>2, StepReturns DEF Inv
    <3>2. \A q \in Plans \ {p} :
            state'[q] = state[q] /\ context'[q] = context[q] /\ packets'[q] = packets[q]
      BY <2>2, PlanStepOther DEF Inv
    <3>3. \A op \in OpIds : Moves(p, op)
      BY <2>2, StepMoves DEF Inv
    <3>4. Types /\ Types' /\ PlanInv(p)'
      BY DEF Inv
    <3>5. status' \in [Plans -> [OpIds -> Dag!Status]]
      BY <3>4 DEF Types, State, Terminal, Unsuccessful, StatusOf, Dag!Status, Dag!Outcome
    <3>6. \A q \in Plans \ {p} : status'[q] = status[q]
      BY <3>2
    <3>7. ASSUME NEW op \in OpIds
          PROVE  Dag!Begin(p, op) \/ Dag!End(p, op) \/ Dag!Abandon(p, op)
                 \/ Dag!Keep(p, op)
      <4>0. /\ status[p][op] = StatusOf(state[p][op])
            /\ status'[p][op] = StatusOf(state'[p][op])
            /\ \A d \in OpIds : status[p][d] = StatusOf(state[p][d])
        OBVIOUS
      <4>1. CASE /\ state[p][op] = "pending" /\ state'[p][op] = "running"
                 /\ op \in Ready(p) /\ context'[p][op] = Ancestors(p, op)
        <5>1. Known(p, op) /\ \A d \in Deps[p][op] : status[p][d] = "done"
          BY <4>0, <4>1, StatusValues, PlansAssumption DEF Ready, Known
        <5>2. status[p][op] = "waiting" /\ status'[p][op] = "running"
          BY <4>0, <4>1, StatusValues
        <5>3. context'[p][op] = Dag!Ancestors(p, op) /\ Dag!Known(p, op)
          BY <4>1, <5>1 DEF Dag!Ancestors, Ancestors, Dag!ClosedUnderDeps,
                            ClosedUnderDeps, Dag!Known, Known
        <5> QED BY <5>1, <5>2, <5>3 DEF Dag!Begin
      <4>2. CASE /\ state[p][op] = "running"
                 /\ state'[p][op] \in {"succeeded", "failed"}
                 /\ context'[p][op] = context[p][op]
        BY <4>0, <4>2, StatusValues DEF Dag!End
      <4>3. CASE /\ state[p][op] = "pending"
                 /\ state'[p][op] \in {"failed", "skipped"}
                 /\ context'[p][op] = context[p][op]
        BY <4>0, <4>3, StatusValues DEF Dag!Abandon
      <4>4. CASE state'[p][op] = state[p][op] /\ context'[p][op] = context[p][op]
        BY <4>0, <4>4 DEF Dag!Keep
      <4> QED BY <3>3, <4>1, <4>2, <4>3, <4>4 DEF Moves
    <3>8. packets' = [packets EXCEPT ![p] =
                        {op \in Planned[p] : status'[p][op] = "done"}]
      <4>1. packets'[p] = {op \in Planned[p] : state'[p][op] = "succeeded"}
        BY <3>4 DEF PlanInv, PacketsInv, InState
      <4>2. ASSUME NEW op \in Planned[p]
            PROVE  status'[p][op] = "done" <=> state'[p][op] = "succeeded"
        <5>1. op \in OpIds /\ state'[p][op] \in State
          BY <3>4, PlansAssumption DEF Types
        <5> QED BY <5>1 DEF State, Terminal, Unsuccessful, StatusOf
      <4>3. {op \in Planned[p] : status'[p][op] = "done"}
              = {op \in Planned[p] : state'[p][op] = "succeeded"}
        <5> HIDE DEF status
        <5> QED BY <4>2
      <4> HIDE DEF status
      <4> QED BY <3>2, <3>4, <4>1, <4>3 DEF Types
    <3>9. /\ returned' \in {returned, returned \cup {p}}
          /\ p \notin returned
      BY <3>1, <3>4 DEF Types
    <3>10. p \in returned' => \A op \in Planned[p] : status'[p][op] \in Dag!Outcome
      <4> SUFFICES ASSUME p \in returned', NEW op \in Planned[p]
                   PROVE  status'[p][op] \in Dag!Outcome
        OBVIOUS
      <4>1. state'[p][op] \in Terminal /\ op \in OpIds
        BY <3>4, PlansAssumption DEF PlanInv, PcInv
      <4> QED BY <4>1 DEF Terminal, Unsuccessful, StatusOf, Dag!Outcome
    <3>11. context' \in [Plans -> [OpIds -> SUBSET OpIds]]
      BY <3>4 DEF Types
    <3> HIDE DEF status, returned
    <3>12. \A q \in Plans \ {p} : status'[q] = status[q] /\ context'[q] = context[q]
      BY <3>2, <3>6
    <3> QED
      BY <3>5, <3>7, <3>8, <3>9, <3>10, <3>11, <3>12 DEF Dag!Advance, status, returned
  <2>3. ASSUME NEW p \in Plans, NEW op \in OpIds, ToolStep(p, op)
        PROVE  UNCHANGED <<state, context, packets, pc>>
    BY <2>3 DEF ToolStep, BeginTool, EndTool, ReleasePermit, planVars
  <2> QED
    BY <2>1, <2>2, <2>3 DEF Next, Dag!Next, Tick, Rest, vars, planVars
<1> QED BY <1>1, <1>2, Invariance, PTL DEF Spec, ImplementsDag, Dag!Spec
=============================================================================
