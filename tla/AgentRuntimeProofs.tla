-------------------------- MODULE AgentRuntimeProofs --------------------------
(***************************************************************************)
(* Theorems about AgentRuntime, for any questions, budget, tools and       *)
(* validation results: types and transitions, then what an answer rests on *)
(* (lemmas about the gate), then what a plan contains and why a planned    *)
(* request is answered (lemmas about the planner).                         *)
(***************************************************************************)
EXTENDS AgentRuntime, FiniteSetTheorems, SequenceTheorems, TLAPS

-----------------------------------------------------------------------------
(***************************************************************************)
(* Types.                                                                  *)
(***************************************************************************)

\* Normalisation keeps a draft a draft.
LEMMA NormalizeType ==
  ASSUME NEW d \in Draft
  PROVE  Normalize(d).outputs \in Seq(Outputs)
<1> DEFINE asked == IF d.outputs = <<>> THEN <<Primary[d.intent]>> ELSE d.outputs
<1> DEFINE renamed == [i \in DOMAIN asked |->
                         IF asked[i] = "course_list" THEN "course_detail" ELSE asked[i]]
<1>1. d.outputs \in Seq(Outputs) /\ d.intent \in Intents
  BY DEF Draft
<1>2. Primary[d.intent] \in Outputs
  BY <1>1 DEF Intents, Primary, Outputs
<1>3. asked \in Seq(Outputs)
  BY <1>1, <1>2
<1>4. renamed \in Seq(Outputs)
  <2> HIDE DEF asked
  <2>1. DOMAIN asked = 1 .. Len(asked) /\ Len(asked) \in Nat
    BY <1>3
  <2>2. \A i \in 1 .. Len(asked) :
          (IF asked[i] = "course_list" THEN "course_detail" ELSE asked[i]) \in Outputs
    BY <1>3, <2>1 DEF Outputs
  <2> QED BY <2>1, <2>2, IsASeq
<1> QED BY <1>3, <1>4 DEF Normalize

\* The planner's operations and contracts are well typed.
LEMMA PlanType ==
  ASSUME NEW q, q.outputs \in Seq(Outputs)
  PROVE  BuildPlan(q) \in [ops : SUBSET OpIds, contracts : Seq(Contract)]
<1>1. Operations(q) \subseteq OpIds
  <2>1. \A o \in Plannable(q) : o \in Outputs
    BY DEF Plannable, AsSet
  <2>2. \A o \in Outputs \ PlanOutputs : OperationsFor(o) \subseteq OpIds
    BY DEF Outputs, PlanOutputs, OperationsFor, OpIds, PlanningOps
  <2> QED BY <2>1, <2>2 DEF Operations, OpIds
<1>2. \A o \in Outputs : ContractFor(q, Operations(q), o) \in Contract
  BY <1>1 DEF ContractFor, Contract
<1>3. [i \in DOMAIN q.outputs |-> ContractFor(q, Operations(q), q.outputs[i])] \in Seq(Contract)
  <2>1. DOMAIN q.outputs = 1 .. Len(q.outputs) /\ Len(q.outputs) \in Nat
    OBVIOUS
  <2>2. \A i \in 1 .. Len(q.outputs) : ContractFor(q, Operations(q), q.outputs[i]) \in Contract
    BY <1>2, <2>1
  <2> QED BY <2>1, <2>2, IsASeq
<1> QED BY <1>1, <1>3 DEF BuildPlan

\* The outputs of the normalised query are outputs.
LEMMA QueryType == TypeOK => Query.outputs \in Seq(Outputs)
BY NormalizeType, RuntimeAssumption DEF TypeOK, Query

-----------------------------------------------------------------------------
(***************************************************************************)
(* The gate, for any plan and packet.                                      *)
(***************************************************************************)

\* An output the gate calls fulfilled has producers, all of them in the plan,
\* successful and with sound evidence of their own kind.
LEMMA GateSound ==
  ASSUME plan \in [ops : SUBSET OpIds, contracts : Seq(Contract)],
         NEW o \in DOMAIN Decision.contracts,
         Decision.contracts[o].status = "fulfilled"
  PROVE  \E i \in DOMAIN plan.contracts :
           /\ plan.contracts[i].output = o /\ plan.contracts[i].producers # {}
           /\ \A op \in plan.contracts[i].producers : op \in plan.ops /\ Proven(op)
<1> DEFINE matches == ContractsOf(plan, o)
<1> DEFINE i == CHOOSE i \in matches : TRUE
<1>1. Decision.contracts[o] = RuntimeContract(plan, packet, o)
  BY DEF Decision, Evaluate
<1>2. matches # {}
  BY <1>1 DEF RuntimeContract
<1>3. i \in DOMAIN plan.contracts /\ plan.contracts[i].output = o
  BY <1>2 DEF ContractsOf
<1>4. plan.contracts[i] \in Contract
  BY <1>3
<1>5. RuntimeContract(plan, packet, o) =
        [plan.contracts[i] EXCEPT !.status =
           IF Cardinality(matches) > 1 THEN "refused"
           ELSE StatusAt(plan, packet, plan.contracts[i])]
  BY <1>2 DEF RuntimeContract
<1>6. StatusAt(plan, packet, plan.contracts[i]) = "fulfilled"
  BY <1>1, <1>4, <1>5 DEF Contract
<1>7. OutputReasons(plan, packet, plan.contracts[i]) = {}
  BY <1>6 DEF StatusAt
<1>8. plan.contracts[i].producers # {}
  BY <1>7 DEF OutputReasons
<1>9. ASSUME NEW op \in plan.contracts[i].producers
      PROVE  op \in plan.ops /\ Proven(op)
  <2>1. ProducerReasons(plan, packet, op) = {}
    BY <1>7 DEF OutputReasons
  <2> QED BY <2>1 DEF ProducerReasons, Proven
<1> QED BY <1>3, <1>8, <1>9

\* A sufficient decision leaves no result or component unaccounted for.
LEMMA GateAccounts ==
  ASSUME Decision.sufficient
  PROVE  DOMAIN packet.results \cup DOMAIN packet.components \subseteq plan.ops
BY DEF Decision, Evaluate, GlobalReasons

-----------------------------------------------------------------------------
(***************************************************************************)
(* The inductive invariant: once a request is past the gate, its packet    *)
(* and plan are those the gate accepted.                                   *)
(***************************************************************************)

Past == status \in {"SYNTHESIZE", "VALIDATE", "REGENERATE"} \/ answer \in {"answered", "refused"}

Gated == Past => Decision.sufficient /\ contracts = Decision.contracts

Settled == answer # "none" => status \in {"CLARIFY", "REFUSE", "FINISH", "RAISED"}

\* A repair is made once, and counted.
Counted == status \in {"REPAIR_PLAN", "REPAIR_EXECUTE"} => repairs = 1

Inv == TypeOK /\ Gated /\ Settled /\ Counted

\* The invariant holds before a question is read.
LEMMA InvInit == Init => Inv
<1> SUFFICES ASSUME Init PROVE Inv
  OBVIOUS
<1>1. plan \in [ops : SUBSET OpIds, contracts : Seq(Contract)]
  BY DEF Init, NoPlan
<1>2. DOMAIN packet.results = {} /\ DOMAIN packet.components = {} /\ packet.duplicated = {}
      /\ packet = [results |-> packet.results, components |-> packet.components,
                   duplicated |-> packet.duplicated]
  BY DEF Init, NoPacket
<1>3. TypeOK
  <2>1. status \in Status \cup {"RAISED"} /\ draft \in Drafts
    BY DEF Init, Status
  <2>2. repairs \in 0 .. 1 /\ regens \in 0 .. MaxRetries
    BY RuntimeAssumption DEF Init
  <2>3. answer \in {"none", "clarified", "stopped", "answered", "refused"} /\ saved \in BOOLEAN
    BY DEF Init
  <2>4. DOMAIN packet.results \subseteq OpIds /\ packet.duplicated \subseteq OpIds
        /\ DOMAIN packet.components \subseteq OpIds \cup {Stray}
    BY <1>2
  <2> QED BY <1>1, <1>2, <2>1, <2>2, <2>3, <2>4 DEF TypeOK
<1> QED BY <1>3 DEF Init, Inv, Gated, Settled, Counted, Past

\* Steps that leave the request's evidence alone.
LEMMA Moves ==
  ASSUME Inv, UNCHANGED <<draft, plan, packet>>
  PROVE  Decision' = Decision
BY DEF Decision, Query

\* Every step of ask() keeps the invariant, whatever the tools report.
LEMMA InvNext == Inv /\ [Next]_vars => Inv'
<1> SUFFICES ASSUME Inv, [Next]_vars PROVE Inv'
  OBVIOUS
<1> USE RuntimeAssumption DEF Inv, Goto
<1>1. CASE Understand \/ NormalizeQuery \/ RepairPlanned \/ Synthesize \/ Accept
             \/ Regenerate \/ RefuseAnswer \/ Conclude \/ SaveSession \/ Raise
  <2>1. UNCHANGED <<draft, plan, packet, contracts>>
    BY <1>1 DEF Understand, NormalizeQuery, RepairPlanned, Synthesize, Accept,
                Regenerate, RefuseAnswer, Conclude, SaveSession, Raise
  <2>2. TypeOK'
    <3>1. status' \in Status \cup {"RAISED"}
      BY <1>1 DEF TypeOK, Status, Understand, NormalizeQuery, RepairPlanned, Synthesize,
           Accept, Regenerate, RefuseAnswer, Conclude, SaveSession, Raise
    <3>2. regens' \in 0 .. MaxRetries
      BY <1>1 DEF TypeOK, Understand, NormalizeQuery, RepairPlanned, Synthesize,
           Accept, Regenerate, RefuseAnswer, Conclude, SaveSession, Raise
    <3>3. repairs' = repairs /\ saved' \in BOOLEAN
          /\ answer' \in {"none", "clarified", "stopped", "answered", "refused"}
      BY <1>1 DEF TypeOK, Understand, NormalizeQuery, RepairPlanned, Synthesize,
           Accept, Regenerate, RefuseAnswer, Conclude, SaveSession, Raise
    <3> QED BY <2>1, <3>1, <3>2, <3>3 DEF TypeOK
  <2>3. Past' => Past
    BY <1>1 DEF Past, Settled, Understand, NormalizeQuery, RepairPlanned, Synthesize,
         Accept, Regenerate, RefuseAnswer, Conclude, SaveSession, Raise
  <2>4. Gated'
    BY <2>1, <2>3, Moves DEF Gated
  <2>5. Settled' /\ Counted'
    BY <1>1 DEF Settled, Counted, Understand, NormalizeQuery, RepairPlanned, Synthesize,
         Accept, Regenerate, RefuseAnswer, Conclude, SaveSession, Raise
  <2> QED BY <2>2, <2>4, <2>5
<1>2. CASE Plan \/ AskBack
  <2>1. plan' \in [ops : SUBSET OpIds, contracts : Seq(Contract)]
    BY <1>2, QueryType, PlanType DEF Plan, AskBack
  <2>2. TypeOK'
    BY <1>2, <2>1 DEF TypeOK, Status, Plan, AskBack
  <2>3. ~Past' /\ Settled' /\ Counted'
    BY <1>2 DEF Past, Settled, Counted, Plan, AskBack
  <2> QED BY <2>2, <2>3 DEF Gated
<1>3. CASE Record
  <2> DEFINE op == CHOOSE op \in Ready : TRUE
  <2>1. op \in OpIds
    <3>1. op \in Executing
      BY <1>3 DEF Record, Ready
    <3> QED BY <3>1 DEF Executing, TypeOK, OpIds
  <2>2. DOMAIN packet'.results \subseteq OpIds
        /\ DOMAIN packet'.components \subseteq OpIds \cup {Stray}
        /\ packet'.duplicated \subseteq OpIds
        /\ packet' = [results |-> packet'.results, components |-> packet'.components,
                      duplicated |-> packet'.duplicated]
    <3> HIDE DEF op
    <3>1. CASE packet' = [packet EXCEPT !.results = Add(@, op, "failed")]
      BY <3>1, <2>1 DEF TypeOK, Add
    <3>2. ASSUME NEW a \in Answers[OpType(op)],
                 packet' =
                   [results    |-> Add(packet.results, op, "success"),
                    components |-> Add(packet.components,
                                       IF a.own THEN op ELSE Stray, a.component),
                    duplicated |-> packet.duplicated \cup (IF a.twice THEN {op} ELSE {})]
          PROVE  <2>2!1
      BY <3>2, <2>1 DEF TypeOK, Add
    <3> QED BY <1>3, <3>1, <3>2 DEF Record, op
  <2>3. TypeOK'
    BY <1>3, <2>2 DEF TypeOK, Record
  <2>4. ~Past' /\ Settled' /\ Counted'
    BY <1>3 DEF Past, Settled, Counted, Record
  <2> QED BY <2>3, <2>4 DEF Gated
<1>4. CASE RejectPlan \/ Executed
  <2>1. TypeOK'
    BY <1>4 DEF TypeOK, Status, RejectPlan, Executed
  <2>2. ~Past' /\ Settled' /\ Counted'
    BY <1>4 DEF Past, Settled, Counted, RejectPlan, Executed
  <2> QED BY <2>1, <2>2 DEF Gated
<1>5. CASE Suffices \/ Repair \/ CoverageStop
  <2>1. Decision' = Decision
    BY <1>5, Moves DEF Suffices, Repair, CoverageStop
  <2>2. TypeOK'
    BY <1>5 DEF TypeOK, Status, Suffices, Repair, CoverageStop, CanRepair
  <2>3. Gated'
    BY <1>5, <2>1 DEF Gated, Past, Settled, Suffices, Repair, CoverageStop
  <2>4. Settled' /\ Counted'
    BY <1>5 DEF Settled, Counted, TypeOK, Suffices, Repair, CoverageStop, CanRepair
  <2> QED BY <2>2, <2>3, <2>4
<1>6. CASE RepairExecuted
  <2>1. plan' \in [ops : SUBSET OpIds, contracts : Seq(Contract)]
    <3> DEFINE c(i) == IF plan.contracts[i].output = "policy_explanation"
                       THEN [plan.contracts[i] EXCEPT !.producers = {"policy_repair"},
                                                      !.status = "fulfilled"]
                       ELSE plan.contracts[i]
    <3>1. plan.contracts \in Seq(Contract) /\ plan.ops \subseteq OpIds
      BY DEF TypeOK
    <3>2. DOMAIN plan.contracts = 1 .. Len(plan.contracts) /\ Len(plan.contracts) \in Nat
      BY <3>1
    <3>3. ASSUME NEW i \in 1 .. Len(plan.contracts) PROVE c(i) \in Contract
      <4>1. plan.contracts[i] \in Contract
        BY <3>1
      <4> QED BY <4>1 DEF Contract, OpIds
    <3>4. [i \in DOMAIN plan.contracts |-> c(i)] \in Seq(Contract)
      <4> HIDE DEF c
      <4> QED BY <3>2, <3>3, IsASeq
    <3>5. plan.ops \cup {"policy_repair"} \subseteq OpIds
      BY <3>1 DEF OpIds
    <3> QED BY <1>6, <3>4, <3>5 DEF RepairExecuted
  <2>2. TypeOK'
    BY <1>6, <2>1 DEF TypeOK, Status, RepairExecuted
  <2>3. ~Past' /\ Settled' /\ Counted'
    BY <1>6 DEF Past, Settled, Counted, RepairExecuted
  <2> QED BY <2>2, <2>3 DEF Gated
<1>7. CASE UNCHANGED vars
  BY <1>7, Moves DEF vars, TypeOK, Gated, Past, Settled, Counted
<1> QED
  BY <1>1, <1>2, <1>3, <1>4, <1>5, <1>6, <1>7 DEF Next, Step, Rest

\* The invariant holds throughout.
LEMMA Invariance == Spec => []Inv
BY InvInit, InvNext, PTL DEF Spec

\* Type correctness: at most one repair, MaxRetries second wordings.
THEOREM TypeCorrect == Spec => []TypeOK
BY Invariance, PTL DEF Inv

\* Whatever tools report and however often they fail, nothing is answered from
\* an operation that did not succeed with sound evidence of its own.
THEOREM OnlyProvenAnswers == Spec => []AnswersProven
<1>1. Inv => AnswersProven
  <2> SUFFICES ASSUME Inv, Past PROVE Decision.sufficient /\ contracts = Decision.contracts
                                      /\ plan \in [ops : SUBSET OpIds, contracts : Seq(Contract)]
    BY GateSound, GateAccounts DEF AnswersProven, Past
  <2> QED BY DEF Inv, Gated, TypeOK
<1> QED BY <1>1, Invariance, PTL

\* Whatever its dependencies answer or raise, ask() never asks for a transition
\* that AgentState.transition() rejects.
THEOREM TransitionsAlwaysAllowed == Spec => TransitionsAllowed
<1>1. ASSUME [Next]_vars, status' # status, status' # "RAISED"
      PROVE  status' \in AllowedTransitions[status]
  <2>1. CASE Understand \/ NormalizeQuery \/ Plan \/ AskBack
    BY <1>1, <2>1 DEF AllowedTransitions, Goto, Understand, NormalizeQuery, Plan, AskBack
  <2>2. CASE Record \/ RejectPlan \/ Executed
    BY <1>1, <2>2 DEF AllowedTransitions, Goto, Record, RejectPlan, Executed
  <2>3. CASE Suffices \/ Repair \/ RepairPlanned \/ RepairExecuted \/ CoverageStop
    <3>1. <<status, status'>> \in {<<"COVERAGE_CHECK", "SYNTHESIZE">>,
             <<"COVERAGE_CHECK", "REPAIR_PLAN">>, <<"REPAIR_PLAN", "REPAIR_EXECUTE">>,
             <<"REPAIR_EXECUTE", "COVERAGE_CHECK">>, <<"COVERAGE_CHECK", "REFUSE">>}
      BY <2>3 DEF Goto, Suffices, Repair, RepairPlanned, RepairExecuted, CoverageStop
    <3> QED BY <3>1 DEF AllowedTransitions
  <2>4. CASE Synthesize \/ Accept \/ Regenerate \/ RefuseAnswer \/ Conclude
    BY <1>1, <2>4 DEF AllowedTransitions, Goto, Synthesize, Accept, Regenerate, RefuseAnswer,
                      Conclude
  <2>5. CASE SaveSession \/ Raise \/ UNCHANGED vars
    BY <1>1, <2>5 DEF SaveSession, Raise, vars
  <2> QED BY <1>1, <2>1, <2>2, <2>3, <2>4, <2>5 DEF Next, Step, Rest
<1>2. [Next]_vars => [status' # status /\ status' # "RAISED"
                        => status' \in AllowedTransitions[status]]_status
  BY <1>1
<1> QED BY <1>2, PTL DEF Spec, TransitionsAllowed

-----------------------------------------------------------------------------
(***************************************************************************)
(* The plan, from BuildPlan to its repair: what the planner promises of it *)
(* survives the repair, which widens one retrieval.                        *)
(***************************************************************************)

Retrievals == {"retrieve_policy", "policy_repair"}

\* Nothing is planned that the query does not call for, the repair apart.
Called == plan.ops \ {"policy_repair"} \subseteq Operations(Query)

\* What an operation waits for is planned.
Closed == \A op \in plan.ops : DependsOn(plan.ops, op) \subseteq plan.ops

\* An operation produces an output, and a policy retrieval the explanation.
Serves ==
  /\ \A op \in plan.ops \ Retrievals : \E i \in DOMAIN plan.contracts :
       plan.contracts[i].output # "policy_explanation" /\ op \in plan.contracts[i].producers
  /\ plan.ops \cap Retrievals # {} =>
       \E i \in DOMAIN plan.contracts :
         /\ plan.contracts[i].output = "policy_explanation"
         /\ IF "policy_repair" \in plan.ops THEN "policy_repair" \in plan.contracts[i].producers
                                            ELSE "retrieve_policy" \in plan.contracts[i].producers

\* The contracts follow the requested outputs, and one that can be fulfilled has
\* a producer of every type the output needs.
Contracted ==
  \A i \in DOMAIN plan.contracts :
    /\ i \in DOMAIN Query.outputs /\ plan.contracts[i].output = Query.outputs[i]
    /\ plan.contracts[i].status = "fulfilled" =>
         \A type \in OutputOperationTypes[plan.contracts[i].output] :
           \E op \in plan.contracts[i].producers : OpType(op) = type

\* Only a retrieval is repaired.
RepairsRetrieval ==
  status \in {"REPAIR_PLAN", "REPAIR_EXECUTE"} => plan.ops \cap Retrievals # {}

\* Results are those of planned operations, or of the repair before it is planned;
\* there are none before a plan.
Reported ==
  /\ DOMAIN packet.results \subseteq
       plan.ops \cup (IF status = "REPAIR_EXECUTE" THEN {"policy_repair"} ELSE {})
  /\ status \in {"UNDERSTAND", "NORMALIZE", "PLAN"} => DOMAIN packet.results = {}

\* A user is asked back only about a question that calls for no operation.
AskedForCause == answer = "clarified" => Operations(Query) = {}

PlanInv == Called /\ Closed /\ Serves /\ Contracted /\ RepairsRetrieval /\ Reported
           /\ AskedForCause

\* No output is asked for twice, once the names are normalised.
DistinctOutputs ==
  \A d \in Drafts : LET asked == Normalize(d).outputs
                    IN  \A i, j \in DOMAIN asked : asked[i] = asked[j] => i = j

-----------------------------------------------------------------------------
(***************************************************************************)
(* The planner, for any question.                                          *)
(***************************************************************************)

\* What normalisation marks as unsupported is so for the code's reasons, and an
\* explanation of a policy never is.
LEMMA NormalizedScope ==
  ASSUME NEW d \in Draft
  PROVE  LET q == Normalize(d)
         IN  /\ q.programs \in Nat /\ q.cohort \in BOOLEAN /\ q.offerings \in BOOLEAN
             /\ "policy_explanation" \notin q.unsupported
             /\ \A o \in AsSet(q.outputs) :
                  o # "policy_explanation" /\ o \notin q.unsupported => ~q.offerings
<1>1. d.programs \in Nat /\ d.cohort \in BOOLEAN /\ d.offerings \in BOOLEAN
  BY DEF Draft
<1>2. "policy_explanation" \notin SingleProgramOutputs
  BY DEF SingleProgramOutputs
<1> QED BY <1>1, <1>2 DEF Normalize

\* An output is planned only for one known program and cohort, a comparison for
\* several programs, and never for live offerings.
LEMMA PlannableScope ==
  ASSUME NEW d \in Draft, NEW q, q = Normalize(d),
         NEW o \in Plannable(q), o # "policy_explanation"
  PROVE  q.cohort /\ ~q.offerings
         /\ (IF o = "comparison" THEN q.programs > 1 ELSE q.programs = 1)
<1>1. o \in AsSet(q.outputs) /\ o \notin q.unsupported /\ MissingFor(q, o) = {}
  BY DEF Plannable
<1>2. o \in Outputs /\ q.programs \in Nat /\ q.cohort \in BOOLEAN
  BY <1>1, NormalizeType, NormalizedScope DEF AsSet
<1>3. ~q.offerings
  BY <1>1, NormalizedScope
<1>4. q.cohort
  BY <1>1 DEF MissingFor
<1>5. q.programs # 0
  BY <1>1 DEF MissingFor
<1>6. CASE o = "comparison"
  <2>1. ~(q.programs < 2)
    BY <1>1, <1>6 DEF MissingFor
  <2> QED BY <1>2, <1>3, <1>4, <1>6, <2>1
<1>7. CASE o # "comparison"
  <2>1. o \in SingleProgramOutputs
    BY <1>2, <1>7 DEF SingleProgramOutputs
  <2>2. ~(q.programs > 1)
    BY <1>1, <2>1 DEF MissingFor
  <2> QED BY <1>2, <1>3, <1>4, <1>5, <1>7, <2>2
<1> QED BY <1>6, <1>7

\* Every planned operation is of a type that some planned output needs, and only
\* a policy retrieval is planned for an explanation of a policy.
LEMMA PlannedFor ==
  ASSUME NEW q, q.outputs \in Seq(Outputs), NEW op \in Operations(q)
  PROVE  /\ op \in OpIds \ {"policy_repair"}
         /\ \E o \in Plannable(q) :
              /\ OpType(op) \in OutputOperationTypes[o]
              /\ (op = "retrieve_policy") <=> (o = "policy_explanation")
              /\ (op = "compare_programs") <=> (o = "comparison")
<1>1. Plannable(q) \subseteq Outputs
  BY DEF Plannable, AsSet
<1>2. CASE op \in PlanningOps /\ Plannable(q) \cap PlanOutputs # {}
  <2>1. PICK o \in Plannable(q) : o \in PlanOutputs
    BY <1>2
  <2>2. OutputOperationTypes[o] = PlanningTypes
    BY <2>1 DEF PlanOutputs, OutputOperationTypes
  <2>3. OpType(op) \in PlanningTypes
    BY <1>2 DEF PlanningTypes
  <2>4. o # "policy_explanation" /\ o # "comparison"
    BY <2>1 DEF PlanOutputs
  <2>5. op # "retrieve_policy" /\ op # "compare_programs" /\ op # "policy_repair"
        /\ op \in OpIds
    BY <1>2 DEF PlanningOps, OpIds
  <2> QED BY <2>1, <2>2, <2>3, <2>4, <2>5
<1>3. ASSUME NEW o \in Plannable(q) \ PlanOutputs, op \in OperationsFor(o)
      PROVE  /\ op \in OpIds \ {"policy_repair"}
             /\ OpType(op) \in OutputOperationTypes[o]
             /\ (op = "retrieve_policy") <=> (o = "policy_explanation")
             /\ (op = "compare_programs") <=> (o = "comparison")
  <2>1. o \in Outputs \ PlanOutputs
    BY <1>1, <1>3
  <2> QED BY <1>3, <2>1
       DEF Outputs, PlanOutputs, OperationsFor, OutputOperationTypes, OpType, OpIds, PlanningOps
<1>4. CASE ~(op \in PlanningOps /\ Plannable(q) \cap PlanOutputs # {})
  <2>1. \E o \in Plannable(q) \ PlanOutputs : op \in OperationsFor(o)
    BY <1>4 DEF Operations
  <2> QED BY <2>1, <1>3
<1> QED BY <1>2, <1>4

\* A plan has whatever its operations wait for.
LEMMA PlanIsClosed ==
  ASSUME NEW q, q.outputs \in Seq(Outputs), NEW op \in Operations(q)
  PROVE  DependsOn(Operations(q), op) \subseteq Operations(q)
<1>1. Plannable(q) \subseteq Outputs
  BY DEF Plannable, AsSet
<1>2. CASE Plannable(q) \cap PlanOutputs # {}
  <2>1. PlanningOps \subseteq Operations(q)
    <3>1. q.intent # "general"
      BY DEF Operations
    <3> QED BY <1>2, <3>1 DEF Operations
  <2>2. DependsOn(Operations(q), op) \subseteq PlanningOps
    BY DEF DependsOn, PlanningOps
  <2> QED BY <2>1, <2>2
<1>3. CASE Plannable(q) \cap PlanOutputs = {}
  <2>1. PICK o \in Plannable(q) \ PlanOutputs : op \in OperationsFor(o)
    BY <1>3 DEF Operations
  <2>2. OperationsFor(o) \subseteq Operations(q)
    BY <1>3, <2>1 DEF Operations
  <2>3. o \in Outputs \ PlanOutputs
    BY <1>1, <2>1
  <2>4. DependsOn(Operations(q), op) \subseteq OperationsFor(o) \cup (Operations(q) \cap {"list_curriculum_courses"})
    BY <2>1, <2>3 DEF Outputs, PlanOutputs, OperationsFor, DependsOn
  <2> QED BY <2>2, <2>4
<1> QED BY <1>2, <1>3

\* The operations planned for an output are the producers of its contract.
LEMMA ProducersOf ==
  ASSUME NEW q, NEW o \in Plannable(q), NEW ops
  PROVE  ContractFor(q, ops, o).producers
           = {op \in ops : OpType(op) \in OutputOperationTypes[o]}
BY DEF Plannable, ContractFor

\* A contract that can be fulfilled has a producer of every type it needs.
LEMMA ContractComplete ==
  ASSUME NEW q, NEW ops, NEW o, ContractFor(q, ops, o).status = "fulfilled",
         NEW type \in OutputOperationTypes[o]
  PROVE  \E op \in ContractFor(q, ops, o).producers : OpType(op) = type
<1>1. o \notin q.unsupported /\ MissingFor(q, o) = {}
      /\ OutputOperationTypes[o] \subseteq {OpType(op) : op \in ops}
  BY DEF ContractFor
<1>2. ContractFor(q, ops, o).producers = {op \in ops : OpType(op) \in OutputOperationTypes[o]}
  BY <1>1 DEF ContractFor
<1> QED BY <1>1, <1>2

\* A plan, as it is built.
LEMMA PlanBuilt ==
  ASSUME TypeOK, plan = BuildPlan(Query)
  PROVE  Called /\ Closed /\ Serves /\ Contracted
<1> DEFINE q == Query
<1>1. q.outputs \in Seq(Outputs)
  BY QueryType
<1>2. plan.ops = Operations(q) /\ DOMAIN plan.contracts = DOMAIN q.outputs
      /\ \A i \in DOMAIN q.outputs :
           plan.contracts[i] = ContractFor(q, Operations(q), q.outputs[i])
  BY DEF BuildPlan
<1> HIDE DEF q
<1>3. Called
  BY <1>2 DEF Called, q
<1>4. Closed
  BY <1>1, <1>2, PlanIsClosed DEF Closed
<1>5. ASSUME NEW op \in plan.ops
      PROVE  /\ op # "policy_repair"
             /\ \E i \in DOMAIN plan.contracts :
                  /\ op \in plan.contracts[i].producers
                  /\ (op = "retrieve_policy") <=> (plan.contracts[i].output = "policy_explanation")
  <2>1. op \in OpIds \ {"policy_repair"}
    BY <1>1, <1>2, PlannedFor
  <2>2. PICK o \in Plannable(q) : /\ OpType(op) \in OutputOperationTypes[o]
                                  /\ (op = "retrieve_policy") <=> (o = "policy_explanation")
    BY <1>1, <1>2, PlannedFor
  <2>3. PICK i \in DOMAIN q.outputs : o = q.outputs[i]
    BY <2>2 DEF Plannable, AsSet
  <2>4. plan.contracts[i].output = o
    <3>1. ContractFor(q, Operations(q), o).output = o
      BY DEF ContractFor
    <3> QED BY <1>2, <2>3, <3>1
  <2>5. op \in plan.contracts[i].producers
    BY <1>2, <2>2, <2>3, ProducersOf
  <2> QED BY <1>2, <2>1, <2>2, <2>3, <2>4, <2>5
<1>6. Serves
  BY <1>5 DEF Serves, Retrievals
<1>7. Contracted
  <2> SUFFICES ASSUME NEW i \in DOMAIN q.outputs
               PROVE  /\ plan.contracts[i].output = q.outputs[i]
                      /\ plan.contracts[i].status = "fulfilled" =>
                           \A type \in OutputOperationTypes[plan.contracts[i].output] :
                             \E op \in plan.contracts[i].producers : OpType(op) = type
    BY <1>2 DEF Contracted, q
  <2>1. plan.contracts[i] = ContractFor(q, Operations(q), q.outputs[i])
    BY <1>2
  <2>2. plan.contracts[i].output = q.outputs[i]
    BY <2>1 DEF ContractFor
  <2> QED BY <2>1, <2>2, ContractComplete
<1> QED BY <1>3, <1>4, <1>6, <1>7

-----------------------------------------------------------------------------
(***************************************************************************)
(* The steps.                                                              *)
(***************************************************************************)

\* Before a question is read there is no plan.
LEMMA PlanInit == Init => PlanInv
BY DEF Init, NoPlan, NoPacket, PlanInv, Called, Closed, Serves, Contracted, RepairsRetrieval,
       Reported, AskedForCause

\* Steps that leave the plan alone leave what it promises alone.
LEMMA PlanKept ==
  ASSUME PlanInv, UNCHANGED <<draft, plan>>
  PROVE  Called' /\ Closed' /\ Serves' /\ Contracted'
BY DEF PlanInv, Called, Closed, Serves, Contracted, Query

\* Planning, whether it finds operations or none.
LEMMA PlanningStep ==
  ASSUME Inv, PlanInv, Inv', Plan \/ AskBack
  PROVE  PlanInv'
<1>1. plan' = BuildPlan(Query) /\ Query' = Query /\ packet' = packet
  BY DEF Plan, AskBack, Query
<1>2. Called' /\ Closed' /\ Serves' /\ Contracted'
  <2>1. TypeOK' /\ (plan = BuildPlan(Query))'
    BY <1>1 DEF Inv
  <2> QED BY <2>1, PlanBuilt, PTL
<1>3. RepairsRetrieval' /\ AskedForCause'
  BY <1>1 DEF PlanInv, AskedForCause, RepairsRetrieval, Plan, AskBack, Goto, Inv, Settled,
              BuildPlan
<1>4. Reported'
  BY <1>1 DEF PlanInv, Reported, Plan, AskBack, Goto
<1> QED BY <1>2, <1>3, <1>4 DEF PlanInv

\* The steps that change neither the plan nor the results.
LEMMA OtherSteps ==
  ASSUME Inv, PlanInv,
         \/ Understand \/ NormalizeQuery \/ Executed \/ Suffices \/ Repair \/ RepairPlanned
         \/ CoverageStop \/ Synthesize \/ Accept \/ Regenerate \/ RefuseAnswer \/ Conclude
         \/ SaveSession \/ Raise \/ UNCHANGED vars
  PROVE  PlanInv'
<1>1. UNCHANGED <<draft, plan, packet>>
  BY DEF Understand, NormalizeQuery, Executed, Suffices, Repair, RepairPlanned, CoverageStop,
         Synthesize, Accept, Regenerate, RefuseAnswer, Conclude, SaveSession, Raise, vars
<1>2. Called' /\ Closed' /\ Serves' /\ Contracted'
  BY <1>1, PlanKept
<1>3. answer' = answer \/ answer' \in {"answered", "refused", "stopped"}
  BY DEF Understand, NormalizeQuery, Executed, Suffices, Repair, RepairPlanned, CoverageStop,
         Synthesize, Accept, Regenerate, RefuseAnswer, Conclude, SaveSession, Raise, vars
<1>4. AskedForCause'
  BY <1>1, <1>3 DEF PlanInv, AskedForCause, Query
<1>5. RepairsRetrieval'
  <2>1. CASE Repair
    <3>1. PICK op \in plan.ops : OpType(op) = "retrieve_policy"
      BY <2>1 DEF Repair, CanRepair
    <3>2. op \in OpIds
      BY DEF Inv, TypeOK
    <3>3. op \in Retrievals
      BY <3>1, <3>2 DEF OpType, OpIds, PlanningOps, Retrievals
    <3> QED BY <3>3, <1>1 DEF RepairsRetrieval
  <2>2. CASE ~Repair
    <3>1. status' \in {"REPAIR_PLAN", "REPAIR_EXECUTE"} =>
            status \in {"REPAIR_PLAN", "REPAIR_EXECUTE"}
      BY <2>2 DEF Goto, Understand, NormalizeQuery, Executed, Suffices, RepairPlanned,
             CoverageStop, Synthesize, Accept, Regenerate, RefuseAnswer, Conclude, SaveSession,
             Raise, vars
    <3> QED BY <3>1, <1>1 DEF PlanInv, RepairsRetrieval
  <2> QED BY <2>1, <2>2
<1>6. Reported'
  <2>1. (status = "REPAIR_EXECUTE" => status' = "REPAIR_EXECUTE")
        /\ (status' \in {"UNDERSTAND", "NORMALIZE", "PLAN"} =>
              status \in {"UNDERSTAND", "NORMALIZE", "PLAN"})
    BY DEF Goto, Understand, NormalizeQuery, Executed, Suffices, Repair, RepairPlanned,
           CoverageStop, Synthesize, Accept, Regenerate, RefuseAnswer, Conclude, SaveSession,
           Raise, vars
  <2>2. DOMAIN packet'.results = DOMAIN packet.results /\ plan' = plan
    BY <1>1
  <2> QED BY <2>1, <2>2 DEF PlanInv, Reported
<1> QED BY <1>2, <1>4, <1>5, <1>6 DEF PlanInv

\* Results that the executor records or makes up.
LEMMA ResultSteps ==
  ASSUME Inv, PlanInv, Record \/ RejectPlan
  PROVE  PlanInv'
<1>1. UNCHANGED <<draft, plan, answer>>
  BY DEF Record, RejectPlan
<1>2. Called' /\ Closed' /\ Serves' /\ Contracted'
  BY <1>1, PlanKept
<1>3. AskedForCause' /\ RepairsRetrieval'
  BY <1>1 DEF PlanInv, AskedForCause, RepairsRetrieval, Query, Record, RejectPlan, Goto
<1>4. CASE Record
  <2> DEFINE op == CHOOSE op \in Ready : TRUE
  <2>1. op \in Executing /\ status \in {"EXECUTE", "REPAIR_EXECUTE"} /\ status' = status
    BY <1>4 DEF Record, Ready
  <2>2. DOMAIN packet'.results = DOMAIN packet.results \cup {op}
    <3> HIDE DEF op
    <3>1. CASE packet' = [packet EXCEPT !.results = Add(@, op, "failed")]
      BY <3>1 DEF Inv, TypeOK, Add
    <3>2. ASSUME NEW a \in Answers[OpType(op)],
                 packet' =
                   [results    |-> Add(packet.results, op, "success"),
                    components |-> Add(packet.components,
                                       IF a.own THEN op ELSE Stray, a.component),
                    duplicated |-> packet.duplicated \cup (IF a.twice THEN {op} ELSE {})]
          PROVE  DOMAIN packet'.results = DOMAIN packet.results \cup {op}
      BY <3>2 DEF Add
    <3> QED BY <1>4, <3>1, <3>2 DEF Record, op
  <2> HIDE DEF op
  <2>3. op \in plan.ops \cup (IF status = "REPAIR_EXECUTE" THEN {"policy_repair"} ELSE {})
    BY <2>1 DEF Executing
  <2>4. Reported'
    BY <1>1, <2>1, <2>2, <2>3 DEF PlanInv, Reported
  <2> QED BY <1>2, <1>3, <2>4 DEF PlanInv
<1>5. CASE RejectPlan
  <2>1. DOMAIN packet'.results = plan.ops /\ status' = "COVERAGE_CHECK"
    BY <1>5 DEF RejectPlan, Goto, Inv, TypeOK
  <2>2. Reported'
    BY <1>1, <2>1 DEF Reported
  <2> QED BY <1>2, <1>3, <2>2 DEF PlanInv
<1> QED BY <1>4, <1>5

\* The repaired retrieval joins the plan as the producer of the explanation.
LEMMA RepairStep ==
  ASSUME Inv, PlanInv, RepairExecuted
  PROVE  PlanInv'
<1> DEFINE repaired(i) == plan.contracts[i].output = "policy_explanation"
<1>1. /\ plan'.ops = plan.ops \cup {"policy_repair"}
      /\ DOMAIN plan'.contracts = DOMAIN plan.contracts
      /\ UNCHANGED <<draft, packet, answer>>
      /\ status = "REPAIR_EXECUTE" /\ status' = "COVERAGE_CHECK"
  BY DEF RepairExecuted, Goto
<1>2. ASSUME NEW i \in DOMAIN plan.contracts
      PROVE  /\ plan'.contracts[i].output = plan.contracts[i].output
             /\ repaired(i) => plan'.contracts[i].producers = {"policy_repair"}
             /\ ~repaired(i) => plan'.contracts[i] = plan.contracts[i]
  <2>1. plan.contracts[i] \in Contract
    BY DEF Inv, TypeOK
  <2>2. plan'.contracts[i] =
          IF plan.contracts[i].output = "policy_explanation"
          THEN [plan.contracts[i] EXCEPT !.producers = {"policy_repair"}, !.status = "fulfilled"]
          ELSE plan.contracts[i]
    BY DEF RepairExecuted
  <2> QED BY <2>1, <2>2 DEF Contract
<1>3. Called'
  BY <1>1 DEF PlanInv, Called, Query
<1>4. Closed'
  <2>1. ASSUME NEW op \in plan.ops \cup {"policy_repair"}
        PROVE  DependsOn(plan.ops \cup {"policy_repair"}, op) = DependsOn(plan.ops, op)
    BY DEF DependsOn
  <2>2. DependsOn(plan.ops, "policy_repair") = {}
    BY DEF DependsOn
  <2> QED BY <1>1, <2>1, <2>2 DEF PlanInv, Closed
<1>5. Serves'
  <2>1. ASSUME NEW op \in plan'.ops \ Retrievals
        PROVE  \E i \in DOMAIN plan'.contracts :
                 /\ plan'.contracts[i].output # "policy_explanation"
                 /\ op \in plan'.contracts[i].producers
    <3>1. op \in plan.ops \ Retrievals
      BY <1>1, <2>1 DEF Retrievals
    <3> QED BY <1>1, <1>2, <3>1 DEF PlanInv, Serves
  <2>2. PICK i \in DOMAIN plan.contracts : repaired(i)
    BY <1>1 DEF PlanInv, RepairsRetrieval, Serves
  <2>3. "policy_repair" \in plan'.ops /\ plan'.contracts[i].producers = {"policy_repair"}
        /\ plan'.contracts[i].output = "policy_explanation" /\ i \in DOMAIN plan'.contracts
    BY <1>1, <1>2, <2>2
  <2> QED BY <2>1, <2>3 DEF Serves
<1>6. Contracted'
  <2> SUFFICES ASSUME NEW i \in DOMAIN plan'.contracts
               PROVE  /\ i \in DOMAIN Query'.outputs
                      /\ plan'.contracts[i].output = Query'.outputs[i]
                      /\ plan'.contracts[i].status = "fulfilled" =>
                           \A type \in OutputOperationTypes[plan'.contracts[i].output] :
                             \E op \in plan'.contracts[i].producers : OpType(op) = type
    BY DEF Contracted
  <2>1. i \in DOMAIN plan.contracts /\ Query' = Query
    BY <1>1 DEF Query
  <2>2. CASE repaired(i)
    <3>1. OutputOperationTypes["policy_explanation"] = {"retrieve_policy"}
          /\ OpType("policy_repair") = "retrieve_policy"
      BY DEF OutputOperationTypes, OpType
    <3> QED BY <1>2, <2>1, <2>2, <3>1 DEF PlanInv, Contracted
  <2>3. CASE ~repaired(i)
    BY <1>2, <2>1, <2>3 DEF PlanInv, Contracted
  <2> QED BY <2>2, <2>3
<1>7. RepairsRetrieval' /\ AskedForCause' /\ Reported'
  BY <1>1 DEF PlanInv, RepairsRetrieval, AskedForCause, Reported, Query
<1> QED BY <1>3, <1>4, <1>5, <1>6, <1>7 DEF PlanInv

\* Every step keeps what the plan promises.
LEMMA PlanNext == Inv /\ PlanInv /\ [Next]_vars /\ Inv' => PlanInv'
BY PlanningStep, OtherSteps, ResultSteps, RepairStep DEF Next, Step, Rest

\* Both invariants hold throughout.
LEMMA PlanInvariance == Spec => [](Inv /\ PlanInv)
<1>1. Inv /\ PlanInv /\ [Next]_vars => (Inv /\ PlanInv)'
  BY InvNext, PlanNext
<1> QED BY <1>1, InvInit, PlanInit, PTL DEF Spec

-----------------------------------------------------------------------------
\* However a question is understood, a structured operation is planned only for
\* one known program and cohort, and none for live offerings; a repair does not
\* change that.
THEOREM PlannedAlwaysInScope == Spec => []PlannedInScope
<1>1. Inv /\ PlanInv => PlannedInScope
  <2> SUFFICES ASSUME Inv, PlanInv, NEW op \in plan.ops \ {"retrieve_policy", "policy_repair"}
               PROVE  /\ Query.cohort /\ ~Query.offerings
                      /\ IF op = "compare_programs" THEN Query.programs > 1
                                                    ELSE Query.programs = 1
    BY DEF PlannedInScope
  <2>1. op \in Operations(Query)
    BY DEF PlanInv, Called
  <2>2. PICK o \in Plannable(Query) :
          /\ o # "policy_explanation"
          /\ (op = "compare_programs") <=> (o = "comparison")
    BY <2>1, PlannedFor, QueryType DEF Inv
  <2>3. draft \in Draft
    BY RuntimeAssumption DEF Inv, TypeOK
  <2> QED BY <2>2, <2>3, PlannableScope DEF Query
<1> QED BY <1>1, PlanInvariance, PTL

\* However a question is understood, and after a repair too, no operation is run
\* that serves no output, and none waits for one that was not planned.
THEOREM CallsAlwaysUsed == Spec => []CallsAreUsed
<1>1. Inv /\ PlanInv => CallsAreUsed
  <2> DEFINE used == UNION {plan.contracts[i].producers : i \in DOMAIN plan.contracts}
  <2> SUFFICES ASSUME Inv, PlanInv, NEW op \in plan.ops
               PROVE  /\ DependsOn(plan.ops, op) \subseteq plan.ops
                      /\ op \in used \/ (op = "retrieve_policy" /\ "policy_repair" \in used)
    BY DEF CallsAreUsed
  <2>1. DependsOn(plan.ops, op) \subseteq plan.ops
    BY DEF PlanInv, Closed
  <2>2. CASE op \notin Retrievals
    <3>1. PICK i \in DOMAIN plan.contracts : op \in plan.contracts[i].producers
      BY <2>2 DEF PlanInv, Serves
    <3> QED BY <2>1, <3>1
  <2>3. CASE op \in Retrievals
    <3>1. PICK i \in DOMAIN plan.contracts :
            IF "policy_repair" \in plan.ops THEN "policy_repair" \in plan.contracts[i].producers
                                            ELSE "retrieve_policy" \in plan.contracts[i].producers
      BY <2>3 DEF PlanInv, Serves
    <3> QED BY <2>1, <2>3, <3>1 DEF Retrievals
  <2> QED BY <2>1, <2>2, <2>3
<1> QED BY <1>1, PlanInvariance, PTL

\* Whatever else a question asks for or lacks, it is not asked back about when it
\* also asks for a policy, unless it was understood as general.
THEOREM PolicyAlwaysIndependent == Spec => []PolicyIndependent
<1>1. Inv /\ PlanInv => PolicyIndependent
  <2> SUFFICES ASSUME Inv, PlanInv, answer = "clarified",
                      "policy_explanation" \in AsSet(Query.outputs), Query.intent # "general"
               PROVE  FALSE
    BY DEF PolicyIndependent
  <2>1. Operations(Query) = {}
    BY DEF PlanInv, AskedForCause
  <2>2. "policy_explanation" \notin Query.unsupported
    <3>1. draft \in Draft
      BY RuntimeAssumption DEF Inv, TypeOK
    <3> QED BY <3>1, NormalizedScope DEF Query
  <2>3. MissingFor(Query, "policy_explanation") = {}
    BY DEF MissingFor
  <2>4. "policy_explanation" \in Plannable(Query) \ PlanOutputs
    BY <2>2, <2>3 DEF Plannable, PlanOutputs
  <2>5. "retrieve_policy" \in Operations(Query)
    BY <2>4 DEF Operations, OperationsFor
  <2> QED BY <2>1, <2>5
<1> QED BY <1>1, PlanInvariance, PTL

-----------------------------------------------------------------------------
(***************************************************************************)
(* Planner and gate agree: what was planned and delivered is answered.     *)
(***************************************************************************)

\* For every capability an output must show, an operation of a type it needs
\* reports a component of that kind.
LEMMA TypesShowCapabilities ==
  ASSUME NEW o \in Outputs, NEW cap \in OutputCapabilities[o]
  PROVE  \E type \in OutputOperationTypes[o] : OperationKind(type) = CapabilityKind[cap]
<1>1. CASE o \in PlanOutputs
  <2>1. OutputOperationTypes[o] = PlanningTypes
        /\ OutputCapabilities[o] = {"requirements", "progress_audit", "course_set"}
    BY <1>1 DEF PlanOutputs, OutputOperationTypes, OutputCapabilities
  <2>2. {"get_graduation_requirements", "audit_completed_courses", "list_courses"}
          \subseteq PlanningTypes
    <3>1. OpType("list_curriculum_courses") = "list_courses"
          /\ OpType("get_graduation_requirements") = "get_graduation_requirements"
          /\ OpType("audit_completed_courses") = "audit_completed_courses"
      BY DEF OpType
    <3>2. {"list_curriculum_courses", "get_graduation_requirements", "audit_completed_courses"}
            \subseteq PlanningOps
      BY DEF PlanningOps
    <3> QED BY <3>1, <3>2 DEF PlanningTypes
  <2>3. OperationKind("get_graduation_requirements") = "requirement"
        /\ OperationKind("audit_completed_courses") = "audit"
        /\ OperationKind("list_courses") = "course_set"
    BY DEF OperationKind
  <2>4. CapabilityKind["requirements"] = "requirement"
        /\ CapabilityKind["progress_audit"] = "audit"
        /\ CapabilityKind["course_set"] = "course_set"
    BY DEF CapabilityKind
  <2> QED BY <2>1, <2>2, <2>3, <2>4
<1>2. CASE o \notin PlanOutputs
  BY <1>2 DEF Outputs, PlanOutputs, OutputOperationTypes, OutputCapabilities, OperationKind,
              CapabilityKind
<1> QED BY <1>1, <1>2

\* Every output needs some operation.
LEMMA TypesNeeded ==
  ASSUME NEW o \in Outputs
  PROVE  OutputOperationTypes[o] # {}
<1>1. CASE o \in PlanOutputs
  <2>1. OpType("list_courses_before_semester") \in PlanningTypes
    BY DEF PlanningTypes, PlanningOps
  <2>2. OutputOperationTypes[o] = PlanningTypes
    BY <1>1 DEF PlanOutputs, OutputOperationTypes
  <2> QED BY <2>1, <2>2
<1>2. CASE o \notin PlanOutputs
  BY <1>2 DEF Outputs, PlanOutputs, OutputOperationTypes
<1> QED BY <1>1, <1>2

\* When no output is asked for twice, an output has one contract.
LEMMA OneContract ==
  ASSUME DistinctOutputs, TypeOK, Contracted, NEW i \in DOMAIN plan.contracts
  PROVE  ContractsOf(plan, plan.contracts[i].output) = {i}
<1>1. \A j, k \in DOMAIN Query.outputs : Query.outputs[j] = Query.outputs[k] => j = k
  BY DEF DistinctOutputs, TypeOK, Query
<1> QED BY <1>1 DEF Contracted, ContractsOf

\* The gate finds nothing wrong with an output all of whose producers are proven.
LEMMA ProvenIsReasonless ==
  ASSUME TypeOK, Contracted, NEW i \in DOMAIN plan.contracts,
         plan.contracts[i].status = "fulfilled",
         \A op \in plan.contracts[i].producers : op \in plan.ops /\ Proven(op)
  PROVE  OutputReasons(plan, packet, plan.contracts[i]) = {}
<1> DEFINE c == plan.contracts[i]
<1>1. c \in Contract
  BY DEF TypeOK
<1>2. c.output \in Outputs
  BY <1>1 DEF Contract
<1>3. \A type \in OutputOperationTypes[c.output] : \E op \in c.producers : OpType(op) = type
  BY DEF Contracted
<1>4. c.producers # {}
  BY <1>2, <1>3, TypesNeeded
<1>5. ASSUME NEW op \in c.producers PROVE ProducerReasons(plan, packet, op) = {}
  <2>1. op \in plan.ops /\ Proven(op)
    OBVIOUS
  <2> QED BY <2>1 DEF Proven, ProducerReasons
<1>6. ASSUME NEW cap \in OutputCapabilities[c.output]
      PROVE  \E k \in Considered(plan, packet, c) :
               k.kind = CapabilityKind[cap] /\ ComponentReasons(k) = {}
  <2>1. PICK type \in OutputOperationTypes[c.output] : OperationKind(type) = CapabilityKind[cap]
    BY <1>2, TypesShowCapabilities
  <2>2. PICK op \in c.producers : OpType(op) = type
    BY <1>3
  <2>3. op \in plan.ops /\ Proven(op)
    OBVIOUS
  <2>4. packet.components[op] \in Considered(plan, packet, c)
    BY <2>3 DEF Considered, Proven
  <2> QED BY <2>1, <2>2, <2>3, <2>4 DEF Proven
<1> HIDE DEF c
<1>7. CapabilityReasons(plan, packet, c) = {}
  BY <1>6 DEF CapabilityReasons
<1>8. OutputReasons(plan, packet, c) = {}
  BY <1>4, <1>5, <1>7 DEF OutputReasons
<1> QED BY <1>8 DEF c

\* A request whose results are all accounted for, with one such output, suffices.
LEMMA ProvenSuffices ==
  ASSUME DistinctOutputs, TypeOK, Contracted, DOMAIN packet.results \subseteq plan.ops,
         DOMAIN packet.components \subseteq plan.ops, packet.duplicated = {},
         NEW i \in DOMAIN plan.contracts, plan.contracts[i].status = "fulfilled",
         \A op \in plan.contracts[i].producers : Proven(op)
  PROVE  Decision.sufficient
<1> DEFINE o == plan.contracts[i].output
<1>1. \A op \in plan.contracts[i].producers : op \in plan.ops
  BY DEF Proven
<1>2. OutputReasons(plan, packet, plan.contracts[i]) = {}
  BY <1>1, ProvenIsReasonless
<1>3. StatusAt(plan, packet, plan.contracts[i]) = "fulfilled"
  BY <1>2 DEF StatusAt
<1>4. ContractsOf(plan, o) = {i} /\ Cardinality({i}) = 1
  BY OneContract, FS_Singleton
<1>5. RuntimeContract(plan, packet, o) =
        [plan.contracts[i] EXCEPT !.status =
           IF Cardinality(ContractsOf(plan, o)) > 1 THEN "refused"
           ELSE StatusAt(plan, packet, plan.contracts[i])]
  BY <1>4 DEF RuntimeContract
<1>6. plan.contracts[i] \in Contract
  BY DEF TypeOK
<1>7. RuntimeContract(plan, packet, o).status = "fulfilled"
  BY <1>3, <1>4, <1>5, <1>6 DEF Contract
<1>8. o \in AsSet(Query.outputs)
  BY DEF Contracted, AsSet
<1>9. \A j \in DOMAIN plan.contracts : plan.contracts[j].output \in AsSet(Query.outputs)
  BY DEF Contracted, AsSet
<1>10. ASSUME NEW p \in AsSet(Query.outputs)
       PROVE  ~(Cardinality(ContractsOf(plan, p)) > 1)
  <2>1. CASE ContractsOf(plan, p) = {}
    BY <2>1, FS_EmptySet
  <2>2. CASE ContractsOf(plan, p) # {}
    <3>1. PICK j \in DOMAIN plan.contracts : plan.contracts[j].output = p
      BY <2>2 DEF ContractsOf
    <3>2. ContractsOf(plan, p) = {j} /\ Cardinality({j}) = 1
      BY <3>1, OneContract, FS_Singleton
    <3> QED BY <3>2
  <2> QED BY <2>1, <2>2
<1>11. GlobalReasons(Query, plan, packet) = {}
  BY <1>9, <1>10 DEF GlobalReasons
<1> QED BY <1>7, <1>8, <1>11 DEF Decision, Evaluate

\* Where no question asks for an output twice, a request that was refused for its
\* coverage lacked a result, or the plan was over the budget.
THEOREM PlannedAlwaysAnswered == DistinctOutputs /\ Spec => []PlannedIsAnswered
<1> DEFINE I == Inv /\ PlanInv /\ PlannedIsAnswered /\ DistinctOutputs
<1>1. Init /\ DistinctOutputs => I
  BY InvInit, PlanInit DEF Init, PlannedIsAnswered
<1>2. ASSUME I, [Next]_vars PROVE PlannedIsAnswered'
  <2>1. CASE CoverageStop
    <3>1. ~Decision.sufficient /\ UNCHANGED <<draft, plan, packet>>
          /\ status = "COVERAGE_CHECK"
      BY <2>1 DEF CoverageStop, Goto
    <3>2. DOMAIN packet.results \subseteq plan.ops
      BY <1>2, <3>1 DEF PlanInv, Reported
    <3>3. PlannedIsAnswered!2
      BY <1>2, <3>1, <3>2, ProvenSuffices DEF Inv, PlanInv
    <3> QED BY <3>1, <3>3 DEF PlannedIsAnswered, PlanFitsBudget, Proven
  <2>2. CASE ~CoverageStop
    <3> SUFFICES ASSUME answer' = "stopped" PROVE PlannedIsAnswered'
      BY DEF PlannedIsAnswered
    <3>1. answer = "stopped"
      BY <1>2, <2>2 DEF Next, Step, Rest, vars, Understand, NormalizeQuery, Plan, AskBack, Record,
         RejectPlan, Executed, Suffices, Repair, RepairPlanned, RepairExecuted, Synthesize,
         Accept, Regenerate, RefuseAnswer, Conclude, SaveSession, Raise
    <3>2. status \in {"CLARIFY", "REFUSE", "FINISH", "RAISED"}
      BY <1>2, <3>1 DEF Inv, Settled
    <3>3. UNCHANGED <<plan, packet>>
      BY <1>2, <2>2, <3>2 DEF Next, Step, Rest, vars, Goto, Understand, NormalizeQuery, Plan,
         AskBack, Record, RejectPlan, Executed, Suffices, Repair, RepairPlanned, RepairExecuted,
         Synthesize, Accept, Regenerate, RefuseAnswer, Conclude, SaveSession, Raise
    <3> QED BY <1>2, <3>1, <3>3 DEF PlannedIsAnswered, PlanFitsBudget, Proven
  <2> QED BY <2>1, <2>2
<1>3. I /\ [Next]_vars => I'
  BY <1>2, InvNext, PlanNext DEF DistinctOutputs
<1>4. I => PlannedIsAnswered
  OBVIOUS
<1> HIDE DEF I
<1> QED BY <1>1, <1>3, <1>4, PTL DEF Spec

\* The words of a question hint at three outputs at most, all different.
LEMMA HintsAreDistinct ==
  ASSUME NEW courses \in {<<>>, <<"course_detail">>, <<"course_list">>},
         NEW modules \in {<<>>, <<"module_requirements">>},
         NEW policy \in {<<>>, <<"policy_explanation">>},
         NEW hinted, hinted = courses \o modules \o policy
  PROVE  /\ hinted \in Seq(Outputs)
         /\ \A i, j \in DOMAIN hinted : hinted[i] = hinted[j] => i = j
         /\ \A i \in DOMAIN hinted :
              hinted[i] \in {"course_detail", "course_list"} => courses = <<hinted[i]>>
<1>1. courses \in Seq(Outputs) /\ modules \in Seq(Outputs) /\ policy \in Seq(Outputs)
  <2>1. \A o \in Outputs : <<o>> \in Seq(Outputs)
    OBVIOUS
  <2>2. {"course_detail", "course_list", "module_requirements", "policy_explanation"}
          \subseteq Outputs /\ <<>> \in Seq(Outputs)
    BY DEF Outputs
  <2> QED BY <2>1, <2>2
<1>2. DOMAIN hinted = 1 .. Len(courses) + Len(modules) + Len(policy)
  BY <1>1
<1>3. \A i \in DOMAIN hinted :
        hinted[i] = IF i <= Len(courses) THEN courses[i]
                    ELSE IF i <= Len(courses) + Len(modules) THEN modules[i - Len(courses)]
                    ELSE policy[i - Len(courses) - Len(modules)]
  BY <1>1, <1>2
<1>4. Len(courses) \in 0 .. 1 /\ Len(modules) \in 0 .. 1 /\ Len(policy) \in 0 .. 1
  OBVIOUS
<1>5. /\ \A i \in 1 .. Len(courses) : courses = <<courses[i]>>
                                      /\ courses[i] \in {"course_detail", "course_list"}
      /\ \A i \in 1 .. Len(modules) : modules[i] = "module_requirements"
      /\ \A i \in 1 .. Len(policy) : policy[i] = "policy_explanation"
  OBVIOUS
<1>6. hinted \in Seq(Outputs)
  BY <1>1
<1>7. \A i \in DOMAIN hinted :
        \/ i = 1 /\ Len(courses) = 1 /\ hinted[i] \in {"course_detail", "course_list"}
             /\ courses = <<hinted[i]>>
        \/ i = Len(courses) + 1 /\ hinted[i] = "module_requirements"
        \/ i = Len(courses) + Len(modules) + 1 /\ hinted[i] = "policy_explanation"
  BY <1>2, <1>3, <1>4, <1>5
<1> QED BY <1>4, <1>6, <1>7

\* The deterministic parser asks for no output twice, and normalisation does not
\* make two of its outputs one: its drafts meet DistinctOutputs.
LEMMA ParsedIsDistinct ==
  ASSUME NEW d, NEW hints, d.intent \in Intents, d.outputs = RequestedOutputs(d.intent, hints)
  PROVE  LET asked == Normalize(d).outputs
         IN  \A i, j \in DOMAIN asked : asked[i] = asked[j] => i = j
<1> DEFINE completion == /\ d.intent \in {"progress_audit", "course_planning",
                                          "curriculum_feasibility"}
                         /\ "completion" \in hints
           courses == IF d.intent \in {"course_query", "course_detail"} \/ "courses" \in hints
                      THEN IF d.intent = "course_detail" THEN <<"course_detail">>
                                                         ELSE <<"course_list">>
                      ELSE IF "codes" \in hints /\ ~completion THEN <<"course_detail">> ELSE <<>>
           planning == d.intent \in {"progress_audit", "course_planning", "curriculum_feasibility"}
           modules == IF "module" \in hints /\ (planning => "minimum" \in hints)
                      THEN <<"module_requirements">> ELSE <<>>
           policy == IF "policy" \in hints THEN <<"policy_explanation">> ELSE <<>>
           hinted == courses \o modules \o policy
<1>1. d.outputs = IF Primary[d.intent] \in AsSet(hinted) THEN hinted
                  ELSE Append(hinted, Primary[d.intent])
  BY DEF RequestedOutputs
<1>2. /\ courses \in {<<>>, <<"course_detail">>, <<"course_list">>}
      /\ modules \in {<<>>, <<"module_requirements">>}
      /\ policy \in {<<>>, <<"policy_explanation">>}
      /\ d.intent = "course_query" => courses = <<"course_list">>
  OBVIOUS
<1> HIDE DEF courses, modules, policy
<1>3. /\ hinted \in Seq(Outputs)
      /\ \A i, j \in DOMAIN hinted : hinted[i] = hinted[j] => i = j
      /\ \A i \in DOMAIN hinted :
           hinted[i] \in {"course_detail", "course_list"} => courses = <<hinted[i]>>
  BY <1>2, HintsAreDistinct
<1> HIDE DEF hinted
<1>4. Primary[d.intent] \in Outputs /\ (d.intent = "course_query" => Primary[d.intent] = "course_list")
  BY DEF Intents, Primary, Outputs
<1>5. /\ d.outputs # <<>> /\ d.outputs \in Seq(Outputs)
      /\ \A i, j \in DOMAIN d.outputs : d.outputs[i] = d.outputs[j] => i = j
  BY <1>1, <1>3, <1>4 DEF AsSet
<1>6. ASSUME d.intent = "course_query", NEW i \in DOMAIN d.outputs
      PROVE  d.outputs[i] # "course_detail"
  <2>1. \A k \in DOMAIN hinted : hinted[k] # "course_detail"
    BY <1>2, <1>3, <1>6
  <2> QED BY <1>1, <1>3, <1>4, <1>6, <2>1
<1>7. CASE d.intent = "course_query" /\ d.courses > 0 /\ ~d.filtered
  <2>1. Normalize(d).outputs =
          [i \in DOMAIN d.outputs |-> IF d.outputs[i] = "course_list" THEN "course_detail"
                                                                      ELSE d.outputs[i]]
    BY <1>5, <1>7 DEF Normalize
  <2> QED BY <1>5, <1>6, <1>7, <2>1
<1>8. CASE ~(d.intent = "course_query" /\ d.courses > 0 /\ ~d.filtered)
  <2>1. Normalize(d).outputs = d.outputs
    BY <1>5, <1>8 DEF Normalize
  <2> QED BY <1>5, <2>1
<1> QED BY <1>7, <1>8

\* Every question is understood by the rules.
OnlyParsed ==
  \A d \in Drafts : /\ d.intent \in Intents
                    /\ \E hints : d.outputs = RequestedOutputs(d.intent, hints)

\* Planner and gate agree for every question that the rules understand: one that was refused
\* for its coverage lacked a result, or its plan was over the budget of the executor.
THEOREM RulesAlwaysAnswered == OnlyParsed /\ Spec => []PlannedIsAnswered
<1>1. OnlyParsed => DistinctOutputs
  BY ParsedIsDistinct DEF OnlyParsed, DistinctOutputs
<1> QED BY <1>1, PlannedAlwaysAnswered
=============================================================================
