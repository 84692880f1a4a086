----------------------------- MODULE AgentRuntime -----------------------------
(***************************************************************************)
(* agent/orchestrator.py: one call of AgentRuntime.ask, with the planner,  *)
(* the executor as its contract (DagExecution), the coverage gate and the  *)
(* repair planner.  What the parser, the tools and the validator answer is *)
(* left open.                                                              *)
(***************************************************************************)
EXTENDS CoverageGate

CONSTANTS
  Drafts,        \* the understood questions
  MaxToolCalls,  \* RuntimePolicy.max_tool_calls
  MaxRetries,    \* RuntimeDependencies.max_validation_retries
  Answers,       \* Answers[type]: what a tool of that type may report
  Stray          \* an operation identifier no plan uses

\* A tool reports a component under its own identifier or under another, and
\* possibly a second one that differs.
Answer == [component : Component, own : BOOLEAN, twice : BOOLEAN]

ASSUME RuntimeAssumption ==
  /\ Drafts \subseteq Draft
  /\ MaxToolCalls \in Nat \ {0} /\ MaxRetries \in Nat
  /\ DOMAIN Answers = {OpType(op) : op \in OpIds}
  /\ \A type \in DOMAIN Answers : Answers[type] \subseteq Answer
  /\ Stray \notin OpIds

VARIABLES
  status,    \* AgentState.status; "RAISED" after an exception left ask()
  draft,     \* what understanding the question will give
  plan,      \* AgentState.plan
  packet,    \* AgentState.evidence
  contracts, \* AgentState.output_contracts, by output
  repairs,   \* AgentState.repair_count
  regens,    \* AgentState.regeneration_count
  answer,    \* how the request is answered
  saved      \* the session store was given the context of the request

vars == <<status, draft, plan, packet, contracts, repairs, regens, answer, saved>>

Query == Normalize(draft)   \* AgentState.normalized_query

-----------------------------------------------------------------------------
Status == {"UNDERSTAND", "NORMALIZE", "PLAN", "EXECUTE", "COVERAGE_CHECK",
           "REPAIR_PLAN", "REPAIR_EXECUTE", "SYNTHESIZE", "VALIDATE",
           "REGENERATE", "CLARIFY", "REFUSE", "FINISH"}

AllowedTransitions == [
  UNDERSTAND     |-> {"NORMALIZE"},
  NORMALIZE      |-> {"PLAN", "CLARIFY"},
  PLAN           |-> {"EXECUTE", "CLARIFY"},
  EXECUTE        |-> {"COVERAGE_CHECK"},
  COVERAGE_CHECK |-> {"SYNTHESIZE", "REPAIR_PLAN", "CLARIFY", "REFUSE"},
  REPAIR_PLAN    |-> {"REPAIR_EXECUTE", "REFUSE"},
  REPAIR_EXECUTE |-> {"COVERAGE_CHECK"},
  SYNTHESIZE     |-> {"VALIDATE"},
  VALIDATE       |-> {"FINISH", "REGENERATE", "REFUSE"},
  REGENERATE     |-> {"VALIDATE"},
  CLARIFY        |-> {"FINISH"},
  REFUSE         |-> {"FINISH"},
  FINISH         |-> {}]

NoPacket == [results |-> <<>>, components |-> <<>>, duplicated |-> {}]
NoPlan   == [ops |-> {}, contracts |-> <<>>]

Goto(from, to) == status = from /\ status' = to

Init ==
  /\ status = "UNDERSTAND"
  /\ draft \in Drafts
  /\ plan = NoPlan /\ packet = NoPacket /\ contracts = <<>>
  /\ repairs = 0 /\ regens = 0
  /\ answer = "none" /\ saved = FALSE

Understand ==
  /\ Goto("UNDERSTAND", "NORMALIZE")
  /\ UNCHANGED <<draft, plan, packet, contracts, repairs, regens, answer, saved>>

NormalizeQuery ==
  /\ Goto("NORMALIZE", "PLAN")
  /\ UNCHANGED <<draft, plan, packet, contracts, repairs, regens, answer, saved>>

ByOutput(seq) ==
  [o \in {seq[i].output : i \in DOMAIN seq} |->
     seq[CHOOSE i \in DOMAIN seq : seq[i].output = o]]

\* The planner finds operations for the request ...
Plan ==
  /\ Goto("PLAN", "EXECUTE")
  /\ plan' = BuildPlan(Query) /\ plan'.ops # {}
  /\ contracts' = ByOutput(plan'.contracts)
  /\ UNCHANGED <<draft, packet, repairs, regens, answer, saved>>

\* ... or none, and the user is asked back.
AskBack ==
  /\ Goto("PLAN", "CLARIFY")
  /\ plan' = BuildPlan(Query) /\ plan'.ops = {}
  /\ contracts' = ByOutput(plan'.contracts)
  /\ answer' = "clarified"
  /\ UNCHANGED <<draft, packet, repairs, regens, saved>>

\* The operations the executor was given.
Executing == IF status = "REPAIR_EXECUTE" THEN {"policy_repair"} ELSE plan.ops

Add(f, x, v) == [y \in DOMAIN f \cup {x} |-> IF y = x THEN v ELSE f[y]]

\* Results are merged by operation identifier, so the order in which independent
\* operations end makes no difference here: one of them is next.
Ready == {op \in Executing \ DOMAIN packet.results :
            DependsOn(Executing, op) \subseteq DOMAIN packet.results}

\* The executor records one outcome.  An operation succeeds only if all those it
\* depends on did, and then its packet is merged.
Record ==
  LET op == CHOOSE op \in Ready : TRUE
  IN  /\ status \in {"EXECUTE", "REPAIR_EXECUTE"}
      /\ Ready # {} /\ Cardinality(Executing) <= MaxToolCalls
      /\ \/ packet' = [packet EXCEPT !.results = Add(@, op, "failed")]
         \/ /\ \A d \in DependsOn(Executing, op) : packet.results[d] = "success"
            /\ \E a \in Answers[OpType(op)] :
                 packet' =
                   [results    |-> Add(packet.results, op, "success"),
                    components |-> Add(packet.components,
                                       IF a.own THEN op ELSE Stray, a.component),
                    duplicated |-> packet.duplicated \cup (IF a.twice THEN {op} ELSE {})]
      /\ UNCHANGED <<status, draft, plan, contracts, repairs, regens, answer, saved>>

\* A plan over the budget is not run at all.
RejectPlan ==
  /\ Goto("EXECUTE", "COVERAGE_CHECK")
  /\ Cardinality(plan.ops) > MaxToolCalls
  /\ packet' = [packet EXCEPT !.results = [op \in plan.ops |-> "failed"]]
  /\ UNCHANGED <<draft, plan, contracts, repairs, regens, answer, saved>>

Executed ==
  /\ Goto("EXECUTE", "COVERAGE_CHECK")
  /\ plan.ops \subseteq DOMAIN packet.results
  /\ UNCHANGED <<draft, plan, packet, contracts, repairs, regens, answer, saved>>

-----------------------------------------------------------------------------
Decision == Evaluate(Query, plan, packet)

\* Some output can be answered.
Suffices ==
  /\ Goto("COVERAGE_CHECK", "SYNTHESIZE")
  /\ Decision.sufficient
  /\ contracts' = Decision.contracts
  /\ UNCHANGED <<draft, plan, packet, repairs, regens, answer, saved>>

\* Faulty variant: a request is repaired as often as its decision allows.
CanRepairAgain == Decision.repairable

\* RepairPlanner.plan() finds a retrieval to widen, once.
CanRepair ==
  /\ Decision.repairable /\ repairs < 1
  /\ \E op \in plan.ops : OpType(op) = "retrieve_policy"

Repair ==
  /\ Goto("COVERAGE_CHECK", "REPAIR_PLAN")
  /\ ~Decision.sufficient /\ CanRepair
  /\ contracts' = Decision.contracts
  /\ repairs' = repairs + 1
  /\ UNCHANGED <<draft, plan, packet, regens, answer, saved>>

RepairPlanned ==
  /\ Goto("REPAIR_PLAN", "REPAIR_EXECUTE")
  /\ UNCHANGED <<draft, plan, packet, contracts, repairs, regens, answer, saved>>

\* The repaired retrieval joins the plan and becomes the producer of the policy
\* explanation.
RepairExecuted ==
  /\ Goto("REPAIR_EXECUTE", "COVERAGE_CHECK")
  /\ "policy_repair" \in DOMAIN packet.results
  /\ plan' = [ops |-> plan.ops \cup {"policy_repair"},
              contracts |-> [i \in DOMAIN plan.contracts |->
                IF plan.contracts[i].output = "policy_explanation"
                THEN [plan.contracts[i] EXCEPT !.producers = {"policy_repair"},
                                               !.status = "fulfilled"]
                ELSE plan.contracts[i]]]
  /\ UNCHANGED <<draft, packet, contracts, repairs, regens, answer, saved>>

\* Faulty variant: the refusal is not a step of its own.
CoverageStopAtOnce ==
  /\ Goto("COVERAGE_CHECK", "FINISH")
  /\ ~Decision.sufficient /\ ~CanRepair
  /\ contracts' = Decision.contracts
  /\ answer' = "stopped"
  /\ UNCHANGED <<draft, plan, packet, repairs, regens, saved>>

\* _coverage_stop(): none of the reasons it would ask back for is ever one of
\* the gate's, so it refuses.
CoverageStop ==
  /\ Goto("COVERAGE_CHECK", "REFUSE")
  /\ ~Decision.sufficient /\ ~CanRepair
  /\ contracts' = Decision.contracts
  /\ answer' = "stopped"
  /\ UNCHANGED <<draft, plan, packet, repairs, regens, saved>>

-----------------------------------------------------------------------------
Synthesize ==
  /\ \/ Goto("SYNTHESIZE", "VALIDATE")
     \/ Goto("REGENERATE", "VALIDATE")
  /\ UNCHANGED <<draft, plan, packet, contracts, repairs, regens, answer, saved>>

\* The claims pass, ...
Accept ==
  /\ Goto("VALIDATE", "FINISH")
  /\ answer' = "answered"
  /\ UNCHANGED <<draft, plan, packet, contracts, repairs, regens, saved>>

\* Faulty variant: a second wording is not counted.
RegenerateUncounted ==
  /\ Goto("VALIDATE", "REGENERATE")
  /\ regens < MaxRetries
  /\ UNCHANGED <<draft, plan, packet, contracts, repairs, regens, answer, saved>>

\* ... are refused for a reason that other words may cure, which are tried once
\* whatever MaxRetries allows, ...
Regenerate ==
  /\ Goto("VALIDATE", "REGENERATE")
  /\ regens < MaxRetries /\ regens = 0
  /\ regens' = regens + 1
  /\ UNCHANGED <<draft, plan, packet, contracts, repairs, answer, saved>>

\* ... or are refused.
RefuseAnswer ==
  /\ Goto("VALIDATE", "REFUSE")
  /\ answer' = "refused"
  /\ UNCHANGED <<draft, plan, packet, contracts, repairs, regens, saved>>

Conclude ==
  /\ Goto("CLARIFY", "FINISH") \/ Goto("REFUSE", "FINISH")
  /\ UNCHANGED <<draft, plan, packet, contracts, repairs, regens, answer, saved>>

\* Only a request that got as far as validation leaves its context.
SaveSession ==
  /\ status = "FINISH" /\ ~saved
  /\ answer \in {"answered", "refused"}
  /\ saved' = TRUE
  /\ UNCHANGED <<status, draft, plan, packet, contracts, repairs, regens, answer>>

\* An exception of a dependency leaves ask(): the data base, the session store
\* or the synthesizer; tools are shielded by the executor.
Raise ==
  /\ \/ status \in {"UNDERSTAND", "NORMALIZE", "PLAN", "CLARIFY",
                   "SYNTHESIZE", "REGENERATE", "VALIDATE"}
     \/ status = "FINISH" /\ ~saved /\ answer \in {"answered", "refused"}
  /\ status' = "RAISED"
  /\ UNCHANGED <<draft, plan, packet, contracts, repairs, regens, answer, saved>>

Step ==
  \/ Understand \/ NormalizeQuery \/ Plan \/ AskBack
  \/ Record
  \/ RejectPlan \/ Executed
  \/ Suffices \/ Repair \/ RepairPlanned \/ RepairExecuted \/ CoverageStop
  \/ Synthesize \/ Accept \/ Regenerate \/ RefuseAnswer \/ Conclude \/ SaveSession
  \/ Raise

Rest ==
  /\ status = "RAISED" \/ (status = "FINISH" /\ (saved \/ answer \notin {"answered", "refused"}))
  /\ UNCHANGED vars

Next == Step \/ Rest

Spec == Init /\ [][Next]_vars

\* The thread of the request runs; PlanExecutor returns (AlwaysReturns there).
FairSpec == Spec /\ WF_vars(Step)

-----------------------------------------------------------------------------
(***************************************************************************)
(* Properties.                                                             *)
(***************************************************************************)

TypeOK ==
  /\ status \in Status \cup {"RAISED"}
  /\ draft \in Drafts
  /\ plan \in [ops : SUBSET OpIds, contracts : Seq(Contract)]
  /\ packet = [results |-> packet.results, components |-> packet.components,
               duplicated |-> packet.duplicated]
  /\ DOMAIN packet.results \subseteq OpIds
  /\ DOMAIN packet.components \subseteq OpIds \cup {Stray}
  /\ packet.duplicated \subseteq OpIds
  /\ repairs \in 0 .. 1 /\ regens \in 0 .. MaxRetries
  /\ answer \in {"none", "clarified", "stopped", "answered", "refused"}
  /\ saved \in BOOLEAN

\* "One successful operation cannot hide the failure of another" (ARCHITECTURE
\* .md:43): what an answer may contain when it is worded, checked or given is
\* only outputs all of whose producers, in the plan as repaired, succeeded and
\* reported sound evidence of their own kind, and no result is unaccounted for.
Proven(op) ==
  /\ op \in DOMAIN packet.results /\ packet.results[op] = "success"
  /\ op \in DOMAIN packet.components
  /\ packet.components[op].kind = OperationKind(OpType(op))
  /\ packet.components[op].tool = OpType(op)
  /\ ComponentReasons(packet.components[op]) = {}

AnswersProven ==
  status \in {"SYNTHESIZE", "VALIDATE", "REGENERATE"} \/ answer \in {"answered", "refused"} =>
    /\ \A o \in DOMAIN contracts : contracts[o].status = "fulfilled" =>
         \E i \in DOMAIN plan.contracts :
           /\ plan.contracts[i].output = o /\ plan.contracts[i].producers # {}
           /\ \A op \in plan.contracts[i].producers : op \in plan.ops /\ Proven(op)
    /\ DOMAIN packet.results \cup DOMAIN packet.components \subseteq plan.ops

\* The code never asks for a transition that AgentState.transition() rejects.
TransitionsAllowed ==
  [][status' # status /\ status' # "RAISED" => status' \in AllowedTransitions[status]]_status

\* A course, requirement or audit operation is run only for a request about one
\* known program and cohort, and no request about live offerings is answered
\* from the curriculum (query/normalization.py:260).
PlannedInScope ==
  \A op \in plan.ops \ {"retrieve_policy", "policy_repair"} :
    /\ Query.cohort /\ ~Query.offerings
    /\ IF op = "compare_programs" THEN Query.programs > 1 ELSE Query.programs = 1

\* Every planned call serves an output: it is one of its producers or one of
\* these depends on it; and every dependency of a planned call is planned.
CallsAreUsed ==
  LET used == UNION {plan.contracts[i].producers : i \in DOMAIN plan.contracts}
  IN  \A op \in plan.ops :
        /\ DependsOn(plan.ops, op) \subseteq plan.ops
        /\ \/ op \in used
           \/ (op = "retrieve_policy" /\ "policy_repair" \in used)
           \/ \E u \in used : op \in DependsOn(plan.ops, u)

\* The executor runs the plan; nothing in the planner keeps to the budget.
PlanFitsBudget == Cardinality(plan.ops) <= MaxToolCalls

\* Planner, tools and gate agree: if every tool delivered sound evidence of its
\* kind, each output that was planned is answered, and whatever a request lacks
\* for one output takes nothing from the others.
PlannedIsAnswered ==
  answer = "stopped" =>
    \/ ~PlanFitsBudget
    \/ packet.duplicated # {} \/ ~(DOMAIN packet.components \subseteq plan.ops)
    \/ \A i \in DOMAIN plan.contracts :
         plan.contracts[i].status = "fulfilled" =>
           \E op \in plan.contracts[i].producers : ~Proven(op)

\* "A missing program for a course output must not suppress an independently
\* answerable global policy output" (query/planner.py:373): no request that asks
\* for a policy explanation is asked back, unless it was understood as general.
PolicyIndependent ==
  answer = "clarified" /\ "policy_explanation" \in AsSet(Query.outputs) =>
    Query.intent = "general"

\* "There is no unbounded retry loop" (docs/AGENT_RUNTIME.md:27): every request
\* is answered, refused, asked back or fails.
AlwaysFinishes == <>(status \in {"FINISH", "RAISED"})

-----------------------------------------------------------------------------
(***************************************************************************)
(* What the documentation says, and the code does not do.                  *)
(***************************************************************************)

\* "The state machine allows at most one targeted retrieval repair after
\* insufficient evidence" (docs/ARCHITECTURE.md:43): a policy retrieval that found
\* nothing is widened once before the request is refused.
ShortageIsRepaired ==
  answer = "stopped" /\ Plannable(Query) = {"policy_explanation"}
    /\ "retrieve_policy" \in DOMAIN packet.components
    /\ "incomplete" \in packet.components["retrieve_policy"].defects
    => repairs = 1
=============================================================================
