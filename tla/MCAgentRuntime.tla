---------------------------- MODULE MCAgentRuntime ----------------------------
(***************************************************************************)
(* Instances of AgentRuntime: sets of drafts and of tool answers.          *)
(***************************************************************************)
EXTENDS AgentRuntime

Plain == [intent |-> "policy", outputs |-> <<>>, offerings |-> FALSE,
          deadline |-> TRUE, cohort |-> TRUE, programs |-> 1, courses |-> 0,
          mentions |-> 0, codes |-> FALSE, filtered |-> FALSE,
          completed |-> TRUE, doubtful |-> FALSE, unclear |-> {}]

\* What the deterministic parser makes of questions, over every combination of
\* scope, entities and words.
ParsedDrafts ==
  UNION {
    {[Plain EXCEPT
        !.intent = intent, !.outputs = RequestedOutputs(intent, hints),
        !.offerings = offerings, !.deadline = deadline,
        !.cohort = scope[1], !.programs = scope[2],
        !.courses = courses, !.codes = "codes" \in hints,
        !.mentions = IF "codes" \in hints THEN 1 ELSE 0,
        !.completed = done # "none", !.doubtful = done = "doubtful",
        !.unclear = unclear] :
      scope \in {<<FALSE, 1>>, <<TRUE, 0>>, <<TRUE, 1>>, <<TRUE, 2>>},
      offerings \in BOOLEAN, deadline \in BOOLEAN, courses \in 0 .. 1,
      done \in {"none", "some", "doubtful"}, unclear \in {{}, {"module"}}} :
    intent \in Intents,
    hints \in SUBSET {"courses", "codes", "module", "minimum", "policy"}}

\* Requests that reach the gate with a policy retrieval and structured tools.
EvidenceDrafts ==
  {[Plain EXCEPT !.intent = "policy", !.outputs = <<"policy_explanation">>],
   [Plain EXCEPT !.intent = "course_query",
                 !.outputs = <<"course_list", "policy_explanation">>],
   [Plain EXCEPT !.intent = "progress_audit", !.outputs = <<"progress_audit">>],
   [Plain EXCEPT !.intent = "course_planning", !.outputs = <<"course_plan">>],
   [Plain EXCEPT !.intent = "module_requirements",
                 !.outputs = <<"module_requirements", "policy_explanation">>]}

ToolTypes == {OpType(op) : op \in OpIds}

Reports(type, defects) ==
  [component |-> [tool |-> type, kind |-> OperationKind(type), defects |-> defects],
   own |-> TRUE, twice |-> FALSE]

\* Every tool delivers sound evidence.
SoundAnswers == [type \in ToolTypes |-> {Reports(type, {})}]

\* What academic/tools.py reports: requirements and comparisons may be
\* incomplete, anything may be untrusted, and a policy retrieval either finds
\* nothing or finds rows of any quality.
ShippedAnswers ==
  [type \in ToolTypes |->
     {Reports(type, {}), Reports(type, {"untrusted_evidence"})}
     \cup (IF type \in {"get_graduation_requirements", "get_module_requirements",
                        "audit_completed_courses", "compare_programs"}
           THEN {Reports(type, {"incomplete", "untrusted_evidence"})} ELSE {})
     \cup (IF type = "retrieve_policy"
           THEN {Reports(type, {"incomplete", "untrusted_evidence", "not_authoritative",
                                "scope_unmatched", "version_unresolved"}),
                 Reports(type, {"version_unresolved", "source_conflict"}),
                 Reports(type, {"not_authoritative"})} ELSE {})]

\* What any tool that is registered may report, faults included.
AnyAnswers ==
  [type \in ToolTypes |->
     {Reports(type, {}), Reports(type, {"incomplete"}),
      [Reports(type, {}) EXCEPT !.component.kind = "source"]}
     \cup (IF type \in {"retrieve_policy", "list_courses", "get_module_requirements"}
           THEN {Reports(type, {"scope_unmatched"}),
                 [Reports(type, {}) EXCEPT !.component.tool = "compare_programs"],
                 [Reports(type, {}) EXCEPT !.own = FALSE],
                 [Reports(type, {}) EXCEPT !.twice = TRUE]} ELSE {})]
=============================================================================
