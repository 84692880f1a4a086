------------------------------- MODULE Planner -------------------------------
(***************************************************************************)
(* query/normalization.py and query/planner.py, the pure steps that turn   *)
(* an understood question into a plan of typed operations and one contract *)
(* for each requested output.                                              *)
(*                                                                         *)
(* Entities are abstracted to what planning looks at: how many programs    *)
(* and courses were resolved, and which mentions were ambiguous.  An       *)
(* operation is named by the name its identifier is hashed from.           *)
(***************************************************************************)
EXTENDS Integers, Sequences, FiniteSets

Outputs == {"course_list", "course_detail", "module_requirements",
            "policy_explanation", "graduation_requirements", "progress_audit",
            "comparison", "course_plan", "feasibility"}

PlanOutputs == {"course_plan", "feasibility"}

SingleProgramOutputs == Outputs \ {"comparison", "policy_explanation"}

PlanningOps == {"get_graduation_requirements", "list_curriculum_courses",
                "audit_completed_courses", "list_courses_before_semester",
                "list_unavoidable_courses", "check_curriculum_feasibility"}

OpIds == PlanningOps \cup
  {"list_courses", "get_course_detail", "get_module_requirements",
   "compare_programs", "retrieve_policy", "policy_repair"}

\* Two identifiers may stand for operations of one type.
OpType(op) ==
  CASE op = "list_curriculum_courses" -> "list_courses"
    [] op = "policy_repair" -> "retrieve_policy"
    [] OTHER -> op

PlanningTypes == {OpType(op) : op \in PlanningOps}

\* The types of operation whose results an output needs.
OutputOperationTypes == [
  course_list             |-> {"list_courses"},
  course_detail           |-> {"get_course_detail"},
  module_requirements     |-> {"get_module_requirements"},
  policy_explanation      |-> {"retrieve_policy"},
  graduation_requirements |-> {"get_graduation_requirements"},
  progress_audit          |-> {"get_graduation_requirements", "audit_completed_courses"},
  comparison              |-> {"compare_programs"},
  course_plan             |-> PlanningTypes,
  feasibility             |-> PlanningTypes]

OutputCapabilities == [
  course_list             |-> {"course_set"},
  course_detail           |-> {"course_set"},
  module_requirements     |-> {"requirements"},
  policy_explanation      |-> {"policy"},
  graduation_requirements |-> {"requirements"},
  progress_audit          |-> {"progress_audit"},
  comparison              |-> {"comparison"},
  course_plan             |-> {"requirements", "progress_audit", "course_set"},
  feasibility             |-> {"requirements", "progress_audit", "course_set"}]

\* The output that stands for an intent.
Primary == [
  course_query            |-> "course_list",
  course_detail           |-> "course_detail",
  graduation_requirements |-> "graduation_requirements",
  module_requirements     |-> "module_requirements",
  progress_audit          |-> "progress_audit",
  compare_programs        |-> "comparison",
  course_planning         |-> "course_plan",
  curriculum_feasibility  |-> "feasibility",
  policy                  |-> "policy_explanation",
  general                 |-> "policy_explanation"]

Intents == DOMAIN Primary

Structured == Intents \ {"policy", "general"}

AsSet(seq) == {seq[i] : i \in DOMAIN seq}

-----------------------------------------------------------------------------
(***************************************************************************)
(* Understanding.  A draft carries what the resolver makes of its mentions *)
(* in the data base, the request context and the session.                  *)
(***************************************************************************)

Draft == [
  intent    : Intents,
  outputs   : Seq(Outputs),
  offerings : BOOLEAN,      \* information_scope is "actual_offerings"
  deadline  : BOOLEAN,      \* a deadline semester is known
  cohort    : BOOLEAN,      \* of the question, the context or the session
  programs  : Nat,          \* distinct programs resolved
  courses   : Nat,          \* distinct courses resolved
  mentions  : Nat,          \* distinct course codes and course mentions
  codes     : BOOLEAN,      \* a course code is mentioned
  filtered  : BOOLEAN,      \* semesters or course natures are given
  completed : BOOLEAN,      \* a completed course is resolved
  doubtful  : BOOLEAN,      \* a completed course is unmatched or ambiguous
  unclear   : SUBSET {"program", "course", "module"}] \* ambiguous mentions

\* _requested_outputs() of the deterministic parser, in the order it adds them;
\* hints are the kinds of words the question contains.
RequestedOutputs(intent, hints) ==
  LET completion == /\ intent \in {"progress_audit", "course_planning", "curriculum_feasibility"}
                    /\ "completion" \in hints
      courses == IF intent \in {"course_query", "course_detail"} \/ "courses" \in hints
                 THEN IF intent = "course_detail" THEN <<"course_detail">> ELSE <<"course_list">>
                 ELSE IF "codes" \in hints /\ ~completion THEN <<"course_detail">> ELSE <<>>
      planning == intent \in {"progress_audit", "course_planning", "curriculum_feasibility"}
      modules == IF "module" \in hints /\ (planning => "minimum" \in hints)
                 THEN <<"module_requirements">> ELSE <<>>
      policy == IF "policy" \in hints THEN <<"policy_explanation">> ELSE <<>>
      hinted == courses \o modules \o policy
  IN  IF Primary[intent] \in AsSet(hinted) THEN hinted ELSE Append(hinted, Primary[intent])

-----------------------------------------------------------------------------
\* normalize(): a course query that names courses asks for their details.
Normalize(d) ==
  LET detail  == d.intent = "course_query" /\ d.courses > 0 /\ ~d.filtered
      intent  == IF detail THEN "course_detail" ELSE d.intent
      asked   == IF d.outputs = <<>> THEN <<Primary[d.intent]>> ELSE d.outputs
      outputs == IF detail
                 THEN [i \in DOMAIN asked |->
                         IF asked[i] = "course_list" THEN "course_detail" ELSE asked[i]]
                 ELSE asked
      missing ==
        {f \in {"cohort", "program", "at_least_two_programs", "completed_courses",
                "deadline_semester", "course", "module"} :
           \/ f = "cohort" /\ intent \in Structured /\ ~d.cohort
           \/ f = "program" /\ intent \in Structured /\ d.programs = 0
           \/ f = "program" /\ "program" \in d.unclear
           \/ f = "at_least_two_programs" /\ intent = "compare_programs" /\ d.programs < 2
           \/ f = "completed_courses" /\ d.doubtful
           \/ f = "completed_courses" /\ ~d.completed
                /\ intent \in {"progress_audit", "curriculum_feasibility"}
           \/ f = "deadline_semester" /\ ~d.deadline
                /\ intent \in {"course_planning", "curriculum_feasibility"}
           \/ f = "course" /\ intent = "course_detail" /\ "course" \in d.unclear
           \/ f = "module" /\ intent = "module_requirements" /\ "module" \in d.unclear}
      unsupported ==
        {o \in AsSet(outputs) :
           \/ d.offerings /\ o # "policy_explanation"
           \/ d.programs > 1 /\ o \in SingleProgramOutputs
           \/ o = "course_detail" /\ (d.courses > 1 \/ d.mentions > 1)}
  IN  [intent |-> intent, outputs |-> outputs, offerings |-> d.offerings,
       cohort |-> d.cohort, programs |-> d.programs,
       course |-> d.courses > 0 \/ d.codes, doubtful |-> d.doubtful,
       deadline |-> d.deadline, missing |-> missing, unsupported |-> unsupported]

-----------------------------------------------------------------------------
\* _missing_fields_for_output(): the fields one output lacks.
MissingFor(q, o) ==
  {f \in {"cohort", "program", "at_least_two_programs", "single_program_scope",
          "course", "module", "completed_courses", "deadline_semester"} :
     /\ o # "policy_explanation"
     /\ \/ f = "cohort" /\ ~q.cohort
        \/ f = "program" /\ q.programs = 0
        \/ f = "at_least_two_programs" /\ o = "comparison" /\ q.programs < 2
        \/ f = "single_program_scope" /\ o \in SingleProgramOutputs /\ q.programs > 1
        \/ f = "course" /\ o = "course_detail" /\ ~q.course
        \/ f = "module" /\ o = "module_requirements" /\ "module" \in q.missing
        \/ f = "completed_courses" /\ o \in {"progress_audit", "feasibility"}
             /\ (q.doubtful \/ "completed_courses" \in q.missing)
        \/ f = "deadline_semester" /\ o \in PlanOutputs /\ ~q.deadline}

\* Faulty variant: every requested output is planned.
PlannableAnyway(q) == AsSet(q.outputs)

\* Faulty variant: a field missing for one output suppresses all of them.
PlannableTogether(q) ==
  {o \in AsSet(q.outputs) \ q.unsupported :
     q.missing = {} /\ MissingFor(q, o) = {}}

\* The outputs for which operations are planned.
Plannable(q) ==
  {o \in AsSet(q.outputs) : o \notin q.unsupported /\ MissingFor(q, o) = {}}

\* _operations_for_output(), for a plannable output: the guards that the code
\* repeats there (cohort, programs, course) hold.
OperationsFor(o) ==
  CASE o = "policy_explanation"      -> {"retrieve_policy"}
    [] o = "course_list"             -> {"list_courses"}
    [] o = "course_detail"           -> {"get_course_detail"}
    [] o = "graduation_requirements" -> {"get_graduation_requirements"}
    [] o = "module_requirements"     -> {"get_module_requirements"}
    [] o = "progress_audit"          -> {"get_graduation_requirements",
                                         "audit_completed_courses"}
    [] o = "comparison"              -> {"compare_programs"}

\* The operations of build_plan().  A course plan brings its own, and three
\* other outputs reuse them.
Operations(q) ==
  IF q.intent = "general" THEN {}
  ELSE LET planning == Plannable(q) \cap PlanOutputs # {}
           reused   == IF planning
                       THEN {"course_list", "graduation_requirements", "progress_audit"}
                       ELSE {}
       IN  (IF planning THEN PlanningOps ELSE {})
           \cup UNION {OperationsFor(o) : o \in Plannable(q) \ (PlanOutputs \cup reused)}

\* Faulty variant: an audit always waits for the catalogue of a course plan.
DependsOnCatalogue(ops, op) ==
  CASE op = "audit_completed_courses" ->
         {"get_graduation_requirements", "list_curriculum_courses"}
    [] op \in {"list_courses_before_semester", "list_unavoidable_courses"} ->
         {"list_curriculum_courses", "audit_completed_courses"}
    [] op = "check_curriculum_feasibility" ->
         {"audit_completed_courses", "list_courses_before_semester",
          "list_unavoidable_courses"}
    [] OTHER -> {}

\* depends_on of an operation, in a plan of the operations ops.
DependsOn(ops, op) ==
  CASE op = "audit_completed_courses" ->
         {"get_graduation_requirements"} \cup (ops \cap {"list_curriculum_courses"})
    [] op \in {"list_courses_before_semester", "list_unavoidable_courses"} ->
         {"list_curriculum_courses", "audit_completed_courses"}
    [] op = "check_curriculum_feasibility" ->
         {"audit_completed_courses", "list_courses_before_semester",
          "list_unavoidable_courses"}
    [] OTHER -> {}

Contract == [output    : Outputs,
             status    : {"fulfilled", "unsupported", "missing_data", "refused"},
             producers : SUBSET OpIds]

\* _output_contracts(): which operations produce an output, or why none does.
ContractFor(q, ops, o) ==
  LET types == OutputOperationTypes[o]
      none  == o \in q.unsupported \/ MissingFor(q, o) # {}
  IN  [output    |-> o,
       status    |-> CASE o \in q.unsupported -> "unsupported"
                       [] ~none /\ types \subseteq {OpType(op) : op \in ops} -> "fulfilled"
                       [] OTHER -> "missing_data",
       producers |-> IF none THEN {} ELSE {op \in ops : OpType(op) \in types}]

\* build_plan(): the contracts follow requested_outputs, repetitions included.
BuildPlan(q) ==
  [ops       |-> Operations(q),
   contracts |-> [i \in DOMAIN q.outputs |-> ContractFor(q, Operations(q), q.outputs[i])]]
=============================================================================
