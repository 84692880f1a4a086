----------------------------- MODULE CoverageGate -----------------------------
(***************************************************************************)
(* agent/coverage_gate.py: which requested outputs the results of a plan   *)
(* allow to be answered.  A packet has the outcome of each operation, the  *)
(* coverage component reported under each operation identifier, and the    *)
(* identifiers under which different components were reported.             *)
(***************************************************************************)
EXTENDS Planner

Kinds == {"course_set", "requirement", "audit", "policy", "comparison", "source"}

\* Faulty variant: two capabilities are mixed up.
CapabilityKindSwapped == [
  course_set     |-> "course_set",
  requirements   |-> "audit",
  policy         |-> "policy",
  progress_audit |-> "requirement",
  comparison     |-> "comparison"]

CapabilityKind == [
  course_set     |-> "course_set",
  requirements   |-> "requirement",
  policy         |-> "policy",
  progress_audit |-> "audit",
  comparison     |-> "comparison"]

\* The kind of component an operation of a type must report.
OperationKind(type) ==
  CASE type \in {"get_graduation_requirements", "get_module_requirements"} -> "requirement"
    [] type = "audit_completed_courses" -> "audit"
    [] type = "retrieve_policy" -> "policy"
    [] type = "compare_programs" -> "comparison"
    [] OTHER -> "course_set"

PolicyDefects == {"not_authoritative", "scope_unmatched", "version_unresolved",
                  "source_conflict"}
Defects == {"incomplete", "truncated", "untrusted_evidence"} \cup PolicyDefects

Component == [tool : {OpType(op) : op \in OpIds}, kind : Kinds, defects : SUBSET Defects]

\* _valid_component(): the defects that count for a component of its kind.
ComponentReasons(c) ==
  {d \in c.defects : /\ d = "untrusted_evidence" => c.kind # "source"
                     /\ d \in PolicyDefects => c.kind = "policy"}

\* What is wrong with the result of one producer of an output.
ProducerReasons(plan, packet, op) ==
  IF op \notin plan.ops THEN {"producer_operation_not_in_plan"}
  ELSE IF op \notin DOMAIN packet.results THEN {"operation_not_reported"}
  ELSE (IF packet.results[op] # "success" THEN {"operation_unsuccessful"} ELSE {})
       \cup
       (IF op \notin DOMAIN packet.components THEN {"coverage_component_missing"}
        ELSE LET c == packet.components[op]
             IN  (IF c.tool # OpType(op) THEN {"coverage_tool_mismatch"} ELSE {})
                 \cup (IF c.kind # OperationKind(OpType(op)) THEN {"coverage_kind_mismatch"} ELSE {})
                 \cup ComponentReasons(c))

\* The components considered for the capabilities of a contract.
Considered(plan, packet, contract) ==
  {packet.components[op] : op \in contract.producers \cap plan.ops
                                  \cap DOMAIN packet.results \cap DOMAIN packet.components}

CapabilityReasons(plan, packet, contract) ==
  {"output_capability_missing" : cap \in
     {cap \in OutputCapabilities[contract.output] :
        ~\E c \in Considered(plan, packet, contract) : c.kind = CapabilityKind[cap]}}
  \cup
  {"output_capability_unsatisfied" : cap \in
     {cap \in OutputCapabilities[contract.output] :
        /\ \E c \in Considered(plan, packet, contract) : c.kind = CapabilityKind[cap]
        /\ \A c \in Considered(plan, packet, contract) :
             c.kind = CapabilityKind[cap] => ComponentReasons(c) # {}}}

\* Faulty variant: a capability may be met by any one of its producers.
OutputReasonsByKind(plan, packet, contract) ==
  (IF contract.producers = {} THEN {"producer_operation_missing"} ELSE {})
  \cup CapabilityReasons(plan, packet, contract)

\* Every reason against an output that was planned.
OutputReasons(plan, packet, contract) ==
  (IF contract.producers = {} THEN {"producer_operation_missing"} ELSE {})
  \cup (UNION {ProducerReasons(plan, packet, op) : op \in contract.producers})
  \cup CapabilityReasons(plan, packet, contract)

\* _severe(): the reasons that mark evidence as wrong, and not only as missing.
SevereReasons == {"producer_operation_not_in_plan", "coverage_tool_mismatch",
                  "coverage_kind_mismatch", "untrusted_evidence"} \cup PolicyDefects

\* The status of an output that has one contract.
StatusAt(plan, packet, contract) ==
  IF contract.status # "fulfilled" THEN contract.status
  ELSE LET reasons == OutputReasons(plan, packet, contract)
       IN  CASE reasons = {} -> "fulfilled"
             [] reasons \cap SevereReasons # {} -> "refused"
             [] OTHER -> "missing_data"

ContractsOf(plan, o) == {i \in DOMAIN plan.contracts : plan.contracts[i].output = o}

\* Reasons that stop the whole request.
GlobalReasons(q, plan, packet) ==
  {"unexpected_execution_result" : op \in DOMAIN packet.results \ plan.ops}
  \cup {"unexpected_coverage_component" : op \in DOMAIN packet.components \ plan.ops}
  \cup {"duplicate_coverage_component" : op \in packet.duplicated}
  \cup {"unexpected_output_contract" : i \in
          {i \in DOMAIN plan.contracts : plan.contracts[i].output \notin AsSet(q.outputs)}}
  \cup {"duplicate_output_contract" : o \in
          {o \in AsSet(q.outputs) : Cardinality(ContractsOf(plan, o)) > 1}}

\* evaluate(): one contract with its runtime status for each requested output.
\* The contracts of one output are all the same, so the first is any of them.
RuntimeContract(plan, packet, o) ==
  LET matches == ContractsOf(plan, o)
  IN  IF matches = {} THEN [output |-> o, status |-> "missing_data", producers |-> {}]
      ELSE LET contract == plan.contracts[CHOOSE i \in matches : TRUE]
           IN  [contract EXCEPT !.status = IF Cardinality(matches) > 1 THEN "refused"
                                           ELSE StatusAt(plan, packet, contract)]

PolicyShortage(plan, packet) ==
  \E i \in DOMAIN plan.contracts :
    LET contract == plan.contracts[i]
    IN  /\ contract.output = "policy_explanation" /\ contract.status = "fulfilled"
        /\ StatusAt(plan, packet, contract) = "missing_data"
        /\ "incomplete" \in OutputReasons(plan, packet, contract)

Evaluate(q, plan, packet) ==
  LET contracts  == [o \in AsSet(q.outputs) |-> RuntimeContract(plan, packet, o)]
      sufficient == /\ \E o \in AsSet(q.outputs) : contracts[o].status = "fulfilled"
                    /\ GlobalReasons(q, plan, packet) = {}
  IN  [contracts  |-> contracts,
       sufficient |-> sufficient,
       repairable |-> /\ ~sufficient /\ GlobalReasons(q, plan, packet) = {}
                      /\ PolicyShortage(plan, packet)]
=============================================================================
