------------------------------ MODULE PlanDag ------------------------------
(***************************************************************************)
(* The plans handed to the executor: query/schemas.py ExecutionPlan and    *)
(* the depends_on edges of its operations.                                 *)
(***************************************************************************)
EXTENDS Integers, FiniteSets

CONSTANTS
  Plans,    \* plans, each executed by a request thread of its own
  OpIds,    \* operation identifiers, ordered as sorted() orders them
  Planned,  \* Planned[p]: the identifiers occurring in plan p
  Listed,   \* Listed[p]: len(plan.operations), duplicates counted
  Deps      \* Deps[p][op]: depends_on, which may name no operation of p

ASSUME PlansAssumption ==
  /\ IsFiniteSet(Plans)
  /\ IsFiniteSet(OpIds) /\ OpIds \subseteq Nat
  /\ Planned \in [Plans -> SUBSET OpIds]
  /\ Listed \in [Plans -> Nat]
  /\ Deps \in [Plans -> [OpIds -> SUBSET Nat]]

\* Every dependency of op names an operation of the plan.
Known(p, op) == Deps[p][op] \subseteq Planned[p]

\* The closure that _context_for walks from operation.depends_on: the least
\* set of operations of p that holds op's dependencies and those of its members.
ClosedUnderDeps(p, S) == \A x \in S : Deps[p][x] \cap Planned[p] \subseteq S

Ancestors(p, op) ==
  {a \in Planned[p] :
     \A S \in SUBSET Planned[p] :
       Deps[p][op] \cap Planned[p] \subseteq S /\ ClosedUnderDeps(p, S) => a \in S}
=============================================================================
