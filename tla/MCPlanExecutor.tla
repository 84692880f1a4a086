--------------------------- MODULE MCPlanExecutor ---------------------------
(***************************************************************************)
(* Instances of PlanExecutor: the plans TLC runs over the shared pool.     *)
(***************************************************************************)
EXTENDS PlanExecutor, TLC

CONSTANTS p1, p2, p3

\* p1 has the shape of a course plan (requirements and catalogue, an audit, an
\* analysis).
CourseDeps == 1 :> {} @@ 2 :> {} @@ 3 :> {1, 2} @@ 4 :> {3} @@ 5 :> {}

\* p2 has an unknown dependency with its dependents on both sides of it in
\* identifier order, beside a cycle and a tool that is given no time.
TangledDeps == 1 :> {2} @@ 2 :> {9} @@ 3 :> {2} @@ 4 :> {4} @@ 5 :> {}

\* p3 names an operation twice.
MixedPlanned == p1 :> 1 .. 4 @@ p2 :> 1 .. 5 @@ p3 :> {1}
MixedListed == p1 :> 4 @@ p2 :> 5 @@ p3 :> 2
MixedDeps == p1 :> CourseDeps @@ p2 :> TangledDeps @@ p3 :> [op \in 1 .. 5 |-> {}]
MixedTimeout == 1 :> 1 @@ 2 :> 2 @@ 3 :> 2 @@ 4 :> 1 @@ 5 :> 0

CoursePlanned == p1 :> 1 .. 4
CourseListed == p1 :> 4
CourseAlone == p1 :> CourseDeps

\* A chain of two tools, a single tool, and a plan with too many operations.
ChainPlanned == p1 :> {1, 2} @@ p2 :> {1} @@ p3 :> {1, 2}
ChainListed == p1 :> 2 @@ p2 :> 1 @@ p3 :> 3
ChainDeps == p1 :> (1 :> {} @@ 2 :> {1})
          @@ p2 :> [op \in 1 .. 2 |-> {}]
          @@ p3 :> [op \in 1 .. 2 |-> {}]
ChainTimeout == 1 :> 1 @@ 2 :> 2
=============================================================================
