--------------------------- MODULE MCCurriculum ---------------------------
(***************************************************************************)
(* Instance of CurriculumPipeline: one plan of two courses, revised twice, *)
(* and one handbook, reviewed before.                                      *)
(***************************************************************************)
EXTENDS CurriculumPipeline

Plan == "plan"
Handbook == "handbook"
MCSources == {Plan, Handbook}
MCDocType == [s \in MCSources |-> IF s = Plan THEN "curriculum" ELSE "policy"]
MCScopeOf == [s \in MCSources |-> "c1"]

Cells(code, module, credits, semester) ==
    [code |-> code, module |-> module, credits |-> credits, semester |-> semester]
Row(cells) == [cells |-> cells, whole |-> TRUE]
Table(row1, row2) == [columns |-> TRUE, critical |-> FALSE, quality |-> "review_required",
                      rows |-> <<row1, row2>>]

First == Row(Cells("A1", "core", 3, 1))
Second == Row(Cells("B2", "core", 2, 10))
Raised == Row(Cells("A1", "core", 4, 1))
\* A second row of a course, in another semester, and a row that lost a cell.
Again == Row(Cells("A1", "core", 3, 2))
Ragged == [First EXCEPT !.whole = FALSE]
Scan == [Table(First, Ragged) EXCEPT !.critical = TRUE, !.quality = "failed"]

MCDocuments == [s \in MCSources |->
    IF s = Plan THEN <<Scan, Table(First, Again), Table(First, Second), Table(Raised, Second)>>
    ELSE <<[columns |-> FALSE, critical |-> FALSE, quality |-> "review_required", rows |-> <<>>]>>]

MCInitFiles == {[s \in MCSources |-> IF s = Plan THEN v ELSE 1] : v \in 1..4}
MCInitAuthenticity == [s \in MCSources |-> "verified"]
Decide(plan) == [s \in MCSources |-> IF s = Handbook THEN "include" ELSE plan]
MCSourceReviews == {Decide("include"), Decide("exclude"), Decide(None)}
MCChunkReviews == {Decide("exclude"), Decide(None)}

Id1 == <<Plan, 1, "A1">>
Id2 == <<Plan, 2, "B2">>
Entry(id, decision, updates) == [record |-> id, decision |-> decision, updates |-> updates]
NoUpdates == [f \in {} |-> None]
MCReviewers ==
    {Entry(Id1, "approve", NoUpdates), Entry(Id2, "approve", NoUpdates),
     Entry(Id1, "edit", [f \in {"credits"} |-> 4]), Entry(Id2, "quarantine", NoUpdates)}

P1 == [scope |-> "c1", major |-> "m1"]
P2 == [scope |-> "c1", major |-> "m2"]
Witness(sha, row, field, span) ==
    [status |-> "verified", sha |-> sha, chunk |-> Plan, row |-> row, cell |-> field, span |-> span]
Required(sha, credits) ==
    [required |-> credits, chunk |-> Plan,
     fields |-> [f \in {"module", "required_credits"} |->
                   Witness(sha, 9, f, Span("bare", IF f = "module" THEN "core" ELSE credits))]]
PlanOf(requirement) == [title |-> Plan, modules |-> [m \in {"core"} |-> requirement]]
To(p) == [program |-> p, module |-> "core", title |-> Plan]
OnePlan(sha) == [plans |-> [p \in {P1} |-> PlanOf(Required(sha, 5))],
                 assignments |-> [id \in {Id1, Id2} |-> To(P1)]]
TwoPlans == [plans |-> [p \in {P1, P2} |-> PlanOf(Required(3, 5))],
             assignments |-> [id \in {Id1, Id2} |-> To(IF id = Id1 THEN P1 ELSE P2)]]
\* Every record that a ledger names has to be known: this one fits the first two versions.
FirstOnly == [OnePlan(2) EXCEPT !.assignments = [id \in {Id1} |-> To(P1)]]
MCScaffolds == {OnePlan(3), OnePlan(4), TwoPlans, FirstOnly}

MappingOf(sha, id, module, credits, semester) ==
    LET span == [module |-> module, credits |-> Span("bare", credits),
                 semester |-> Span("semester", semester)] IN
    [title |-> Plan, sha |-> sha, chunk |-> Plan, row |-> id[2],
     fields |-> [f \in StrictFields |-> Witness(sha, id[2], f, span[f])]]
Mappings(sha, module, credits) ==
    [id \in {Id1, Id2} |->
        IF id = Id1 THEN MappingOf(sha, Id1, module, credits, 1)
                    ELSE MappingOf(sha, Id2, Span("bare", "core"), 2, 10)]
MCMappingLedgers ==
    {Mappings(3, Span("bare", "core"), 3), Mappings(3, Span("module", "core"), 4),
     Mappings(4, Span("bare", "core"), 4),
     [id \in {Id1} |-> MappingOf(3, Id1, Span("bare", "core"), 3, 1)]}

\* Bound: a file is not made again once the next one was made from it.  What comes after a
\* file reads nothing that it was made from but the registry, the documents and the ledger,
\* so the same next files are reached from the first try; the ledger and parsed only grow.
Forwards ==
    /\ reviewed # None => UNCHANGED <<draft, ledger, reviewed>>
    /\ catalog # None => UNCHANGED catalog
    /\ database = None
===========================================================================
