---------------------- MODULE CatalogMaterialization ----------------------
(***************************************************************************)
(* The adapter that turns reviewed records into the catalog that           *)
(* build_database reads (ingest/catalog_materialize.py).  Two more files   *)
(* come from operators:                                                    *)
(*  - the scaffold: plans (a function on programs: the title of the plan's *)
(*    document and its modules with their requirements) and assignments (a *)
(*    function on record identifiers: program, module, title);             *)
(*  - the mapping ledger: a function on record identifiers that names the  *)
(*    document, the chunk and the row, and for each strict field a witness *)
(*    with its own copy of these, its cell and the span of text.           *)
(* A title is its source; page and row are one location, the row; a cell   *)
(* is the column it is in; a span is a value and the unit or label that    *)
(* stands with it ("bare" when it is alone in its cell).                   *)
(***************************************************************************)
EXTENDS CatalogReview

CONSTANTS ScopeOf   \* college and cohort of each source

StrictFields == {"module", "credits", "semester"}
Span(unit, value) == [unit |-> unit, value |-> value]

\* _field_span_covers_value: the value alone or with the label of its own field.
CoversHere(field, value, span) == span.value = value /\ span.unit \in {"bare", field}

\* _assignment: the record's document is a verified one of the plan's scope, all titles
\* agree and the plan has the course's module.
Assigned(c, a, plans) ==
    /\ ScopeOf[c.source] = a.program.scope
    /\ DocType[c.source] \in CatalogTypes
    /\ c.context.authenticity = "verified"
    /\ a.program \in DOMAIN plans
    /\ a.title = plans[a.program].title
    /\ a.module \in DOMAIN plans[a.program].modules
    /\ c.values["module"] = a.module
    /\ a.title = c.source

\* The witness is verified, is about the mapping's record and the record's own cell.
WitnessesCell(c, mapping, f) ==
    LET w == mapping.fields[f] IN
    /\ w.status = "verified"
    /\ w.sha = c.context.sha
    /\ w.chunk = mapping.chunk
    /\ w.row = mapping.row
    /\ w.row = c.row
    /\ w.cell = f

\* Its span is the value; the source cell or a reviewer says so too; no reviewer differs.
WitnessesValue(c, mapping, f) ==
    /\ CoversHere(f, c.values[f], mapping.fields[f].span)
    /\ \A v \in c.reviewer[f] : v = c.values[f]
    /\ CoversHere(f, c.values[f], Span("bare", c.raw[f])) \/ c.values[f] \in c.reviewer[f]

\* _field_verification
Evidenced(c, a, mapping) ==
    /\ mapping.title = a.title
    /\ c.context.sha # None
    /\ mapping.sha = c.context.sha
    /\ \A f \in StrictFields : WitnessesCell(c, mapping, f) /\ WitnessesValue(c, mapping, f)

\* _materialize_course raises no failure.
Admitted(c, reviewed, scaffold, mappings) ==
    /\ c.status = "verified"
    /\ c.id \in DOMAIN scaffold.assignments
    /\ c.id \in DOMAIN mappings
    /\ \E e \in About(reviewed.ledger, c) : e.decision \in {"approve", "edit"}
    /\ Assigned(c, scaffold.assignments[c.id], scaffold.plans)
    /\ Evidenced(c, scaffold.assignments[c.id], mappings[c.id])

\* The canonical course.  record is the identifier that its audit record carries.
Canonical(c, a, mapping) ==
    [record |-> c.id, program |-> a.program, module |-> a.module, code |-> c.values["code"],
     credits |-> c.values["credits"], semester |-> c.values["semester"],
     title |-> a.title, row |-> mapping.row, chunk |-> mapping.chunk, fields |-> mapping.fields]

ActiveIds(reviewed) == {c.id : c \in reviewed.courses}
UpstreamIds(reviewed) == {q.record : q \in {r \in reviewed.quarantine : r.record # None}}
AdmittedCourses(reviewed, scaffold, mappings) ==
    {c \in reviewed.courses : Admitted(c, reviewed, scaffold, mappings)}

\* materialize_catalog does not raise: no orphan, unknown or repeated identifier in any of
\* the ledgers, and no quarantine when the operator said so.
Materialises(reviewed, scaffold, mappings, strict) ==
    LET known == ActiveIds(reviewed) \cup UpstreamIds(reviewed) IN
    /\ DOMAIN scaffold.plans # {}
    /\ \A c, d \in reviewed.courses : c.id = d.id => c = d
    /\ \A e, f \in reviewed.ledger : e.record = f.record => e = f
    /\ {e.record : e \in reviewed.ledger} \subseteq known
    /\ DOMAIN scaffold.assignments \subseteq known
    /\ DOMAIN mappings \subseteq known
    /\ strict => /\ reviewed.quarantine = {}
                 /\ AdmittedCourses(reviewed, scaffold, mappings) = reviewed.courses

\* Requirements are copied from the scaffold.  strict and of are history.
Materialised(reviewed, scaffold, mappings, strict) ==
    LET admitted == AdmittedCourses(reviewed, scaffold, mappings) IN
    [plans |-> scaffold.plans,
     courses |-> {Canonical(c, scaffold.assignments[c.id], mappings[c.id]) : c \in admitted},
     quarantine |-> {Refused(c.source, c.row, c.id) : c \in reviewed.courses \ admitted},
     upstream |-> reviewed.quarantine,
     strict |-> strict,
     of |-> reviewed.of]
===========================================================================
