-------------------------- MODULE CatalogReview --------------------------
(***************************************************************************)
(* Extraction of draft courses from registered documents and their review  *)
(* (ingest/catalog.py).                                                    *)
(*                                                                         *)
(* A document holds one table of courses: whether its headers name every   *)
(* column once, what the quality ledger says of it, and its rows, each     *)
(* with the cells as the parser read them.  "" is a text that does not     *)
(* normalise.  The fields name and nature behave as module does and are    *)
(* left out.                                                               *)
(***************************************************************************)
EXTENDS Integers

CONSTANTS Sources,   \* documents in the registry
          DocType,   \* their types
          None

CourseFields == {"code", "module", "credits", "semester"}
CatalogTypes == {"curriculum", "course_catalog"}

Normalises(field, value) ==
    CASE field = "credits"  -> 0 < value /\ value <= 50
      [] field = "semester" -> value \in 1..16
      [] OTHER              -> value # ""

\* The columns are found, the row is not ragged and every cell normalises.
Readable(row) == row.whole /\ \A f \in CourseFields : Normalises(f, row.cells[f])

\* The identifier of a record binds neither the digest of the document nor the values.
RecordId(s, n, row) == <<s, n, row.cells["code"]>>

\* One draft record; context is what the registry said of the source.  The source cell
\* of each field is kept next to its value, and edits add the reviewer's value to it.
CourseRecord(s, entry, doc, n) ==
    [id |-> RecordId(s, n, doc.rows[n]), source |-> s, row |-> n, context |-> entry,
     raw |-> doc.rows[n].cells, values |-> doc.rows[n].cells,
     reviewer |-> [f \in CourseFields |-> {}],
     quality |-> doc.quality, status |-> "review_required"]

\* Courses with one code and other values.
Disagree(c, d) == c.values["code"] = d.values["code"] /\ c.values # d.values

Refused(s, n, id) == [source |-> s, row |-> n, record |-> id]

\* Mutant: of rows that contradict each other the first one stays and the others vanish.
DraftedFirstWins(s, entry, doc) ==
    LET read == {CourseRecord(s, entry, doc, n) : n \in {m \in DOMAIN doc.rows : Readable(doc.rows[m])}}
    IN IF DocType[s] \notin CatalogTypes \/ ~doc.columns
         THEN [courses |-> {}, quarantine |-> {Refused(s, None, None)}]
         ELSE [courses |-> {c \in read : \A d \in read : Disagree(c, d) => c.row < d.row},
               quarantine |-> {Refused(s, n, None) : n \in {m \in DOMAIN doc.rows : ~Readable(doc.rows[m])}}]

\* extract_catalog_draft: the courses and what was kept out of them.  A quarantine
\* entry with row None stands for the document as a whole.
Drafted(s, entry, doc) ==
    LET read == {CourseRecord(s, entry, doc, n) : n \in {m \in DOMAIN doc.rows : Readable(doc.rows[m])}}
        conflicting == {c \in read : \E d \in read : Disagree(c, d)}
        unreadable == {n \in DOMAIN doc.rows : ~Readable(doc.rows[n])}
    IN IF DocType[s] \notin CatalogTypes \/ ~doc.columns
         THEN [courses |-> {}, quarantine |-> {Refused(s, None, None)}]
         ELSE [courses |-> read \ conflicting,
               quarantine |-> {Refused(s, n, None) : n \in unreadable}
                                \cup {Refused(s, c.row, c.id) : c \in conflicting}]

\* A table that a critical page lost stops the extraction unless the operator allows it.
Extractable(s, doc, allowed) == DocType[s] \in CatalogTypes /\ doc.critical => allowed

\* combine_catalog_drafts: no check across the documents.  of is history: what was read.
Combined(ss, registry, docs) ==
    [courses |-> UNION {Drafted(s, registry[s], docs[s]).courses : s \in ss},
     quarantine |-> UNION {Drafted(s, registry[s], docs[s]).quarantine : s \in ss},
     of |-> [s \in ss |-> docs[s]]]

---------------------------------------------------------------------------
(***************************************************************************)
(* The review ledger: a sequence of entries about records, of which one    *)
(* record has at most one.  updates is a function on the edited fields.    *)
(***************************************************************************)
Decisions == {"approve", "edit", "quarantine"}
Entries(ledger) == {ledger[i] : i \in DOMAIN ledger}

\* apply_review_ledger does not raise for an entry about course c.
Admissible(e, c) ==
    /\ c.quality = "failed" => e.decision = "quarantine"
    /\ e.decision = "approve" => DOMAIN e.updates = {}
    /\ e.decision = "edit" =>
         DOMAIN e.updates # {} /\ \A f \in DOMAIN e.updates : Normalises(f, e.updates[f])

\* What an entry that approves or edits makes of the record.
Decided(c, e) ==
    [c EXCEPT !.status = "verified",
              !.values = [f \in CourseFields |->
                            IF e.decision = "edit" /\ f \in DOMAIN e.updates
                              THEN e.updates[f] ELSE c.values[f]],
              !.reviewer = [f \in CourseFields |->
                            IF e.decision = "edit" /\ f \in DOMAIN e.updates
                              THEN c.reviewer[f] \cup {e.updates[f]} ELSE c.reviewer[f]]]

About(entries, c) == {e \in entries : e.record = c.id}
QuarantinedBy(entries, c) == \E e \in About(entries, c) : e.decision = "quarantine"

\* Records that remain: untouched ones as they were, the others as decided.
Active(draft, entries) ==
    {c \in draft.courses : About(entries, c) = {}}
      \cup UNION {{Decided(c, e) : e \in About(entries, c)} :
                    c \in {d \in draft.courses : ~QuarantinedBy(entries, d)}}

LedgerApplies(draft, ledger) ==
    /\ \A c, d \in draft.courses : c.id = d.id => c = d
    /\ \A i, j \in DOMAIN ledger : ledger[i].record = ledger[j].record => i = j
    /\ \A e \in Entries(ledger) : \E c \in draft.courses : c.id = e.record /\ Admissible(e, c)
    /\ \A c, d \in Active(draft, Entries(ledger)) : ~Disagree(c, d)

Reviewed(draft, ledger) ==
    [courses |-> Active(draft, Entries(ledger)),
     quarantine |-> draft.quarantine
        \cup {Refused(c.source, c.row, c.id) :
                c \in {d \in draft.courses : QuarantinedBy(Entries(ledger), d)}},
     ledger |-> Entries(ledger),
     of |-> draft.of]
===========================================================================
