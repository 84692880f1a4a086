------------------------ MODULE CurriculumPipeline ------------------------
(***************************************************************************)
(* From a document of the school to answers about courses: the files that  *)
(* operators edit, the scripts that read and write them, and the database  *)
(* at the end (ingest/pipeline.py, scripts/extract_catalog.py,             *)
(* scripts/review_catalog.py, scripts/materialize_catalog.py,              *)
(* build_database).  Every script reads its files, and on success replaces *)
(* its output in one step; each file may be older than what it was made    *)
(* from.  Documents change, and the digest the registry declares is what   *)
(* operators last wrote there: the extraction does not look at the bytes.  *)
(***************************************************************************)
EXTENDS AcademicTools, Sequences

CONSTANTS Documents,       \* Documents[s][v]: version v of document s
          Revised,         \* documents that change
          CatalogInputs,   \* sets of sources that the extraction is run on
          Reviewers,       \* entries that may be appended to the review ledger
          Scaffolds, MappingLedgers, SourceReviews, ChunkReviews,   \* what operators hand in
          InitFiles, InitAuthenticity,   \* when the curriculum work starts
          MaxEdits         \* bound on how often operators change what is there

\* The documents of a source are numbered, and so are their rows: None is no row.
ASSUME PipelineAssumption ==
    /\ Revised \subseteq Sources
    /\ \A ss \in CatalogInputs : ss \subseteq Sources
    /\ \A s \in Sources :
         /\ Len(Documents[s]) \in Nat /\ DOMAIN Documents[s] = 1..Len(Documents[s])
         /\ \A v \in DOMAIN Documents[s] : None \notin DOMAIN Documents[s][v].rows
    /\ \A f \in InitFiles : DOMAIN f = Sources /\ \A s \in Sources : f[s] \in DOMAIN Documents[s]

VARIABLES
    files,      \* version of each document on disk
    registry,   \* declared digest and authenticity of each source
    chunks,     \* chunk file, or None
    draft,      \* catalog draft, or None
    ledger,     \* review ledger of the records, append-only
    reviewed,   \* reviewed draft, or None
    catalog,    \* catalog, or None
    database,   \* academic database, or None
    edits,      \* how often operators have changed something
    parsed      \* history: cells read while the registry declared a digest

vars == <<files, registry, chunks, draft, ledger, reviewed, catalog, database, edits, parsed>>

Init ==
    /\ files \in InitFiles
    /\ registry = [s \in Sources |-> [sha |-> files[s], authenticity |-> InitAuthenticity[s]]]
    /\ ledger = <<>>
    /\ chunks = None /\ draft = None /\ reviewed = None /\ catalog = None /\ database = None
    /\ edits = 0
    /\ parsed = {}

OnDisk(s) == Documents[s][files[s]]
Edit == edits < MaxEdits /\ edits' = edits + 1

---------------------------------------------------------------------------
(* What operators do                                                       *)

\* The school publishes another version and it replaces the file.
ReviseDocument(s) ==
    /\ Edit
    /\ files[s] < Len(Documents[s])
    /\ files' = [files EXCEPT ![s] = @ + 1]
    /\ UNCHANGED <<registry, chunks, draft, ledger, reviewed, catalog, database, parsed>>

\* The registry is brought up to date with the file.
RegisterSource(s, authenticity) ==
    /\ Edit
    /\ registry' = [registry EXCEPT ![s] = [sha |-> files[s], authenticity |-> authenticity]]
    /\ registry' # registry
    /\ UNCHANGED <<files, chunks, draft, ledger, reviewed, catalog, database, parsed>>

\* No script writes "verified"; who judged the extraction of the chunks writes it.
AttestExtraction ==
    /\ Edit
    /\ chunks # None
    /\ chunks' = [s \in Sources |-> [chunks[s] EXCEPT !.quality = "verified"]]
    /\ UNCHANGED <<files, registry, draft, ledger, reviewed, catalog, database, parsed>>

\* A reviewer decides on a record of the draft.
AppendReview(entry) ==
    /\ Edit
    /\ draft # None
    /\ \E c \in draft.courses : c.id = entry.record
    /\ ledger' = Append(ledger, entry)
    /\ UNCHANGED <<files, registry, chunks, draft, reviewed, catalog, database, parsed>>

Operator ==
    \/ \E s \in Revised : ReviseDocument(s)
    \/ \E s \in Revised, a \in {"verified", "review_required", "unverified"} : RegisterSource(s, a)
    \/ AttestExtraction
    \/ \E entry \in Reviewers : AppendReview(entry)

---------------------------------------------------------------------------
(* What scripts do.  Files that only one script reads are its arguments.   *)

\* ingest_sources: chunks carry the declared digest and a quality that nobody confirmed.
IngestChunks ==
    /\ chunks' = [s \in Sources |-> [sha |-> registry[s].sha, quality |-> OnDisk(s).quality]]
    /\ UNCHANGED <<files, registry, draft, ledger, reviewed, catalog, database, edits, parsed>>

\* Cells that the extraction reads, as its records will say it.
Readings(ss) ==
    UNION {UNION {{[source |-> s, sha |-> registry[s].sha, row |-> n, field |-> f,
                    value |-> OnDisk(s).rows[n].cells[f]] : f \in CourseFields} :
                    n \in DOMAIN OnDisk(s).rows} : s \in ss}

\* ingest_catalog_draft on one set of documents.
ExtractDraft(ss, allowed) ==
    /\ \A s \in ss : Extractable(s, OnDisk(s), allowed)
    /\ draft' = Combined(ss, registry, [s \in ss |-> OnDisk(s)])
    /\ parsed' = parsed \cup Readings(ss)
    /\ UNCHANGED <<files, registry, chunks, ledger, reviewed, catalog, database, edits>>

\* scripts/review_catalog.py
ApplyReview ==
    /\ draft # None
    /\ LedgerApplies(draft, ledger)
    /\ reviewed' = Reviewed(draft, ledger)
    /\ UNCHANGED <<files, registry, chunks, draft, ledger, catalog, database, edits, parsed>>

\* scripts/materialize_catalog.py, with or without --fail-on-quarantine
Materialise(scaffold, mappings, strict) ==
    /\ reviewed # None
    /\ Materialises(reviewed, scaffold, mappings, strict)
    /\ catalog' = Materialised(reviewed, scaffold, mappings, strict)
    /\ UNCHANGED <<files, registry, chunks, draft, ledger, reviewed, database, edits, parsed>>

\* build_database, with the documents at hand or without them; they have to be there when
\* the operator names their directory.
BuildDatabase(present, rooted, decisions, chunkDecisions) ==
    LET observed == [s \in Sources |-> IF present THEN files[s] ELSE None] IN
    /\ catalog # None
    /\ Builds(catalog, registry, observed, rooted, chunks, decisions)
    /\ database' = Database(catalog, registry, observed, chunks, decisions, chunkDecisions)
    /\ UNCHANGED <<files, registry, chunks, draft, ledger, reviewed, catalog, edits, parsed>>

Script ==
    \/ IngestChunks
    \/ \E ss \in CatalogInputs, allowed \in BOOLEAN : ExtractDraft(ss, allowed)
    \/ ApplyReview
    \/ \E scaffold \in Scaffolds, mappings \in MappingLedgers, strict \in BOOLEAN :
          Materialise(scaffold, mappings, strict)
    \/ \E present, rooted \in BOOLEAN, decisions \in SourceReviews, chunkDecisions \in ChunkReviews :
          BuildDatabase(present, rooted, decisions, chunkDecisions)

Next == Operator \/ Script

Spec == Init /\ [][Next]_vars

---------------------------------------------------------------------------
(* Properties                                                              *)

\* A cell was read while the registry declared this digest of its document.
ReadAs(s, sha, n, f, v) ==
    [source |-> s, sha |-> sha, row |-> n, field |-> f, value |-> v] \in parsed

EditedTo(id, f, v) ==
    \E i \in DOMAIN ledger :
       /\ ledger[i].record = id
       /\ ledger[i].decision = "edit"
       /\ f \in DOMAIN ledger[i].updates
       /\ ledger[i].updates[f] = v

Approved(id) ==
    \E i \in DOMAIN ledger : ledger[i].record = id /\ ledger[i].decision \in {"approve", "edit"}

\* A course that the database calls verified went all the way: its document was included
\* by the source review, the extraction of its chunk was attested, a reviewer approved or
\* edited its record, and each of its values was read in its row while the registry
\* declared the digest that the database gives for the document, or written by a reviewer.
VerifiedIsReviewed ==
    database # None =>
      \A o \in database.offerings : o.status = "verified" =>
        LET c == o.course
            source == database.sources[c.title]
        IN /\ source.decision = "include"
           /\ database.sections[c.chunk].quality = "verified"
           /\ Approved(c.record)
           /\ \A f \in StrictFields :
                ReadAs(c.title, source.sha, c.row, f, c[f]) \/ EditedTo(c.record, f, c[f])

\* Every row of the documents that a catalog was made from is in one place: a course of the
\* catalog, the adapter's quarantine, or the quarantine of the extraction and the review.
\* When the operator asked for no quarantine, every row is a course.
NothingLost ==
    catalog # None =>
      \A s \in DOMAIN catalog.of : \A n \in DOMAIN catalog.of[s].rows :
        LET courses == {c \in catalog.courses : c.title = s /\ c.row = n}
            refused == {q \in catalog.quarantine : q.source = s /\ q.row = n}
            upstream == {q \in catalog.upstream : q.source = s /\ q.row \in {n, None}}
        IN /\ Cardinality(courses) + Cardinality(refused) + Cardinality(upstream) = 1
           /\ catalog.strict => courses # {}

Fields(row) == \A f \in DOMAIN row.fields : row.fields[f] = "verified"
VerifiedRow(row) == row.status = "verified" /\ Fields(row)

\* When the database calls itself ready, the tools answer about every program in force:
\* courses, requirements, audit and comparison are complete and trusted, and each row they
\* use is verified field by field.
ReadyIsAnswerable ==
    database # None /\ Ready(database) =>
      LET active == ActivePrograms(database) IN
      /\ \A p \in active :
           LET courses == CoursesPacket(database, ListCourses(database, p, {}))
               requirements == RequirementsPacket(database, p, {})
               audit == Audit(database, p, {o.course.code : o \in courses.rows})
           IN /\ courses.rows # {} /\ courses.trusted
              /\ requirements.complete /\ requirements.trusted
              /\ audit.complete /\ audit.trusted
              /\ {fact.module : fact \in audit.facts} = {r.module : r \in requirements.rows}
              /\ \A row \in courses.rows \cup requirements.rows : VerifiedRow(row)
      /\ LET comparison == Comparison(database, active, Dimensions)
         IN comparison.complete /\ comparison.trusted

\* The trust of an answer is read from the chunk and not from the row: in a database that
\* passes verify_dataset the two agree, for every row that cites a chunk.
TrustedIsVerified ==
    database # None /\ Verifies(database) =>
      \A p \in DOMAIN database.programs :
        LET courses == CoursesPacket(database, ListCourses(database, p, {}))
            requirements == RequirementsPacket(database, p, {})
        IN /\ courses.trusted => \A o \in courses.rows : VerifiedRow(o)
           /\ requirements.trusted =>
                \A r \in requirements.rows : r.required # None => VerifiedRow(r)
===========================================================================
