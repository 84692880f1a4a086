------------------------- MODULE AcademicDatabase -------------------------
(***************************************************************************)
(* The build of the academic database from the catalog, the registry, the  *)
(* chunks and two review ledgers (build_database in academic/database.py), *)
(* the readiness query of AcademicRepository and the checks of             *)
(* scripts/verify_dataset.py.                                              *)
(*                                                                         *)
(* The digest of a document is its version.  A source has one chunk, the   *)
(* table or the text, named by its source; chunks is None when there is no *)
(* chunk file.  Identifiers of rows are their keys.  Aliases, taxonomy and *)
(* the metadata of the database are left out.                              *)
(***************************************************************************)
EXTENDS CatalogMaterialization

CONSTANTS Current   \* sources that are in force

CourseStrict == StrictFields
RequirementStrict == {"module", "required_credits"}

---------------------------------------------------------------------------
(* Trust of sources and of their sections                                  *)

\* _materialize_sources.  observed is the digest of the file, None when it is not there.
SourceTrust(entry, observed, decision) ==
    [sha |-> IF observed # None THEN observed ELSE entry.sha,
     authenticity |->
        CASE entry.authenticity = "verified" /\ decision = "include" -> "verified"
          [] entry.authenticity = "unverified"
               \/ (entry.sha = None /\ observed = None) -> "unverified"
          [] OTHER -> "review_required",
     decision |-> decision]

\* The build goes on: a verified source has a digest, the declared digest is the one of the
\* file, and under an explicit root every source has both.
SourceAccepted(entry, observed, rooted) ==
    /\ entry.authenticity = "verified" => entry.sha # None
    /\ entry.sha # None /\ observed # None => entry.sha = observed
    /\ rooted => entry.sha # None /\ observed # None

\* _section_review_status: chunks come with "review_required".
SectionStatus(authenticity, quality, decision) ==
    CASE quality = "failed" -> "unverified"
      [] quality # "failed" /\ (authenticity # "verified" \/ quality # "verified")
           -> "review_required"
      [] OTHER -> IF decision \in {None, "include"} THEN "verified" ELSE "unverified"

\* _load_sections
Sections(chunks, trusts, decisions) ==
    IF chunks = None THEN [s \in {} |-> None]
    ELSE [s \in DOMAIN chunks |->
            [quality |-> chunks[s].quality,
             status |-> SectionStatus(trusts[s].authenticity, chunks[s].quality, decisions[s])]]

ChunksAccepted(chunks, trusts) ==
    chunks # None =>
      \A s \in DOMAIN chunks : chunks[s].sha # None => chunks[s].sha = trusts[s].sha

---------------------------------------------------------------------------
(* Trust of structured rows                                                *)

\* _structured_review_status: the status of the very chunk, of the very source.
BaseStatus(chunk, title, sections) ==
    CASE chunk = None -> "review_required"
      [] chunk # None /\ (chunk \notin DOMAIN sections \/ chunk # title) -> "unverified"
      [] OTHER -> sections[chunk].status

\* _span_covers_field_value: a number alone or with its own unit, a text only alone.
Covers(field, value, span) ==
    \/ value = None
    \/ /\ span.value = value
       /\ span.unit = "bare" \/ (field # "module" /\ span.unit = field)

\* Mutant: any witness of the chunk will do, whatever bytes it was taken from.
FieldStatusAnyBytes(w, field, value, chunk, base, trust) ==
    CASE /\ w.status = "verified" /\ base = "verified" /\ trust.authenticity = "verified"
         /\ chunk # None /\ w.chunk = chunk /\ Covers(field, value, w.span) -> "verified"
      [] base = "unverified" -> "unverified"
      [] OTHER -> "review_required"

\* One field of _field_verification_rows.
FieldStatus(w, field, value, chunk, base, trust) ==
    LET lineage == /\ trust.sha # None
                   /\ w.sha = trust.sha
                   /\ chunk # None
                   /\ w.chunk = chunk
                   /\ Covers(field, value, w.span)
    IN CASE w.status = "verified" /\ lineage /\ base = "verified"
              /\ trust.authenticity = "verified" -> "verified"
         [] base = "unverified" -> "unverified"
         [] OTHER -> "review_required"

\* Its result for the row, from the statuses of its fields.
RowStatus(base, statuses) ==
    CASE base = "unverified" -> "unverified"
      [] base = "verified" /\ (\A f \in DOMAIN statuses : statuses[f] = "verified") -> "verified"
      [] OTHER -> "review_required"

Offering(c, trusts, sections) ==
    LET base == BaseStatus(c.chunk, c.title, sections)
        value == [module |-> c.module, credits |-> c.credits, semester |-> c.semester]
        statuses == [f \in CourseStrict |->
                       FieldStatus(c.fields[f], f, value[f], c.chunk, base, trusts[c.title])]
    IN [course |-> c, fields |-> statuses, status |-> RowStatus(base, statuses)]

Requirement(p, title, m, row, trusts, sections) ==
    LET base == BaseStatus(row.chunk, title, sections)
        value == [module |-> m, required_credits |-> row.required]
        statuses == [f \in RequirementStrict |->
                       FieldStatus(row.fields[f], f, value[f], row.chunk, base, trusts[title])]
    IN [program |-> p, module |-> m, required |-> row.required, title |-> title,
        chunk |-> row.chunk, fields |-> statuses, status |-> RowStatus(base, statuses)]

\* Rows without a chunk, or not verified at all, stay out of the database.
Requirements(plans, trusts, sections) ==
    LET all == UNION {{Requirement(p, plans[p].title, m, plans[p].modules[m], trusts, sections) :
                         m \in DOMAIN plans[p].modules} : p \in DOMAIN plans}
    IN {r \in all : r.chunk # None /\ r.status # "unverified"}

---------------------------------------------------------------------------
(* The build                                                               *)

\* _reconcile_catalog_rows: one key, one payload.
Key(c) == <<c.program, c.module, c.code, c.semester>>
Reconciles(courses) == \A c, d \in courses : Key(c) = Key(d) => c = d

Trusts(registry, observed, decisions) ==
    [s \in DOMAIN registry |-> SourceTrust(registry[s], observed[s], decisions[s])]

\* Every chunk that a witness names is there: field_verifications has a foreign key.
CitedChunks(catalog) ==
    (UNION {{c.fields[f].chunk : f \in CourseStrict} : c \in catalog.courses})
      \cup UNION {UNION {{catalog.plans[p].modules[m].fields[f].chunk : f \in RequirementStrict} :
                            m \in DOMAIN catalog.plans[p].modules} : p \in DOMAIN catalog.plans}

Builds(catalog, registry, observed, rooted, chunks, decisions) ==
    /\ Reconciles(catalog.courses)
    /\ \A s \in DOMAIN registry : SourceAccepted(registry[s], observed[s], rooted)
    /\ ChunksAccepted(chunks, Trusts(registry, observed, decisions))
    /\ \A c \in catalog.courses : c.program \in DOMAIN catalog.plans
    /\ CitedChunks(catalog) \ {None} \subseteq (IF chunks = None THEN {} ELSE DOMAIN chunks)

\* The database, with the catalog it was built from as history.
Database(catalog, registry, observed, chunks, decisions, chunkDecisions) ==
    LET trusts == Trusts(registry, observed, decisions)
        sections == Sections(chunks, trusts, chunkDecisions)
    IN [sources |-> trusts,
        sections |-> sections,
        programs |-> [p \in DOMAIN catalog.plans |-> catalog.plans[p].title],
        requirements |-> Requirements(catalog.plans, trusts, sections),
        offerings |-> {Offering(c, trusts, sections) : c \in catalog.courses},
        catalog |-> catalog]

---------------------------------------------------------------------------
(* AcademicRepository.evidence_readiness                                   *)

\* The chunk is in the database, of the row's source, and all there is about it verified.
SoundChunk(db, chunk, title) ==
    /\ chunk \in DOMAIN db.sections
    /\ chunk = title
    /\ db.sections[chunk].status = "verified"
    /\ db.sources[chunk].authenticity = "verified"
    /\ db.sections[chunk].quality = "verified"

Sound(db, row, chunk, title) ==
    /\ row.status = "verified"
    /\ SoundChunk(db, chunk, title)
    /\ \A f \in DOMAIN row.fields : row.fields[f] = "verified"

SoundOffering(db, o) == Sound(db, o, o.course.chunk, o.course.title)
SoundRequirement(db, r) == r.required # None /\ Sound(db, r, r.chunk, r.title)

ActivePrograms(db) == {p \in DOMAIN db.programs : db.programs[p] \in Current}
OfferingsOf(db, p) == {o \in db.offerings : o.course.program = p}
RequirementsOf(db, p) == {r \in db.requirements : r.program = p}

\* Mutant: some course of the program is enough.
AnswerableInPart(db, p) ==
    /\ \E o \in OfferingsOf(db, p) : SoundOffering(db, o)
    /\ \E r \in RequirementsOf(db, p) : SoundRequirement(db, r)

Answerable(db, p) ==
    /\ db.sources[db.programs[p]].authenticity = "verified"
    /\ OfferingsOf(db, p) # {}
    /\ \A o \in OfferingsOf(db, p) : SoundOffering(db, o)
    /\ RequirementsOf(db, p) # {}
    /\ \A r \in RequirementsOf(db, p) : SoundRequirement(db, r)

\* A chunk of a policy in force that no structured row cites.
PolicyChunk(db, s) ==
    /\ SoundChunk(db, s, s)
    /\ s \in Current
    /\ DocType[s] \in {"policy", "notice", "guide"}
    /\ \A o \in db.offerings : o.course.chunk # s
    /\ \A r \in db.requirements : r.chunk # s

Ready(db) ==
    /\ \E s \in DOMAIN db.sections : PolicyChunk(db, s)
    /\ \E o \in db.offerings : SoundOffering(db, o)
    /\ \E r \in db.requirements : SoundRequirement(db, r)
    /\ ActivePrograms(db) # {}
    /\ \A p \in ActivePrograms(db) : Answerable(db, p)

---------------------------------------------------------------------------
(* scripts/verify_dataset.py: what build_all asks of a database            *)

\* Mutant: the status of the row is not compared with that of its chunk.
StatusUnchecked(db, status, chunk, title) ==
    chunk # None => chunk \in DOMAIN db.sections /\ chunk = title

\* A row that cites a chunk has that chunk, of its own source, with its own status.
StatusMatches(db, status, chunk, title) ==
    chunk # None => /\ chunk \in DOMAIN db.sections
                    /\ chunk = title
                    /\ db.sections[chunk].status = status

Verifies(db) ==
    /\ \A o, q \in db.offerings :
         /\ o.course.program = q.course.program
         /\ o.course.module = q.course.module
         /\ o.course.code = q.course.code
         /\ o.course.semester = q.course.semester
         => o = q
    /\ \A o \in db.offerings :
         /\ o.course.credits > 0
         /\ o.course.semester \in 1..8
         /\ StatusMatches(db, o.status, o.course.chunk, o.course.title)
         /\ o.status = "verified" => \A f \in CourseStrict : o.fields[f] = "verified"
    /\ \A r \in db.requirements :
         /\ StatusMatches(db, r.status, r.chunk, r.title)
         /\ r.required # None =>
              /\ r.status = "verified"
              /\ \A f \in RequirementStrict : r.fields[f] = "verified"
===========================================================================
