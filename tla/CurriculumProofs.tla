------------------------- MODULE CurriculumProofs -------------------------
(***************************************************************************)
(* Theorems about CurriculumPipeline, for any documents, reviewers,        *)
(* scaffolds, mapping ledgers and order of scripts and edits:              *)
(*  - a verified course is a reviewed one.  The invariant follows the      *)
(*    values of a record through the files: what the draft says was read,  *)
(*    what the reviewed draft says was read or edited, and what the        *)
(*    catalog says was moreover approved under the digest its witnesses    *)
(*    name;                                                                *)
(*  - what the tools trust is verified, and a database that calls itself   *)
(*    ready is answerable: both from what a build makes of a row;          *)
(*  - no row is lost.  The invariant says of draft and reviewed draft that *)
(*    each row is one course or one entry of the quarantine.               *)
(***************************************************************************)
EXTENDS CurriculumPipeline, FiniteSetTheorems, TLAPS

DraftWasRead ==
    draft # None =>
      \A c \in draft.courses, f \in CourseFields :
         ReadAs(c.source, c.context.sha, c.row, f, c.values[f])

ReviewedIsJustified ==
    reviewed # None =>
      /\ \A e \in reviewed.ledger : \E i \in DOMAIN ledger : e = ledger[i]
      /\ \A c \in reviewed.courses, f \in CourseFields :
            \/ ReadAs(c.source, c.context.sha, c.row, f, c.values[f])
            \/ EditedTo(c.id, f, c.values[f])

CatalogIsJustified ==
    catalog # None =>
      \A c \in catalog.courses :
         /\ Approved(c.record)
         /\ \A f \in StrictFields :
              \/ ReadAs(c.title, c.fields[f].sha, c.row, f, c[f])
              \/ EditedTo(c.record, f, c[f])

Justified ==
    /\ ledger \in Seq(Reviewers)
    /\ DraftWasRead
    /\ ReviewedIsJustified
    /\ CatalogIsJustified
    /\ VerifiedIsReviewed

\* The registry and the chunk file are about the registered documents.
InRegistry == DOMAIN registry = Sources /\ (chunks # None => DOMAIN chunks = Sources)

---------------------------------------------------------------------------
(* What later steps leave standing                                         *)

\* The ledger and the history only grow.
Grows == /\ parsed \subseteq parsed'
         /\ \A i \in DOMAIN ledger : i \in DOMAIN ledger' /\ ledger'[i] = ledger[i]

\* What was read stays read.
LEMMA ReadStays ==
    ASSUME Grows, NEW s, NEW sha, NEW n, NEW f, NEW v, ReadAs(s, sha, n, f, v)
    PROVE  ReadAs(s, sha, n, f, v)'
BY DEF Grows, ReadAs

\* What a reviewer wrote stays in the ledger.
LEMMA EditStays ==
    ASSUME Grows, NEW id, NEW f, NEW v, EditedTo(id, f, v)
    PROVE  EditedTo(id, f, v)'
BY DEF Grows, EditedTo

\* An approval stays in the ledger.
LEMMA ApprovalStays ==
    ASSUME Grows, NEW id, Approved(id)
    PROVE  Approved(id)'
BY DEF Grows, Approved

\* The draft is justified until it is written again.
LEMMA DraftStays ==
    ASSUME Grows, DraftWasRead, draft' = draft
    PROVE  DraftWasRead'
BY ReadStays DEF DraftWasRead

\* The reviewed draft is justified until it is written again.
LEMMA ReviewedStays ==
    ASSUME Grows, ReviewedIsJustified, reviewed' = reviewed
    PROVE  ReviewedIsJustified'
<1>1. SUFFICES ASSUME reviewed # None
               PROVE  /\ \A e \in reviewed.ledger : \E i \in DOMAIN ledger' : e = ledger'[i]
                      /\ \A c \in reviewed.courses, f \in CourseFields :
                            \/ ReadAs(c.source, c.context.sha, c.row, f, c.values[f])'
                            \/ EditedTo(c.id, f, c.values[f])'
  BY DEF ReviewedIsJustified
<1>2. \A e \in reviewed.ledger : \E i \in DOMAIN ledger' : e = ledger'[i]
  BY <1>1 DEF ReviewedIsJustified, Grows
<1>3. \A c \in reviewed.courses, f \in CourseFields :
         \/ ReadAs(c.source, c.context.sha, c.row, f, c.values[f])'
         \/ EditedTo(c.id, f, c.values[f])'
  BY <1>1, ReadStays, EditStays DEF ReviewedIsJustified
<1> QED BY <1>2, <1>3

\* The catalog is justified until it is written again.
LEMMA CatalogStays ==
    ASSUME Grows, CatalogIsJustified, catalog' = catalog
    PROVE  CatalogIsJustified'
BY ReadStays, EditStays, ApprovalStays DEF CatalogIsJustified

\* The verified rows of the database are justified until it is built again.
LEMMA VerifiedStays ==
    ASSUME Grows, VerifiedIsReviewed, database' = database
    PROVE  VerifiedIsReviewed'
BY ReadStays, EditStays, ApprovalStays DEF VerifiedIsReviewed

---------------------------------------------------------------------------
(* What the operators of the files do                                      *)

\* What the extraction puts into a draft it has just read.
LEMMA DraftedIsRead ==
    ASSUME NEW ss, NEW s \in ss, NEW c \in Drafted(s, registry[s], OnDisk(s)).courses,
           NEW f \in CourseFields
    PROVE  [source |-> c.source, sha |-> c.context.sha, row |-> c.row, field |-> f,
            value |-> c.values[f]] \in Readings(ss)
<1> DEFINE doc == OnDisk(s)
           read == {CourseRecord(s, registry[s], doc, n) :
                       n \in {m \in DOMAIN doc.rows : Readable(doc.rows[m])}}
<1>1. c \in read
  BY DEF Drafted
<1>2. PICK n \in DOMAIN doc.rows : c = CourseRecord(s, registry[s], doc, n)
  BY <1>1
<1>3. /\ c.source = s
      /\ c.context.sha = registry[s].sha
      /\ c.row = n
      /\ c.values[f] = doc.rows[n].cells[f]
  BY <1>2 DEF CourseRecord
<1>4. [source |-> s, sha |-> registry[s].sha, row |-> n, field |-> f,
       value |-> doc.rows[n].cells[f]] \in Readings(ss)
  BY DEF Readings
<1> QED BY <1>3, <1>4

\* The values of a reviewed record are those of the draft or an edit's.
LEMMA ActiveIsJustified ==
    ASSUME NEW entries, NEW c \in Active(draft, entries), NEW f \in CourseFields
    PROVE  \E d \in draft.courses :
             /\ c.id = d.id /\ c.source = d.source /\ c.row = d.row /\ c.context = d.context
             /\ \/ c.values[f] = d.values[f]
                \/ \E e \in entries : /\ e.record = d.id
                                      /\ e.decision = "edit"
                                      /\ f \in DOMAIN e.updates
                                      /\ e.updates[f] = c.values[f]
<1>1. CASE c \in draft.courses
  BY <1>1
<1>2. CASE c \notin draft.courses
  <2>1. PICK d \in draft.courses : \E e \in About(entries, d) : c = Decided(d, e)
    BY <1>2 DEF Active
  <2>2. PICK e \in About(entries, d) : c = Decided(d, e)
    BY <2>1
  <2>3. /\ c.id = d.id /\ c.source = d.source /\ c.row = d.row /\ c.context = d.context
        /\ c.values[f] = IF e.decision = "edit" /\ f \in DOMAIN e.updates
                           THEN e.updates[f] ELSE d.values[f]
    BY <2>2 DEF Decided
  <2> QED BY <2>2, <2>3 DEF About
<1> QED BY <1>1, <1>2

\* What the adapter admits was approved, and its witnesses name the digest of the record.
LEMMA CanonicalIsJustified ==
    ASSUME NEW scaffold, NEW mappings, NEW strict,
           NEW c \in Materialised(reviewed, scaffold, mappings, strict).courses, NEW f \in StrictFields
    PROVE  \E d \in reviewed.courses :
             /\ c.record = d.id /\ c.title = d.source /\ c.row = d.row
             /\ c.fields[f].sha = d.context.sha
             /\ c[f] = d.values[f]
             /\ \E e \in reviewed.ledger : e.record = d.id /\ e.decision \in {"approve", "edit"}
<1>1. PICK d \in AdmittedCourses(reviewed, scaffold, mappings) :
         c = Canonical(d, scaffold.assignments[d.id], mappings[d.id])
  BY DEF Materialised
<1> DEFINE a == scaffold.assignments[d.id]
           mapping == mappings[d.id]
<1>2. d \in reviewed.courses /\ Admitted(d, reviewed, scaffold, mappings)
  BY DEF AdmittedCourses
<1>3. \E e \in reviewed.ledger : e.record = d.id /\ e.decision \in {"approve", "edit"}
  BY <1>2 DEF Admitted, About
<1>4. Assigned(d, a, scaffold.plans) /\ WitnessesCell(d, mapping, f)
  BY <1>2 DEF Admitted, Evidenced
<1>5. /\ c.record = d.id /\ c.title = a.title /\ c.row = mapping.row
      /\ c.fields = mapping.fields
      /\ c["module"] = a.module /\ c["credits"] = d.values["credits"]
      /\ c["semester"] = d.values["semester"]
  BY <1>1 DEF Canonical
<1>6. a.title = d.source /\ d.values["module"] = a.module
  BY <1>4 DEF Assigned
<1>7. mapping.fields[f].sha = d.context.sha /\ mapping.row = d.row
  BY <1>4 DEF WitnessesCell
<1>8. c[f] = d.values[f]
  BY <1>5, <1>6 DEF StrictFields
<1> QED BY <1>2, <1>3, <1>5, <1>6, <1>7, <1>8

\* What makes the builder call an offering verified.
LEMMA VerifiedOffering ==
    ASSUME NEW trusts, NEW sections, NEW c, Offering(c, trusts, sections).status = "verified"
    PROVE  /\ sections[c.chunk].status = "verified"
           /\ c.chunk \in DOMAIN sections /\ c.chunk = c.title
           /\ \A f \in StrictFields : /\ c.fields[f].sha = trusts[c.title].sha
                                      /\ trusts[c.title].authenticity = "verified"
<1> DEFINE base == BaseStatus(c.chunk, c.title, sections)
           value == [module |-> c.module, credits |-> c.credits, semester |-> c.semester]
           statuses == [f \in CourseStrict |->
                          FieldStatus(c.fields[f], f, value[f], c.chunk, base, trusts[c.title])]
<1>1. RowStatus(base, statuses) = "verified"
  BY DEF Offering
<1>2. base = "verified" /\ \A f \in CourseStrict : statuses[f] = "verified"
  <2> HIDE DEF base, statuses
  <2> QED BY <1>1, DOMAIN statuses = CourseStrict DEF RowStatus, statuses
<1>3. /\ sections[c.chunk].status = "verified"
      /\ c.chunk \in DOMAIN sections /\ c.chunk = c.title
  BY <1>2 DEF BaseStatus
<1>4. ASSUME NEW f \in CourseStrict
      PROVE  c.fields[f].sha = trusts[c.title].sha /\ trusts[c.title].authenticity = "verified"
  <2>1. FieldStatus(c.fields[f], f, value[f], c.chunk, base, trusts[c.title]) = "verified"
    BY <1>2
  <2> HIDE DEF base, value
  <2> QED BY <2>1, <1>2 DEF FieldStatus
<1> QED BY <1>3, <1>4 DEF CourseStrict

\* A section is verified only if its own review says so.
LEMMA VerifiedSection ==
    ASSUME NEW authenticity, NEW quality, NEW decision,
           SectionStatus(authenticity, quality, decision) = "verified"
    PROVE  quality = "verified"
BY DEF SectionStatus

\* A source is authentic only if it is included (database.py, the trust of sources).
LEMMA VerifiedSource ==
    ASSUME NEW entry, NEW observed, NEW decision,
           SourceTrust(entry, observed, decision).authenticity = "verified"
    PROVE  decision = "include"
BY DEF SourceTrust

---------------------------------------------------------------------------
(* The steps                                                               *)

\* Steps that write none of the files of the invariant keep it.
LEMMA Untouched ==
    ASSUME Justified, UNCHANGED <<draft, ledger, reviewed, catalog, database, parsed>>
    PROVE  Justified'
<1>1. Grows
  BY DEF Grows
<1>2. (ledger \in Seq(Reviewers))'
  BY DEF Justified
<1>3. DraftWasRead' /\ ReviewedIsJustified' /\ CatalogIsJustified' /\ VerifiedIsReviewed'
  BY <1>1, DraftStays, ReviewedStays, CatalogStays, VerifiedStays DEF Justified
<1> QED BY <1>2, <1>3 DEF Justified

\* A review that is added to the ledger takes nothing away.
LEMMA AppendReviewStep ==
    ASSUME Justified, NEW entry \in Reviewers, AppendReview(entry)
    PROVE  Justified'
<1>1. ledger \in Seq(Reviewers) /\ ledger' = Append(ledger, entry) /\ parsed' = parsed
  BY DEF Justified, AppendReview
<1>2. Grows
  BY <1>1 DEF Grows
<1>3. (ledger \in Seq(Reviewers))'
  BY <1>1
<1>4. UNCHANGED <<draft, reviewed, catalog, database>>
  BY DEF AppendReview
<1>5. DraftWasRead' /\ ReviewedIsJustified' /\ CatalogIsJustified' /\ VerifiedIsReviewed'
  BY <1>2, <1>4, DraftStays, ReviewedStays, CatalogStays, VerifiedStays DEF Justified
<1> QED BY <1>3, <1>5 DEF Justified

\* The extraction writes down what it reads.
LEMMA ExtractDraftStep ==
    ASSUME Justified, NEW ss, NEW allowed, ExtractDraft(ss, allowed)
    PROVE  Justified'
<1>1. parsed' = parsed \cup Readings(ss) /\ ledger' = ledger
  BY DEF ExtractDraft
<1>2. Grows
  BY <1>1 DEF Grows
<1>3. (ledger \in Seq(Reviewers))'
  BY <1>1 DEF Justified
<1>4. UNCHANGED <<reviewed, catalog, database>>
  BY DEF ExtractDraft
<1>5. ReviewedIsJustified' /\ CatalogIsJustified' /\ VerifiedIsReviewed'
  BY <1>2, <1>4, ReviewedStays, CatalogStays, VerifiedStays DEF Justified
<1>6. DraftWasRead'
  <2>1. SUFFICES ASSUME NEW c \in draft'.courses, NEW f \in CourseFields
                 PROVE  [source |-> c.source, sha |-> c.context.sha, row |-> c.row, field |-> f,
                         value |-> c.values[f]] \in Readings(ss)
    BY <1>1 DEF DraftWasRead, ReadAs
  <2>2. draft'.courses = UNION {Drafted(s, registry[s], OnDisk(s)).courses : s \in ss}
    BY DEF ExtractDraft, Combined
  <2>3. PICK s \in ss : c \in Drafted(s, registry[s], OnDisk(s)).courses
    BY <2>2
  <2> QED BY <2>3, DraftedIsRead
<1> QED BY <1>3, <1>5, <1>6 DEF Justified

\* A review replaces values only by those of its ledger.
LEMMA ApplyReviewStep ==
    ASSUME Justified, ApplyReview
    PROVE  Justified'
<1>1. Grows
  BY DEF Grows, ApplyReview
<1>2. (ledger \in Seq(Reviewers))'
  BY DEF Justified, ApplyReview
<1>3. UNCHANGED <<draft, catalog, database>>
  BY DEF ApplyReview
<1>4. DraftWasRead' /\ CatalogIsJustified' /\ VerifiedIsReviewed'
  BY <1>1, <1>3, DraftStays, CatalogStays, VerifiedStays DEF Justified
<1>5. ReviewedIsJustified'
  <2>1. /\ reviewed'.courses = Active(draft, Entries(ledger))
        /\ reviewed'.ledger = Entries(ledger)
        /\ UNCHANGED <<ledger, parsed>>
        /\ draft # None
    BY DEF ApplyReview, Reviewed
  <2>2. \A e \in reviewed'.ledger : \E i \in DOMAIN ledger' : e = ledger'[i]
    BY <2>1 DEF Entries
  <2>3. ASSUME NEW c \in Active(draft, Entries(ledger)), NEW f \in CourseFields
        PROVE  \/ ReadAs(c.source, c.context.sha, c.row, f, c.values[f])
               \/ EditedTo(c.id, f, c.values[f])
    <3>1. PICK d \in draft.courses :
             /\ c.id = d.id /\ c.source = d.source /\ c.row = d.row /\ c.context = d.context
             /\ \/ c.values[f] = d.values[f]
                \/ \E e \in Entries(ledger) : /\ e.record = d.id
                                              /\ e.decision = "edit"
                                              /\ f \in DOMAIN e.updates
                                              /\ e.updates[f] = c.values[f]
      BY ActiveIsJustified
    <3>2. ReadAs(d.source, d.context.sha, d.row, f, d.values[f])
      BY <2>1 DEF Justified, DraftWasRead
    <3>3. CASE c.values[f] = d.values[f]
      BY <3>1, <3>2, <3>3
    <3>4. CASE \E e \in Entries(ledger) : /\ e.record = d.id
                                          /\ e.decision = "edit"
                                          /\ f \in DOMAIN e.updates
                                          /\ e.updates[f] = c.values[f]
      BY <3>1, <3>4 DEF Entries, EditedTo
    <3> QED BY <3>1, <3>3, <3>4
  <2>4. \A c \in reviewed'.courses, f \in CourseFields :
           \/ ReadAs(c.source, c.context.sha, c.row, f, c.values[f])'
           \/ EditedTo(c.id, f, c.values[f])'
    BY <2>1, <2>3, <1>1, ReadStays, EditStays
  <2> QED BY <2>2, <2>4 DEF ReviewedIsJustified
<1> QED BY <1>2, <1>4, <1>5 DEF Justified

\* The catalog holds approved records, under the digests of their witnesses.
LEMMA MaterialiseStep ==
    ASSUME Justified, NEW scaffold, NEW mappings, NEW strict,
           Materialise(scaffold, mappings, strict)
    PROVE  Justified'
<1>1. Grows
  BY DEF Grows, Materialise
<1>2. (ledger \in Seq(Reviewers))'
  BY DEF Justified, Materialise
<1>3. UNCHANGED <<draft, reviewed, database>>
  BY DEF Materialise
<1>4. DraftWasRead' /\ ReviewedIsJustified' /\ VerifiedIsReviewed'
  BY <1>1, <1>3, DraftStays, ReviewedStays, VerifiedStays DEF Justified
<1>5. CatalogIsJustified'
  <2>1. reviewed # None /\ catalog' = Materialised(reviewed, scaffold, mappings, strict)
    BY DEF Materialise
  <2>2. ASSUME NEW c \in Materialised(reviewed, scaffold, mappings, strict).courses,
               NEW f \in StrictFields
        PROVE  /\ Approved(c.record)
               /\ \/ ReadAs(c.title, c.fields[f].sha, c.row, f, c[f])
                  \/ EditedTo(c.record, f, c[f])
    <3>1. PICK d \in reviewed.courses :
             /\ c.record = d.id /\ c.title = d.source /\ c.row = d.row
             /\ c.fields[f].sha = d.context.sha
             /\ c[f] = d.values[f]
             /\ \E e \in reviewed.ledger : e.record = d.id /\ e.decision \in {"approve", "edit"}
      BY CanonicalIsJustified
    <3>2. Approved(c.record)
      BY <3>1, <2>1 DEF Justified, ReviewedIsJustified, Approved
    <3>3. \/ ReadAs(d.source, d.context.sha, d.row, f, d.values[f])
          \/ EditedTo(d.id, f, d.values[f])
      BY <2>1, f \in CourseFields
      DEF Justified, ReviewedIsJustified, StrictFields, CourseFields
    <3> QED BY <3>1, <3>2, <3>3
  <2>3. "module" \in StrictFields
    BY DEF StrictFields
  <2>4. ASSUME NEW c \in catalog'.courses
        PROVE  /\ Approved(c.record)'
               /\ \A f \in StrictFields :
                    \/ ReadAs(c.title, c.fields[f].sha, c.row, f, c[f])'
                    \/ EditedTo(c.record, f, c[f])'
    BY <1>1, <2>1, <2>2, <2>3, ReadStays, EditStays, ApprovalStays
  <2> QED BY <2>4 DEF CatalogIsJustified
<1> QED BY <1>2, <1>4, <1>5 DEF Justified

\* The build calls a course verified only after the catalog's witnesses, its section and its source.
LEMMA BuildDatabaseStep ==
    ASSUME Justified, InRegistry, NEW present, NEW rooted, NEW decisions, NEW chunkDecisions,
           BuildDatabase(present, rooted, decisions, chunkDecisions)
    PROVE  Justified'
<1> DEFINE observed == [s \in Sources |-> IF present THEN files[s] ELSE None]
           trusts == Trusts(registry, observed, decisions)
           sections == Sections(chunks, trusts, chunkDecisions)
<1>1. Grows
  BY DEF Grows, BuildDatabase
<1>2. (ledger \in Seq(Reviewers))'
  BY DEF Justified, BuildDatabase
<1>3. UNCHANGED <<draft, reviewed, catalog>>
  BY DEF BuildDatabase
<1>4. DraftWasRead' /\ ReviewedIsJustified' /\ CatalogIsJustified'
  BY <1>1, <1>3, DraftStays, ReviewedStays, CatalogStays DEF Justified
<1>5. VerifiedIsReviewed'
  <2>1. /\ database'.sources = trusts
        /\ database'.sections = sections
        /\ database'.offerings = {Offering(c, trusts, sections) : c \in catalog.courses}
        /\ catalog # None
    BY DEF BuildDatabase, Database
  <2>2. ASSUME NEW c \in catalog.courses, Offering(c, trusts, sections).status = "verified"
        PROVE  /\ trusts[c.title].decision = "include"
               /\ sections[c.chunk].quality = "verified"
               /\ Approved(c.record)
               /\ \A f \in StrictFields :
                    \/ ReadAs(c.title, trusts[c.title].sha, c.row, f, c[f])
                    \/ EditedTo(c.record, f, c[f])
    <3>1. /\ sections[c.chunk].status = "verified"
          /\ c.chunk \in DOMAIN sections /\ c.chunk = c.title
          /\ \A f \in StrictFields : /\ c.fields[f].sha = trusts[c.title].sha
                                     /\ trusts[c.title].authenticity = "verified"
      <4> HIDE DEF trusts, sections
      <4> QED BY <2>2, VerifiedOffering
    <3>2. chunks # None /\ c.chunk \in DOMAIN chunks
      <4> HIDE DEF trusts
      <4> QED BY <3>1 DEF Sections
    <3>3. c.title \in Sources
      BY <3>1, <3>2 DEF InRegistry
    <3>4. sections[c.chunk].quality = "verified"
      <4>1. sections[c.chunk] =
              [quality |-> chunks[c.chunk].quality,
               status |-> SectionStatus(trusts[c.chunk].authenticity, chunks[c.chunk].quality,
                                        chunkDecisions[c.chunk])]
        <5> HIDE DEF trusts
        <5> QED BY <3>2 DEF Sections
      <4> HIDE DEF trusts, sections
      <4> QED BY <4>1, <3>1, VerifiedSection
    <3>5. trusts[c.title].decision = "include"
      <4>1. trusts[c.title] = SourceTrust(registry[c.title], observed[c.title], decisions[c.title])
        BY <3>3 DEF InRegistry, Trusts
      <4>2. trusts[c.title].authenticity = "verified"
        BY <3>1 DEF StrictFields
      <4>3. trusts[c.title].decision = decisions[c.title]
        BY <4>1 DEF SourceTrust
      <4> HIDE DEF trusts, observed
      <4> QED BY <4>1, <4>2, <4>3, VerifiedSource
    <3>6. /\ Approved(c.record)
          /\ \A f \in StrictFields :
               \/ ReadAs(c.title, c.fields[f].sha, c.row, f, c[f])
               \/ EditedTo(c.record, f, c[f])
      BY <2>1 DEF Justified, CatalogIsJustified
    <3> HIDE DEF trusts, sections
    <3> QED BY <3>1, <3>4, <3>5, <3>6
  <2>3. \A c : Offering(c, trusts, sections).course = c
    BY DEF Offering
  <2>4. UNCHANGED <<ledger, parsed>>
    BY DEF BuildDatabase
  <2>5. ASSUME NEW o \in database'.offerings, o.status = "verified"
        PROVE  /\ database'.sources[o.course.title].decision = "include"
               /\ database'.sections[o.course.chunk].quality = "verified"
               /\ Approved(o.course.record)
               /\ \A f \in StrictFields :
                    \/ [source |-> o.course.title, sha |-> database'.sources[o.course.title].sha,
                        row |-> o.course.row, field |-> f, value |-> o.course[f]] \in parsed
                    \/ EditedTo(o.course.record, f, o.course[f])
    <3> HIDE DEF trusts, sections
    <3>1. PICK c \in catalog.courses : o = Offering(c, trusts, sections)
      BY <2>1
    <3>2. o.course = c /\ Offering(c, trusts, sections).status = "verified"
      BY <3>1, <2>3, <2>5
    <3>3. /\ trusts[c.title].decision = "include"
          /\ sections[c.chunk].quality = "verified"
          /\ Approved(c.record)
          /\ \A f \in StrictFields :
               \/ [source |-> c.title, sha |-> trusts[c.title].sha, row |-> c.row,
                   field |-> f, value |-> c[f]] \in parsed
               \/ EditedTo(c.record, f, c[f])
      BY <3>2, <2>2 DEF ReadAs
    <3> QED BY <2>1, <3>2, <3>3
  <2> QED BY <2>4, <2>5 DEF VerifiedIsReviewed, ReadAs, EditedTo, Approved
<1> QED BY <1>2, <1>4, <1>5 DEF Justified

\* Every step keeps the values justified.
LEMMA StepJustified ==
    ASSUME Justified, InRegistry, [Next]_vars
    PROVE  Justified'
<1>1. CASE Operator
  <2>1. ASSUME NEW entry \in Reviewers, AppendReview(entry)
        PROVE  Justified'
    BY <2>1, AppendReviewStep
  <2>2. ASSUME NEW s, ReviseDocument(s)
        PROVE  Justified'
    BY <2>2, Untouched DEF ReviseDocument
  <2>3. ASSUME NEW s, NEW a, RegisterSource(s, a)
        PROVE  Justified'
    BY <2>3, Untouched DEF RegisterSource
  <2>4. CASE AttestExtraction
    BY <2>4, Untouched DEF AttestExtraction
  <2> QED BY <1>1, <2>1, <2>2, <2>3, <2>4 DEF Operator
<1>2. CASE Script
  <2>1. CASE IngestChunks
    BY <2>1, Untouched DEF IngestChunks
  <2>2. ASSUME NEW ss, NEW allowed, ExtractDraft(ss, allowed)
        PROVE  Justified'
    BY <2>2, ExtractDraftStep
  <2>3. ASSUME NEW scaffold, NEW mappings, NEW strict, Materialise(scaffold, mappings, strict)
        PROVE  Justified'
    BY <2>3, MaterialiseStep
  <2>4. ASSUME NEW present, NEW rooted, NEW decisions, NEW chunkDecisions,
               BuildDatabase(present, rooted, decisions, chunkDecisions)
        PROVE  Justified'
    BY <2>4, BuildDatabaseStep
  <2> QED BY <1>2, <2>1, <2>2, <2>3, <2>4, ApplyReviewStep DEF Script
<1>3. CASE UNCHANGED vars
  BY <1>3, Untouched DEF vars
<1> QED BY <1>1, <1>2, <1>3 DEF Next

\* Every step keeps the catalog within the registry.
LEMMA StepInRegistry ==
    ASSUME InRegistry, [Next]_vars
    PROVE  InRegistry'
<1>1. CASE Operator
  <2>1. ASSUME NEW s, NEW a, RegisterSource(s, a)
        PROVE  InRegistry'
    BY <2>1 DEF RegisterSource, InRegistry
  <2>2. CASE AttestExtraction
    BY <2>2 DEF AttestExtraction, InRegistry
  <2> QED BY <1>1, <2>1, <2>2 DEF Operator, ReviseDocument, AppendReview, InRegistry
<1>2. CASE Script
  BY <1>2 DEF Script, IngestChunks, ExtractDraft, ApplyReview, Materialise, BuildDatabase, InRegistry
<1>3. CASE UNCHANGED vars
  BY <1>3 DEF vars, InRegistry
<1> QED BY <1>1, <1>2, <1>3 DEF Next

---------------------------------------------------------------------------
(* The theorem                                                             *)

\* For any documents, their versions, any order of edits and scripts, any ledger, scaffold
\* and mapping an operator hands in: what build_database calls a verified course was
\* included, attested, approved, and read under the digest of its document or edited.
THEOREM VerifiedCoursesReviewed == Spec => []VerifiedIsReviewed
<1>1. Init => Justified /\ InRegistry
  BY DEF Init, Justified, InRegistry, DraftWasRead, ReviewedIsJustified, CatalogIsJustified,
         VerifiedIsReviewed
<1>2. Justified /\ InRegistry /\ [Next]_vars => (Justified /\ InRegistry)'
  BY StepJustified, StepInRegistry
<1>3. Justified => VerifiedIsReviewed
  BY DEF Justified
<1> QED BY <1>1, <1>2, <1>3, PTL DEF Spec

---------------------------------------------------------------------------
(***************************************************************************)
(* What a database is, once it is built: what the two gates (verify_dataset *)
(* and the readiness of the repository) and the tools rely on.              *)
(***************************************************************************)

\* Every row says of each of its strict fields whether it is verified, a
\* requirement cites a chunk, and so does a course that is verified.
DatabaseIsWhole ==
    database # None =>
      /\ \A o \in database.offerings :
            /\ DOMAIN o.fields = CourseStrict
            /\ o.status = "verified" => o.course.chunk # None
      /\ \A r \in database.requirements :
            DOMAIN r.fields = RequirementStrict /\ r.chunk # None

\* A course of the database has a status for each of its fields, and a section if it is verified.
LEMMA OfferingIsWhole ==
    ASSUME NEW c, NEW trusts, NEW sections
    PROVE  /\ DOMAIN Offering(c, trusts, sections).fields = CourseStrict
           /\ Offering(c, trusts, sections).course = c
           /\ Offering(c, trusts, sections).status = "verified" => c.chunk # None
<1> DEFINE base == BaseStatus(c.chunk, c.title, sections)
           value == [module |-> c.module, credits |-> c.credits, semester |-> c.semester]
           statuses == [f \in CourseStrict |->
                          FieldStatus(c.fields[f], f, value[f], c.chunk, base, trusts[c.title])]
<1>1. Offering(c, trusts, sections) =
        [course |-> c, fields |-> statuses, status |-> RowStatus(base, statuses)]
  BY DEF Offering
<1>2. DOMAIN statuses = CourseStrict
  OBVIOUS
<1>3. RowStatus(base, statuses) = "verified" => base = "verified"
  <2> HIDE DEF base, statuses
  <2> QED BY DEF RowStatus
<1>4. c.chunk = None => base # "verified"
  BY DEF BaseStatus
<1> HIDE DEF base, statuses
<1> QED BY <1>1, <1>2, <1>3, <1>4

\* A requirement of the database has a status for each of its fields and a section.
LEMMA RequirementIsWhole ==
    ASSUME NEW plans, NEW trusts, NEW sections, NEW r \in Requirements(plans, trusts, sections)
    PROVE  DOMAIN r.fields = RequirementStrict /\ r.chunk # None
<1>1. r.chunk # None
  BY DEF Requirements
<1>2. PICK p, title, m, row : r = Requirement(p, title, m, row, trusts, sections)
  BY DEF Requirements
<1>3. DOMAIN r.fields = RequirementStrict
  BY <1>2 DEF Requirement
<1> QED BY <1>1, <1>3

\* A build makes the database whole.
LEMMA StepWhole ==
    ASSUME DatabaseIsWhole, [Next]_vars
    PROVE  DatabaseIsWhole'
<1>1. ASSUME NEW present, NEW rooted, NEW decisions, NEW chunkDecisions,
             BuildDatabase(present, rooted, decisions, chunkDecisions)
      PROVE  DatabaseIsWhole'
  <2>1. PICK trusts, sections :
          /\ database'.offerings = {Offering(c, trusts, sections) : c \in catalog.courses}
          /\ database'.requirements = Requirements(catalog.plans, trusts, sections)
    BY <1>1 DEF BuildDatabase, Database
  <2>2. \A o \in database'.offerings :
          DOMAIN o.fields = CourseStrict /\ (o.status = "verified" => o.course.chunk # None)
    BY <2>1, OfferingIsWhole
  <2>3. \A r \in database'.requirements : DOMAIN r.fields = RequirementStrict /\ r.chunk # None
    BY <2>1, RequirementIsWhole
  <2> QED BY <2>2, <2>3 DEF DatabaseIsWhole
<1>2. CASE UNCHANGED database
  BY <1>2 DEF DatabaseIsWhole
<1>3. CASE Operator
  BY <1>2, <1>3 DEF Operator, ReviseDocument, RegisterSource, AttestExtraction, AppendReview
<1>4. CASE Script
  BY <1>1, <1>2, <1>4 DEF Script, IngestChunks, ExtractDraft, ApplyReview, Materialise
<1>5. CASE UNCHANGED vars
  BY <1>2, <1>5 DEF vars
<1> QED BY <1>3, <1>4, <1>5 DEF Next

\* The rows of every database are whole.
LEMMA AlwaysWhole == Spec => []DatabaseIsWhole
<1>1. Init => DatabaseIsWhole
  BY DEF Init, DatabaseIsWhole
<1>2. DatabaseIsWhole /\ [Next]_vars => DatabaseIsWhole'
  BY StepWhole
<1> QED BY <1>1, <1>2, PTL DEF Spec

\* Whatever was handed in: in a database that verify_dataset passes, an answer that
\* the tools call trusted, from the review of its chunks, rests on rows that are
\* verified themselves, field by field.
THEOREM TrustedAlwaysVerified == Spec => []TrustedIsVerified
<1>1. DatabaseIsWhole => TrustedIsVerified
  <2> SUFFICES ASSUME DatabaseIsWhole, database # None, Verifies(database),
                      NEW p \in DOMAIN database.programs
               PROVE  LET courses == CoursesPacket(database, ListCourses(database, p, {}))
                          requirements == RequirementsPacket(database, p, {})
                      IN /\ courses.trusted => \A o \in courses.rows : VerifiedRow(o)
                         /\ requirements.trusted =>
                              \A r \in requirements.rows : r.required # None => VerifiedRow(r)
    BY DEF TrustedIsVerified
  <2>1. ASSUME NEW o \in database.offerings, TrustedChunk(database, o.course.chunk)
        PROVE  VerifiedRow(o)
    <3>1. o.course.chunk # None /\ database.sections[o.course.chunk].status = "verified"
      BY <2>1 DEF TrustedChunk, HasEvidence
    <3>2. o.status = "verified"
      BY <3>1 DEF Verifies, StatusMatches
    <3>3. \A f \in CourseStrict : o.fields[f] = "verified"
      BY <3>2 DEF Verifies
    <3> QED BY <3>2, <3>3 DEF VerifiedRow, Fields, DatabaseIsWhole
  <2>2. ASSUME NEW r \in database.requirements, r.required # None
        PROVE  VerifiedRow(r)
    <3>1. r.status = "verified" /\ \A f \in RequirementStrict : r.fields[f] = "verified"
      BY <2>2 DEF Verifies
    <3> QED BY <3>1 DEF VerifiedRow, Fields, DatabaseIsWhole
  <2>3. \A o \in ListCourses(database, p, {}) : o \in database.offerings
    BY DEF ListCourses, OfferingsOf
  <2>4. \A r \in RequirementsPacket(database, p, {}).rows : r \in database.requirements
    BY DEF RequirementsPacket, RequirementsOf
  <2> QED BY <2>1, <2>2, <2>3, <2>4 DEF CoursesPacket
<1> QED BY <1>1, AlwaysWhole, PTL

\* What readiness says of a program in force: the tools' packets about it are
\* complete, trusted and made of verified rows.
LEMMA AnswerablePackets ==
    ASSUME DatabaseIsWhole, database # None, NEW p, Answerable(database, p)
    PROVE  /\ ListCourses(database, p, {}) = OfferingsOf(database, p)
           /\ OfferingsOf(database, p) # {} /\ RequirementsOf(database, p) # {}
           /\ \A o \in OfferingsOf(database, p) :
                 TrustedChunk(database, o.course.chunk) /\ VerifiedRow(o)
           /\ \A r \in RequirementsOf(database, p) :
                 TrustedChunk(database, r.chunk) /\ VerifiedRow(r) /\ r.required # None
<1>1. ListCourses(database, p, {}) = OfferingsOf(database, p)
  BY DEF ListCourses
<1>2. ASSUME NEW o \in OfferingsOf(database, p)
      PROVE  TrustedChunk(database, o.course.chunk) /\ VerifiedRow(o)
  <2>1. o \in database.offerings
    BY DEF OfferingsOf
  <2>2. Sound(database, o, o.course.chunk, o.course.title)
    BY DEF Answerable, SoundOffering
  <2> QED BY <2>1, <2>2 DEF Sound, SoundChunk, TrustedChunk, HasEvidence, VerifiedRow, Fields,
                            DatabaseIsWhole
<1>3. ASSUME NEW r \in RequirementsOf(database, p)
      PROVE  TrustedChunk(database, r.chunk) /\ VerifiedRow(r) /\ r.required # None
  <2>1. r \in database.requirements
    BY DEF RequirementsOf
  <2>2. Sound(database, r, r.chunk, r.title) /\ r.required # None
    BY DEF Answerable, SoundRequirement
  <2> QED BY <2>1, <2>2 DEF Sound, SoundChunk, TrustedChunk, HasEvidence, VerifiedRow, Fields,
                            DatabaseIsWhole
<1> QED BY <1>1, <1>2, <1>3 DEF Answerable

\* Whatever was handed in: when a database calls itself ready, every tool answers
\* about every program in force, completely and from verified rows only.
THEOREM ReadyAlwaysAnswerable == Spec => []ReadyIsAnswerable
<1>1. DatabaseIsWhole => ReadyIsAnswerable
  <2> DEFINE active == ActivePrograms(database)
             courses(p) == CoursesPacket(database, ListCourses(database, p, {}))
             requirements(p) == RequirementsPacket(database, p, {})
             audit(p) == Audit(database, p, {o.course.code : o \in courses(p).rows})
             comparison == Comparison(database, active, Dimensions)
  <2> SUFFICES ASSUME DatabaseIsWhole, database # None, Ready(database)
               PROVE  /\ \A p \in active :
                           /\ courses(p).rows # {} /\ courses(p).trusted
                           /\ requirements(p).complete /\ requirements(p).trusted
                           /\ audit(p).complete /\ audit(p).trusted
                           /\ {fact.module : fact \in audit(p).facts}
                                = {r.module : r \in requirements(p).rows}
                           /\ \A row \in courses(p).rows \cup requirements(p).rows :
                                VerifiedRow(row)
                      /\ comparison.complete /\ comparison.trusted
    BY DEF ReadyIsAnswerable
  <2>1. \A p \in active : Answerable(database, p)
    BY DEF Ready
  <2>2. ASSUME NEW p \in active
        PROVE  /\ courses(p).rows = OfferingsOf(database, p) /\ courses(p).rows # {}
               /\ courses(p).trusted /\ courses(p).complete
               /\ requirements(p).rows = RequirementsOf(database, p)
               /\ requirements(p).complete /\ requirements(p).trusted
               /\ \A r \in requirements(p).rows : r.required # None
               /\ \A row \in courses(p).rows \cup requirements(p).rows : VerifiedRow(row)
    BY <2>1, AnswerablePackets DEF CoursesPacket, RequirementsPacket
  <2>3. ASSUME NEW p \in active
        PROVE  /\ audit(p).complete /\ audit(p).trusted
               /\ {fact.module : fact \in audit(p).facts} = {r.module : r \in requirements(p).rows}
    <3> DEFINE codes == {o.course.code : o \in courses(p).rows}
               numeric == {r \in requirements(p).rows : r.required # None}
               done(r) == Completed(courses(p).rows, codes, r.module)
               found(r) == [module |-> r.module, required |-> r.required, completed |-> done(r),
                            remaining |-> IF r.required > done(r) THEN r.required - done(r) ELSE 0]
    <3>1. numeric = requirements(p).rows /\ numeric # {}
      BY <2>2, <2>1, AnswerablePackets
    <3>2. /\ audit(p).complete = (numeric # {} /\ courses(p).complete /\ requirements(p).complete)
          /\ audit(p).trusted = (courses(p).trusted /\ requirements(p).trusted)
          /\ audit(p).facts = {found(r) : r \in numeric}
      BY DEF Audit
    <3>3. \A r : found(r).module = r.module
      OBVIOUS
    <3>4. audit(p).complete /\ audit(p).trusted
      <4> HIDE DEF numeric, courses, requirements, audit
      <4> QED BY <3>1, <3>2, <2>2
    <3>5. {fact.module : fact \in audit(p).facts} = {r.module : r \in numeric}
      <4> HIDE DEF numeric, found, audit
      <4> QED BY <3>2, <3>3
    <3> QED BY <3>1, <3>4, <3>5
  <2>4. comparison.complete
    <3>1. ASSUME NEW d \in Dimensions, NEW p \in active PROVE Compared(database, p, d)
      BY <2>1, AnswerablePackets DEF Compared, Dimensions, TrustedChunk
    <3> QED BY <3>1 DEF Comparison, Dimensions
  <2>5. comparison.trusted
    <3>1. ASSUME NEW chunk \in CitedInComparison(database, active, Dimensions)
          PROVE  TrustedChunk(database, chunk)
      <4>1. \/ \E p \in active : \E r \in RequirementsOf(database, p) : chunk = r.chunk
            \/ \E p \in active : \E o \in OfferingsOf(database, p) : chunk = o.course.chunk
        BY DEF CitedInComparison
      <4> QED BY <2>1, <4>1, AnswerablePackets
    <3> QED BY <2>4, <3>1 DEF Comparison
  <2> QED BY <2>2, <2>3, <2>4, <2>5
<1> QED BY <1>1, AlwaysWhole, PTL

---------------------------------------------------------------------------
(***************************************************************************)
(* Where the rows of a document go: NothingLost.                           *)
(***************************************************************************)

\* Of a draft, before and after its review: each row of its documents is one course or
\* one entry of the quarantine.
Here(f, s, n) == {c \in f.courses : c.source = s /\ c.row = n}
Out(f, s, n) == {q \in f.quarantine : q.source = s /\ q.row \in {n, None}}

OneOf(here, out) ==
    \/ out = {} /\ \E c : here = {c}
    \/ here = {} /\ \E q : out = {q}

Placed(f) ==
    /\ \A c \in f.courses : c.row # None
    /\ \A s \in DOMAIN f.of : \A n \in DOMAIN f.of[s].rows :
         n # None /\ OneOf(Here(f, s, n), Out(f, s, n))

\* The files are versions of the documents.
FilesExist == DOMAIN files = Sources /\ \A s \in Sources : files[s] \in DOMAIN Documents[s]

RowsPlaced ==
    /\ FilesExist
    /\ draft # None => Placed(draft)
    /\ reviewed # None => Placed(reviewed)
    /\ NothingLost

\* The extraction of one document places each of its rows once.
LEMMA DraftedPlaced ==
    ASSUME NEW s, NEW entry, NEW doc, None \notin DOMAIN doc.rows, NEW n \in DOMAIN doc.rows
    PROVE  OneOf({c \in Drafted(s, entry, doc).courses : c.row = n},
                 {q \in Drafted(s, entry, doc).quarantine : q.row \in {n, None}})
<1> DEFINE rec(m) == CourseRecord(s, entry, doc, m)
           readable == {m \in DOMAIN doc.rows : Readable(doc.rows[m])}
           read == {rec(m) : m \in readable}
           conflicting == {c \in read : \E d \in read : Disagree(c, d)}
           unreadable == {m \in DOMAIN doc.rows : ~Readable(doc.rows[m])}
           courses == {c \in Drafted(s, entry, doc).courses : c.row = n}
           refused == {q \in Drafted(s, entry, doc).quarantine : q.row \in {n, None}}
<1>1. CASE DocType[s] \notin CatalogTypes \/ ~doc.columns
  <2>1. Drafted(s, entry, doc) = [courses |-> {}, quarantine |-> {Refused(s, None, None)}]
    BY <1>1 DEF Drafted
  <2>2. courses = {} /\ refused = {Refused(s, None, None)}
    BY <2>1 DEF Refused
  <2> QED BY <2>2 DEF OneOf
<1>2. CASE ~(DocType[s] \notin CatalogTypes \/ ~doc.columns)
  <2>1. /\ Drafted(s, entry, doc).courses = read \ conflicting
        /\ Drafted(s, entry, doc).quarantine =
             {Refused(s, m, None) : m \in unreadable}
               \cup {Refused(s, c.row, c.id) : c \in conflicting}
    BY <1>2 DEF Drafted
  <2>2. \A m : rec(m).row = m
    BY DEF CourseRecord
  <2>3. \A r, m, id : Refused(r, m, id).row = m
    BY DEF Refused
  <2> HIDE DEF rec
  <2>4. \A c \in read : c.row \in readable /\ c = rec(c.row)
    BY <2>2
  <2>5. refused = {Refused(s, m, None) : m \in {k \in unreadable : k = n}}
                    \cup {Refused(s, c.row, c.id) : c \in {d \in conflicting : d.row = n}}
    <3> HIDE DEF read, readable
    <3> QED BY <2>1, <2>3, <2>4 DEF readable
  <2>6. CASE n \in unreadable
    <3>1. courses = {}
      BY <2>1, <2>4, <2>6
    <3>2. {d \in conflicting : d.row = n} = {} /\ {k \in unreadable : k = n} = {n}
      BY <2>4, <2>6
    <3>3. refused = {Refused(s, n, None)}
      <4> HIDE DEF conflicting, unreadable, refused
      <4> QED BY <2>5, <3>2
    <3> QED BY <3>1, <3>3 DEF OneOf
  <2>7. CASE n \in readable /\ rec(n) \in conflicting
    <3>1. courses = {}
      BY <2>1, <2>4, <2>7
    <3>2. {d \in conflicting : d.row = n} = {rec(n)} /\ {k \in unreadable : k = n} = {}
      BY <2>2, <2>4, <2>7
    <3>3. refused = {Refused(s, rec(n).row, rec(n).id)}
      <4> HIDE DEF conflicting, unreadable, refused
      <4> QED BY <2>5, <3>2
    <3> QED BY <3>1, <3>3 DEF OneOf
  <2>8. CASE n \in readable /\ rec(n) \notin conflicting
    <3>1. courses = {rec(n)}
      BY <2>1, <2>2, <2>4, <2>8
    <3>2. {d \in conflicting : d.row = n} = {} /\ {k \in unreadable : k = n} = {}
      BY <2>4, <2>8
    <3>3. refused = {}
      <4> HIDE DEF conflicting, unreadable, refused
      <4> QED BY <2>5, <3>2
    <3> QED BY <3>1, <3>3 DEF OneOf
  <2> QED BY <2>6, <2>7, <2>8
<1> QED BY <1>1, <1>2

\* What a draft of one document says is about that document.
LEMMA DraftedSource ==
    ASSUME NEW s, NEW entry, NEW doc
    PROVE  /\ \A c \in Drafted(s, entry, doc).courses :
                 c.source = s /\ c.row \in DOMAIN doc.rows
           /\ \A q \in Drafted(s, entry, doc).quarantine : q.source = s
<1>1. \A m : CourseRecord(s, entry, doc, m).source = s /\ CourseRecord(s, entry, doc, m).row = m
  BY DEF CourseRecord
<1>2. \A m, id : Refused(s, m, id).source = s
  BY DEF Refused
<1> QED BY <1>1, <1>2 DEF Drafted

\* The drafts of several documents, combined, place the rows of each.
LEMMA CombinedPlaced ==
    ASSUME NEW ss, NEW docs, \A s \in ss : None \notin DOMAIN docs[s].rows, DOMAIN docs = ss
    PROVE  Placed(Combined(ss, registry, docs))
<1> DEFINE f == Combined(ss, registry, docs)
           part(s) == Drafted(s, registry[s], docs[s])
<1>1. /\ f.courses = UNION {part(s).courses : s \in ss}
      /\ f.quarantine = UNION {part(s).quarantine : s \in ss}
      /\ DOMAIN f.of = ss /\ \A s \in ss : f.of[s] = docs[s]
  BY DEF Combined
<1>2. \A s \in ss : /\ \A c \in part(s).courses : c.source = s /\ c.row \in DOMAIN docs[s].rows
                    /\ \A q \in part(s).quarantine : q.source = s
  BY DraftedSource
<1>3. ASSUME NEW s \in ss, NEW n \in DOMAIN docs[s].rows
      PROVE  OneOf({c \in part(s).courses : c.row = n},
                   {q \in part(s).quarantine : q.row \in {n, None}})
  BY DraftedPlaced
<1> HIDE DEF f, part
<1>4. \A c \in f.courses : c.row # None
  BY <1>1, <1>2
<1>5. ASSUME NEW s \in ss, NEW n \in DOMAIN docs[s].rows
      PROVE  n # None /\ OneOf(Here(f, s, n), Out(f, s, n))
  <2>1. Here(f, s, n) = {c \in part(s).courses : c.row = n}
    BY <1>1, <1>2 DEF Here
  <2>2. Out(f, s, n) = {q \in part(s).quarantine : q.row \in {n, None}}
    BY <1>1, <1>2 DEF Out
  <2> QED BY <1>3, <2>1, <2>2
<1>6. Placed(f)
  BY <1>1, <1>4, <1>5 DEF Placed
<1> QED BY <1>6 DEF f

\* A review moves the records it quarantines, keeps the others where they are, and there
\* is one entry at most about each.
LEMMA ReviewedPlaced ==
    ASSUME NEW f, NEW entries, Placed(f),
           \A e1, e2 \in entries : e1.record = e2.record => e1 = e2,
           NEW g,
           g.courses = Active(f, entries),
           g.quarantine = f.quarantine \cup {Refused(c.source, c.row, c.id) :
                                  c \in {d \in f.courses : QuarantinedBy(entries, d)}},
           g.of = f.of
    PROVE  Placed(g)
<1> DEFINE moved == {c \in f.courses : QuarantinedBy(entries, c)}
<1>1. \A c, e : Decided(c, e).source = c.source /\ Decided(c, e).row = c.row
  BY DEF Decided
<1>2. \A s, n, id : Refused(s, n, id).source = s /\ Refused(s, n, id).row = n
  BY DEF Refused
<1>3. ASSUME NEW c \in g.courses
      PROVE  \E d \in f.courses \ moved :
               /\ c.source = d.source /\ c.row = d.row
               /\ \/ c = d /\ About(entries, d) = {}
                  \/ \E e \in About(entries, d) : c = Decided(d, e)
  BY <1>1 DEF Active, QuarantinedBy
<1>4. ASSUME NEW d \in f.courses \ moved
      PROVE  \E c \in g.courses : /\ c.source = d.source /\ c.row = d.row
                                  /\ \A b \in g.courses :
                                       (\/ b = d /\ About(entries, d) = {}
                                        \/ \E e \in About(entries, d) : b = Decided(d, e))
                                       => b = c
  <2>1. CASE About(entries, d) = {}
    BY <2>1 DEF Active
  <2>2. CASE About(entries, d) # {}
    <3>1. PICK e \in About(entries, d) : TRUE
      BY <2>2
    <3>2. \A x \in About(entries, d) : x = e
      BY <3>1 DEF About
    <3>3. Decided(d, e) \in g.courses
      BY <3>1 DEF Active
    <3> QED BY <1>1, <2>2, <3>2, <3>3
  <2> QED BY <2>1, <2>2
<1>5. ASSUME NEW s \in DOMAIN f.of, NEW n \in DOMAIN f.of[s].rows
      PROVE  OneOf(Here(g, s, n), Out(g, s, n))
  <2>1. n # None /\ OneOf(Here(f, s, n), Out(f, s, n))
    BY DEF Placed
  <2>2. Out(g, s, n) = Out(f, s, n) \cup {Refused(c.source, c.row, c.id) :
                                            c \in {d \in moved : d.source = s /\ d.row = n}}
    <3>1. \A c \in moved : c.row # None
      BY DEF Placed
    <3> QED BY <1>2, <3>1 DEF Out
  <2>3. CASE \E q : Out(f, s, n) = {q} /\ Here(f, s, n) = {}
    <3>1. {d \in moved : d.source = s /\ d.row = n} = {}
      BY <2>3 DEF Here
    <3>2. Out(g, s, n) = Out(f, s, n)
      <4> HIDE DEF moved
      <4> QED BY <2>2, <3>1
    <3>3. Here(g, s, n) = {}
      BY <1>3, <2>3 DEF Here
    <3> QED BY <2>3, <3>2, <3>3 DEF OneOf
  <2>4. ASSUME NEW c, Here(f, s, n) = {c}, Out(f, s, n) = {}
        PROVE  OneOf(Here(g, s, n), Out(g, s, n))
    <3>1. c \in f.courses /\ c.source = s /\ c.row = n
          /\ \A d \in f.courses : d.source = s /\ d.row = n => d = c
      BY <2>4 DEF Here
    <3>2. CASE c \in moved
      <4>1. {d \in moved : d.source = s /\ d.row = n} = {c}
        BY <3>1, <3>2
      <4>2. Out(g, s, n) = {Refused(c.source, c.row, c.id)}
        <5> HIDE DEF moved
        <5> QED BY <2>2, <2>4, <4>1
      <4>3. Here(g, s, n) = {}
        <5> HIDE DEF moved
        <5> QED BY <1>3, <3>1, <3>2 DEF Here
      <4> QED BY <4>2, <4>3 DEF OneOf
    <3>3. CASE c \notin moved
      <4>1. {d \in moved : d.source = s /\ d.row = n} = {}
        BY <3>1, <3>3
      <4>2. Out(g, s, n) = {}
        <5> HIDE DEF moved
        <5> QED BY <2>2, <2>4, <4>1
      <4>3. PICK b \in g.courses :
              /\ b.source = s /\ b.row = n
              /\ \A a \in g.courses :
                   (\/ a = c /\ About(entries, c) = {}
                    \/ \E e \in About(entries, c) : a = Decided(c, e)) => a = b
        BY <1>4, <3>1, <3>3
      <4>4. Here(g, s, n) = {b}
        <5>1. ASSUME NEW a \in g.courses, a.source = s, a.row = n PROVE a = b
          <6> HIDE DEF moved
          <6> QED BY <1>3, <3>1, <4>3, <5>1
        <5> QED BY <4>3, <5>1 DEF Here
      <4> QED BY <4>2, <4>4 DEF OneOf
    <3> QED BY <3>2, <3>3
  <2> QED BY <2>1, <2>3, <2>4 DEF OneOf
<1>6. \A c \in g.courses : c.row # None
  BY <1>3 DEF Placed
<1> QED BY <1>5, <1>6 DEF Placed

\* What NothingLost says of row n of document s and a catalog g.
Kept(g, s, n) ==
    LET courses == {c \in g.courses : c.title = s /\ c.row = n}
        refused == {q \in g.quarantine : q.source = s /\ q.row = n}
        upstream == {q \in g.upstream : q.source = s /\ q.row \in {n, None}}
    IN /\ Cardinality(courses) + Cardinality(refused) + Cardinality(upstream) = 1
       /\ g.strict => courses # {}

\* The adapter makes a course of a record or quarantines it, and has the rows that were
\* kept out before in its report.
LEMMA MaterialisedPlaced ==
    ASSUME NEW f, Placed(f), NEW scaffold, NEW mappings, NEW strict,
           Materialises(f, scaffold, mappings, strict),
           NEW g, g = Materialised(f, scaffold, mappings, strict),
           NEW s \in DOMAIN g.of, NEW n \in DOMAIN g.of[s].rows
    PROVE  Kept(g, s, n)
<1> DEFINE admitted == AdmittedCourses(f, scaffold, mappings)
           canonical(c) == Canonical(c, scaffold.assignments[c.id], mappings[c.id])
           courses == {c \in g.courses : c.title = s /\ c.row = n}
           refused == {q \in g.quarantine : q.source = s /\ q.row = n}
           upstream == {q \in g.upstream : q.source = s /\ q.row \in {n, None}}
<1>1. /\ g.courses = {canonical(c) : c \in admitted}
      /\ g.quarantine = {Refused(c.source, c.row, c.id) : c \in f.courses \ admitted}
      /\ g.upstream = f.quarantine /\ g.strict = strict /\ g.of = f.of
  BY DEF Materialised
<1>2. ASSUME NEW c \in admitted
      PROVE  c \in f.courses /\ canonical(c).title = c.source /\ canonical(c).row = c.row
  <2>1. /\ c \in f.courses
        /\ Assigned(c, scaffold.assignments[c.id], scaffold.plans)
        /\ \A k \in StrictFields : WitnessesCell(c, mappings[c.id], k)
    BY DEF AdmittedCourses, Admitted, Evidenced
  <2>2. scaffold.assignments[c.id].title = c.source
    BY <2>1 DEF Assigned
  <2>3. mappings[c.id].row = c.row
    BY <2>1 DEF WitnessesCell, StrictFields
  <2> QED BY <2>1, <2>2, <2>3 DEF Canonical
<1>3. \A r, m, id : Refused(r, m, id).source = r /\ Refused(r, m, id).row = m
  BY DEF Refused
<1>4. strict => f.quarantine = {} /\ admitted = f.courses
  BY DEF Materialises
<1>5. upstream = Out(f, s, n)
  BY <1>1 DEF Out
<1>6. n # None /\ OneOf(Here(f, s, n), Out(f, s, n))
  BY <1>1 DEF Placed
<1> HIDE DEF admitted, canonical
<1>7. courses = {canonical(c) : c \in {d \in admitted : d.source = s /\ d.row = n}}
  BY <1>1, <1>2
<1>8. refused = {Refused(c.source, c.row, c.id) :
                   c \in {d \in f.courses \ admitted : d.source = s /\ d.row = n}}
  BY <1>1, <1>3
<1> HIDE DEF courses, refused, upstream
<1>9. CASE \E q : Out(f, s, n) = {q} /\ Here(f, s, n) = {}
  <2>1. {d \in admitted : d.source = s /\ d.row = n} = {}
        /\ {d \in f.courses \ admitted : d.source = s /\ d.row = n} = {}
    BY <1>2, <1>9 DEF Here
  <2>2. courses = {}
    BY <1>7, <2>1
  <2>3. refused = {}
    BY <1>8, <2>1
  <2>4. Cardinality(courses) = 0 /\ Cardinality(refused) = 0 /\ Cardinality(upstream) = 1
    BY <1>5, <1>9, <2>2, <2>3, FS_EmptySet, FS_Singleton
  <2>5. ~strict
    BY <1>4, <1>9 DEF Out
  <2> QED BY <1>1, <2>4, <2>5 DEF courses, refused, upstream, Kept
<1>10. ASSUME NEW c, Here(f, s, n) = {c}, Out(f, s, n) = {}
       PROVE  Cardinality(courses) + Cardinality(refused) + Cardinality(upstream) = 1
              /\ (strict => courses # {})
  <2>1. c \in f.courses /\ c.source = s /\ c.row = n
        /\ \A d \in f.courses : d.source = s /\ d.row = n => d = c
    BY <1>10 DEF Here
  <2>2. Cardinality(upstream) = 0
    BY <1>5, <1>10, FS_EmptySet
  <2>3. CASE c \in admitted
    <3>1. {d \in admitted : d.source = s /\ d.row = n} = {c}
          /\ {d \in f.courses \ admitted : d.source = s /\ d.row = n} = {}
      BY <1>2, <2>1, <2>3
    <3>2. courses = {canonical(c)}
      BY <1>7, <3>1
    <3>3. refused = {}
      BY <1>8, <3>1
    <3>4. Cardinality(courses) = 1 /\ Cardinality(refused) = 0
      BY <3>2, <3>3, FS_EmptySet, FS_Singleton
    <3> QED BY <2>2, <3>2, <3>4
  <2>4. CASE c \notin admitted
    <3>1. {d \in admitted : d.source = s /\ d.row = n} = {}
          /\ {d \in f.courses \ admitted : d.source = s /\ d.row = n} = {c}
      BY <1>2, <2>1, <2>4
    <3>2. courses = {}
      BY <1>7, <3>1
    <3>3. refused = {Refused(c.source, c.row, c.id)}
      BY <1>8, <3>1
    <3>4. Cardinality(courses) = 0 /\ Cardinality(refused) = 1
      BY <3>2, <3>3, FS_EmptySet, FS_Singleton
    <3>5. ~strict
      BY <1>4, <2>1, <2>4
    <3> QED BY <2>2, <3>4, <3>5
  <2> QED BY <2>3, <2>4
<1> QED BY <1>1, <1>6, <1>9, <1>10 DEF OneOf, courses, refused, upstream, Kept

\* The steps.
LEMMA StepPlaced ==
    ASSUME RowsPlaced, [Next]_vars
    PROVE  RowsPlaced'
<1> USE PipelineAssumption
<1>1. FilesExist'
  <2>1. ASSUME NEW s \in Revised, ReviseDocument(s)
        PROVE  FilesExist'
    <3>1. files[s] \in 1..Len(Documents[s]) /\ files[s] < Len(Documents[s])
          /\ Len(Documents[s]) \in Nat
      BY <2>1 DEF ReviseDocument, RowsPlaced, FilesExist
    <3>2. files[s] + 1 \in DOMAIN Documents[s]
      BY <3>1
    <3> QED BY <2>1, <3>2 DEF ReviseDocument, RowsPlaced, FilesExist
  <2>2. CASE UNCHANGED files
    BY <2>2 DEF RowsPlaced, FilesExist
  <2>3. CASE Operator
    BY <2>1, <2>2, <2>3 DEF Operator, RegisterSource, AttestExtraction, AppendReview
  <2>4. CASE Script
    BY <2>2, <2>4 DEF Script, IngestChunks, ExtractDraft, ApplyReview, Materialise, BuildDatabase
  <2> QED BY <2>2, <2>3, <2>4 DEF Next, vars
<1>2. CASE UNCHANGED <<draft, reviewed, catalog>>
  BY <1>1, <1>2 DEF RowsPlaced, NothingLost
<1>3. ASSUME NEW ss \in CatalogInputs, NEW allowed, ExtractDraft(ss, allowed)
      PROVE  RowsPlaced'
  <2> DEFINE docs == [s \in ss |-> OnDisk(s)]
  <2>1. \A s \in ss : None \notin DOMAIN docs[s].rows
    BY DEF OnDisk, RowsPlaced, FilesExist
  <2>2. draft' = Combined(ss, registry, docs) /\ UNCHANGED <<reviewed, catalog>>
    BY <1>3 DEF ExtractDraft
  <2>3. DOMAIN docs = ss
    OBVIOUS
  <2>4. Placed(draft')
    <3> HIDE DEF docs
    <3> QED BY <2>1, <2>2, <2>3, CombinedPlaced
  <2>5. (reviewed # None => Placed(reviewed))' /\ NothingLost'
    BY <2>2 DEF RowsPlaced, NothingLost
  <2> QED BY <1>1, <2>4, <2>5 DEF RowsPlaced
<1>4. CASE ApplyReview
  <2>1. /\ draft # None /\ LedgerApplies(draft, ledger)
        /\ reviewed' = Reviewed(draft, ledger) /\ UNCHANGED <<draft, catalog>>
    BY <1>4 DEF ApplyReview
  <2>2. \A e1, e2 \in Entries(ledger) : e1.record = e2.record => e1 = e2
    BY <2>1 DEF LedgerApplies, Entries
  <2>3. /\ reviewed'.courses = Active(draft, Entries(ledger))
        /\ reviewed'.quarantine =
             draft.quarantine \cup {Refused(c.source, c.row, c.id) :
                             c \in {d \in draft.courses : QuarantinedBy(Entries(ledger), d)}}
        /\ reviewed'.of = draft.of
    BY <2>1 DEF Reviewed
  <2>4. Placed(draft)
    BY <2>1 DEF RowsPlaced
  <2>5. Placed(reviewed')
    BY <2>2, <2>3, <2>4, ReviewedPlaced
  <2>6. (draft # None => Placed(draft))' /\ NothingLost'
    BY <2>1 DEF RowsPlaced, NothingLost
  <2> QED BY <1>1, <2>5, <2>6 DEF RowsPlaced
<1>5. ASSUME NEW scaffold, NEW mappings, NEW strict, Materialise(scaffold, mappings, strict)
      PROVE  RowsPlaced'
  <2>1. /\ reviewed # None /\ Materialises(reviewed, scaffold, mappings, strict)
        /\ catalog' = Materialised(reviewed, scaffold, mappings, strict)
        /\ UNCHANGED <<draft, reviewed>>
    BY <1>5 DEF Materialise
  <2>2. Placed(reviewed)
    BY <2>1 DEF RowsPlaced
  <2>3. \A s \in DOMAIN catalog'.of : \A n \in DOMAIN catalog'.of[s].rows : Kept(catalog', s, n)
    BY <2>1, <2>2, MaterialisedPlaced
  <2>4. NothingLost'
    BY <2>3 DEF NothingLost, Kept
  <2>5. (draft # None => Placed(draft))' /\ (reviewed # None => Placed(reviewed))'
    BY <2>1 DEF RowsPlaced
  <2> QED BY <1>1, <2>4, <2>5 DEF RowsPlaced
<1>6. CASE Operator
  BY <1>2, <1>6 DEF Operator, ReviseDocument, RegisterSource, AttestExtraction, AppendReview
<1>7. CASE Script
  BY <1>2, <1>3, <1>4, <1>5, <1>7 DEF Script, IngestChunks, BuildDatabase
<1> QED BY <1>2, <1>6, <1>7 DEF Next, vars

\* Whatever the documents contain and the operators decide: each row that was read is a
\* course of the catalog or on record as kept out, once, and all are courses when no
\* quarantine was allowed.
THEOREM NothingEverLost == Spec => []NothingLost
<1>1. Init => RowsPlaced
  BY PipelineAssumption DEF Init, RowsPlaced, FilesExist, NothingLost
<1>2. RowsPlaced /\ [Next]_vars => RowsPlaced'
  BY StepPlaced
<1>3. RowsPlaced => NothingLost
  BY DEF RowsPlaced
<1> QED BY <1>1, <1>2, <1>3, PTL DEF Spec
===========================================================================
