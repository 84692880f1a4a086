--------------------------- MODULE ReleaseStore ---------------------------
(***************************************************************************)
(* The release directory and the processes that work on it                 *)
(* (storage/release.py, scripts/build_all.py, eval/candidate_release.py,   *)
(* the runners of eval/, scripts/create_eval_attestation.py,               *)
(* scripts/promote_release.py and agent/factory.py): builds, evaluations,  *)
(* signings, promotions and starting workers, any number of them one after *)
(* the other in each slot, which may die between any two file operations.  *)
(*                                                                         *)
(* A published directory is its tree, as the versions of its files (see    *)
(* Attestation), and the listing in its manifest, which is also what the   *)
(* digest of the manifest tells apart.  Builds publish version 0.  A       *)
(* directory may change under the processes: somebody edits it, or the     *)
(* machine loses power before the files, which are not synchronised,       *)
(* reached the disk; somebody may also adapt the manifest to the tree.     *)
(* Such a change is never undone.                                          *)
(***************************************************************************)
EXTENDS Attestation, FiniteSets

CONSTANTS Slots,          \* processes at work at the same time
          MaxEdits,       \* bound on the changes of published directories
          AgentRuns,      \* what agent evaluations ask for and measure
          RetrievalRuns   \* what retrieval evaluations ask for and measure

Kinds == {"agent", "retrieval"}
Runs(kind) == IF kind = "agent" THEN AgentRuns ELSE RetrievalRuns
Versions == 0..MaxEdits
Listings == [files : Versions, extra : Versions]
Built == [files |-> 0, extra |-> 0]

\* What a published directory, a report, an attestation and active.json may hold.
Directories == [tree : Listings, manifest : Listings]
Subjects == [identity : Identities, files : Listings, manifest : Listings]
Reports ==
    [run : AgentRuns \cup RetrievalRuns, subject : Subjects \cup {None},
     files : Listings \cup {None}, commit : {id.commit : id \in Identities} \cup {None}]
Attestations == [subject : Subjects, reports : [agent : Reports, retrieval : Reports]]
Pointers == [identity : Identities, manifest : Listings, attestation : Attestations]

\* None stands for a file or a directory that does not exist.
ASSUME ReleaseAssumption ==
    /\ MaxEdits \in Nat
    /\ None \notin Directories \cup Pointers

VARIABLES
    dirs,       \* published directory of each release, or None
    edits,      \* how many changes there have been
    pointer,    \* active.json, or None
    stored,     \* attestations under attestations/
    reports,    \* the report file of each kind, or None
    signed,     \* the file written by create_eval_attestation, or None
    job,        \* what runs in each slot
    measured,   \* history: evaluations and the contents that met the policy in them
    activated   \* history: contents the pointer has named

storeVars == <<dirs, edits, pointer, stored>>
fileVars == <<reports, signed>>
historyVars == <<measured, activated>>
vars == <<storeVars, fileVars, job, historyVars>>

Idle == [pc |-> "idle"]
\* What a release answers from: the files that its identity binds.
Contents == [identity : Identities, files : Versions]
ContentOf(id, version) == [identity |-> id, files |-> version]

\* What an attestation is about.
Attested(a) == ContentOf(a.subject.identity, a.subject.files.files)

\* The metrics themselves, whatever gates were computed, meet the policy.
MeetsPolicy(kind, run) ==
    IF kind = "agent"
      THEN \A n \in DOMAIN AGENT_GATE_RULES :
              Meets(AGENT_GATE_RULES[n].operator, run.metrics[n], AGENT_GATE_RULES[n].threshold)
      ELSE \A v \in Variants, n \in DOMAIN RETRIEVAL_GATE_RULES :
              Meets(RETRIEVAL_GATE_RULES[n].operator, run.metrics[v][n],
                    RETRIEVAL_GATE_RULES[n].threshold)

Init ==
    /\ dirs = [id \in Identities |-> None]
    /\ edits = 0
    /\ pointer = None
    /\ stored = {}
    /\ reports = [kind \in Kinds |-> None]
    /\ signed = None
    /\ job = [j \in Slots |-> Idle]
    /\ measured = {}
    /\ activated = {}

Start(j, record) == job[j] = Idle /\ job' = [job EXCEPT ![j] = record]
GoOn(j, record) == job' = [job EXCEPT ![j] = record]
Exit(j) == job' = [job EXCEPT ![j] = Idle]

\* validate_release_directory succeeds for the release as it is now.
Valid(id) == dirs[id] # None /\ dirs[id].tree = dirs[id].manifest

--------------------------------------------------------------------------
(* scripts/build_all.py: everything up to the manifest happens in a staging *)
(* directory of its own; only the publication touches what others see.      *)

Build(j, id) ==
    /\ Start(j, [pc |-> "staged", id |-> id])
    /\ UNCHANGED <<storeVars, fileVars, historyVars>>

\* publish_release finds the release: it must be intact and the same, and is kept.
ReuseRelease(j) ==
    /\ job[j].pc = "staged"
    /\ dirs[job[j].id] # None
    /\ GoOn(j, [pc |-> IF Valid(job[j].id) /\ dirs[job[j].id].manifest = Built
                         THEN "published" ELSE "refused",
                id |-> job[j].id])
    /\ UNCHANGED <<storeVars, fileVars, historyVars>>

\* publish_release does not find it ...
FindNoRelease(j) ==
    /\ job[j].pc = "staged"
    /\ dirs[job[j].id] = None
    /\ GoOn(j, [pc |-> "swap", id |-> job[j].id])
    /\ UNCHANGED <<storeVars, fileVars, historyVars>>

\* Faulty variant: the rename replaces what is there by then.
SwapOver(j) ==
    /\ job[j].pc = "swap"
    /\ dirs' = [dirs EXCEPT ![job[j].id] = [tree |-> Built, manifest |-> Built]]
    /\ GoOn(j, [pc |-> "recheck", id |-> job[j].id])
    /\ UNCHANGED <<edits, pointer, stored, fileVars, historyVars>>

\* ... and renames the staging directory, which fails on a directory that is not empty.
Swap(j) ==
    /\ job[j].pc = "swap"
    /\ IF dirs[job[j].id] = None
         THEN /\ dirs' = [dirs EXCEPT ![job[j].id] = [tree |-> Built, manifest |-> Built]]
              /\ GoOn(j, [pc |-> "recheck", id |-> job[j].id])
         ELSE /\ GoOn(j, [pc |-> "refused", id |-> job[j].id])
              /\ UNCHANGED dirs
    /\ UNCHANGED <<edits, pointer, stored, fileVars, historyVars>>

Recheck(j) ==
    /\ job[j].pc = "recheck"
    /\ GoOn(j, [pc |-> IF Valid(job[j].id) THEN "published" ELSE "refused",
                id |-> job[j].id])
    /\ UNCHANGED <<storeVars, fileVars, historyVars>>

--------------------------------------------------------------------------
(* Reading a release: its tree is validated against the manifest it has at   *)
(* that time, then the manifest is read again for its digest.                *)

Read(j, id, next) ==
    /\ Valid(id)
    /\ Start(j, [pc |-> next, id |-> id, files |-> dirs[id].manifest])

\* The job as it goes on with the digest of the manifest.
Digested(j, next) ==
    [pc |-> next, id |-> job[j].id, files |-> job[j].files,
     digest |-> dirs[job[j].id].manifest]

\* Faulty variant: the files only have to be there.
RuntimeFilesThere(j) == dirs[job[j].id] # None

\* _build_retriever, the database hash and validate_retrieval_artifact: what is opened has
\* the hashes of the listing.
RuntimeFilesIntact(j) == dirs[job[j].id].tree.files = job[j].files.files

SubjectOf(j) == Subject(job[j].id, job[j].files, job[j].digest)

\* load_candidate_evaluation_context: what cannot be promoted is not evaluated.
LoadCandidate(j, kind, id) ==
    /\ Valid(id)
    /\ Promotable(id, dirs[id].manifest)
    /\ Start(j, [pc |-> "evaluating", id |-> id, files |-> dirs[id].manifest, kind |-> kind])
    /\ UNCHANGED <<storeVars, fileVars, historyVars>>

DigestCandidate(j) ==
    /\ job[j].pc = "evaluating"
    /\ GoOn(j, [pc |-> "measure", id |-> job[j].id, files |-> job[j].files,
                digest |-> dirs[job[j].id].manifest, kind |-> job[j].kind])
    /\ UNCHANGED <<storeVars, fileVars, historyVars>>

\* The database and the retrieval files are hashed once more, opened, and measured.
Measure(j, run) ==
    /\ job[j].pc = "measure"
    /\ run \in Runs(job[j].kind)
    /\ run.candidate
    /\ RuntimeFilesIntact(j)
    /\ measured' = measured \cup
         (IF MeetsPolicy(job[j].kind, run)
            THEN {<<job[j].kind, ContentOf(job[j].id, dirs[job[j].id].tree.files)>>} ELSE {})
    /\ GoOn(j, [pc |-> "report", id |-> job[j].id, files |-> job[j].files,
                digest |-> job[j].digest, kind |-> job[j].kind, run |-> run])
    /\ UNCHANGED <<storeVars, fileVars, activated>>

\* A candidate's report is validated before it is written; the files are hashed again.
\* The numbers of samples are the runner's own here.
WriteReport(j) ==
    LET run == job[j].run
        kind == job[j].kind IN
    /\ job[j].pc = "report"
    /\ IF kind = "agent" THEN ValidAgentReport(AgentReport(run), run.count)
                         ELSE ValidRetrievalReport(RetrievalReport(run), run.queries, run.documents)
    /\ reports' = [reports EXCEPT ![kind] =
         [run |-> run, subject |-> SubjectOf(j), files |-> dirs[job[j].id].tree,
          commit |-> job[j].id.commit]]
    /\ Exit(j)
    /\ UNCHANGED <<storeVars, signed, historyVars>>

\* A diagnostic run says nothing of a release.
WriteDiagnostic(j, kind, run) ==
    /\ job[j] = Idle
    /\ ~run.candidate
    /\ reports' = [reports EXCEPT ![kind] =
         [run |-> run, subject |-> None, files |-> None, commit |-> None]]
    /\ UNCHANGED <<storeVars, signed, job, historyVars>>

--------------------------------------------------------------------------
(* scripts/create_eval_attestation.py *)

LoadForSigning(j, id) ==
    /\ Read(j, id, "signing")
    /\ Promotable(id, dirs[id].manifest)
    /\ UNCHANGED <<storeVars, fileVars, historyVars>>

DigestForSigning(j) ==
    /\ job[j].pc = "signing"
    /\ GoOn(j, Digested(j, "sign"))
    /\ UNCHANGED <<storeVars, fileVars, historyVars>>

Sign(j) ==
    /\ job[j].pc = "sign"
    /\ \A kind \in Kinds : Bound(kind, reports[kind], SubjectOf(j))
    /\ signed' = CreateEvaluationAttestation(SubjectOf(j), reports["agent"], reports["retrieval"])
    /\ Exit(j)
    /\ UNCHANGED <<storeVars, reports, historyVars>>

--------------------------------------------------------------------------
(* scripts/promote_release.py *)

LoadForPromotion(j, id) ==
    /\ Read(j, id, "promoting")
    /\ Promotable(id, dirs[id].manifest)
    /\ UNCHANGED <<storeVars, fileVars, historyVars>>

DigestForPromotion(j) ==
    /\ job[j].pc = "promoting"
    /\ GoOn(j, Digested(j, "verify"))
    /\ UNCHANGED <<storeVars, fileVars, historyVars>>

With(j, next, attestation) ==
    [pc |-> next, id |-> job[j].id, files |-> job[j].files, digest |-> job[j].digest,
     attestation |-> attestation]

VerifyAttestation(j) ==
    /\ job[j].pc = "verify"
    /\ Verifies(signed, SubjectOf(j))
    /\ GoOn(j, With(j, "publish_attestation", signed))
    /\ UNCHANGED <<storeVars, fileVars, historyVars>>

\* publish_attestation links the file under its own digest, or finds it there.
PublishAttestation(j) ==
    /\ job[j].pc = "publish_attestation"
    /\ stored' = stored \cup {job[j].attestation}
    /\ GoOn(j, With(j, "activate", job[j].attestation))
    /\ UNCHANGED <<dirs, edits, pointer, fileVars, historyVars>>

\* activate_release validates the tree once more ...
Revalidate(j) ==
    /\ job[j].pc = "activate"
    /\ Valid(job[j].id)
    /\ GoOn(j, With(j, "compare", job[j].attestation))
    /\ UNCHANGED <<storeVars, fileVars, historyVars>>

\* Faulty variant: the digest is taken again and not compared.
CompareDigestNot(j) ==
    /\ job[j].pc = "compare"
    /\ GoOn(j, [With(j, "switch", job[j].attestation)
                  EXCEPT !.digest = dirs[job[j].id].manifest])
    /\ UNCHANGED <<storeVars, fileVars, historyVars>>

\* ... compares the digest of the manifest with the one that was verified ...
CompareDigest(j) ==
    /\ job[j].pc = "compare"
    /\ dirs[job[j].id].manifest = job[j].digest
    /\ GoOn(j, With(j, "switch", job[j].attestation))
    /\ UNCHANGED <<storeVars, fileVars, historyVars>>

\* ... and replaces the pointer in one rename.
Switch(j) ==
    /\ job[j].pc = "switch"
    /\ pointer' = [identity |-> job[j].id, manifest |-> job[j].digest,
                   attestation |-> job[j].attestation]
    /\ activated' = activated \cup {Attested(job[j].attestation)}
    /\ Exit(j)
    /\ UNCHANGED <<dirs, edits, stored, fileVars, measured>>

--------------------------------------------------------------------------
(* load_active_release and _resolve_release_paths at the start of a worker.  *)
(* The pointer is read once; what it names is then verified step by step.    *)

ReadPointer(j) ==
    /\ pointer # None
    /\ Start(j, [pc |-> "load", id |-> pointer.identity, digest |-> pointer.manifest,
                 attestation |-> pointer.attestation])
    /\ UNCHANGED <<storeVars, fileVars, historyVars>>

ValidateActive(j) ==
    /\ job[j].pc = "load"
    /\ Valid(job[j].id)
    /\ GoOn(j, [pc |-> "load_digest", id |-> job[j].id, digest |-> job[j].digest,
                files |-> dirs[job[j].id].manifest, attestation |-> job[j].attestation])
    /\ UNCHANGED <<storeVars, fileVars, historyVars>>

\* Faulty variant: the pointer is read again for the attestation.
DigestActiveAndReread(j) ==
    /\ job[j].pc = "load_digest"
    /\ dirs[job[j].id].manifest = job[j].digest
    /\ GoOn(j, With(j, "load_attestation", pointer.attestation))
    /\ UNCHANGED <<storeVars, fileVars, historyVars>>

DigestActive(j) ==
    /\ job[j].pc = "load_digest"
    /\ dirs[job[j].id].manifest = job[j].digest
    /\ GoOn(j, With(j, "load_attestation", job[j].attestation))
    /\ UNCHANGED <<storeVars, fileVars, historyVars>>

VerifyActive(j) ==
    /\ job[j].pc = "load_attestation"
    /\ job[j].attestation \in stored
    /\ Verifies(job[j].attestation, SubjectOf(j))
    /\ GoOn(j, With(j, "resolve", job[j].attestation))
    /\ UNCHANGED <<storeVars, fileVars, historyVars>>

\* The database and the retrieval files are hashed again when they are opened; of
\* the data set manifest only the data set and the mode are looked at.
ResolvePaths(j) ==
    /\ job[j].pc = "resolve"
    /\ RuntimeFilesIntact(j)
    /\ GoOn(j, [pc |-> "serving", id |-> job[j].id, files |-> dirs[job[j].id].tree])
    /\ UNCHANGED <<storeVars, fileVars, historyVars>>

--------------------------------------------------------------------------
(* Any process ends at any time: it is done, a check or a call fails, or it  *)
(* dies.  What it had in its staging directory or in a temporary file is not *)
(* found by anybody.                                                         *)
End(j) ==
    /\ job[j] # Idle
    /\ Exit(j)
    /\ UNCHANGED <<storeVars, fileVars, historyVars>>

Edit(id) ==
    /\ dirs[id] # None
    /\ edits < MaxEdits
    /\ edits' = edits + 1
    /\ \E part \in {"files", "extra"} : dirs' = [dirs EXCEPT ![id].tree[part] = edits + 1]
    /\ UNCHANGED <<pointer, stored, fileVars, job, historyVars>>

AdaptManifest(id) ==
    /\ dirs[id] # None
    /\ dirs[id].manifest # dirs[id].tree
    /\ dirs' = [dirs EXCEPT ![id].manifest = dirs[id].tree]
    /\ UNCHANGED <<edits, pointer, stored, fileVars, job, historyVars>>

JobStep(j) ==
    \/ \E id \in Identities :
          \/ LoadForSigning(j, id) \/ LoadForPromotion(j, id)
          \/ \E kind \in Kinds : LoadCandidate(j, kind, id)
    \/ ReuseRelease(j) \/ FindNoRelease(j) \/ Swap(j) \/ Recheck(j)
    \/ DigestCandidate(j)
    \/ \E run \in AgentRuns \cup RetrievalRuns : Measure(j, run)
    \/ WriteReport(j)
    \/ \E kind \in Kinds : \E run \in Runs(kind) : WriteDiagnostic(j, kind, run)
    \/ DigestForSigning(j) \/ Sign(j)
    \/ DigestForPromotion(j) \/ VerifyAttestation(j) \/ PublishAttestation(j)
    \/ Revalidate(j) \/ CompareDigest(j) \/ Switch(j)
    \/ ReadPointer(j) \/ ValidateActive(j) \/ DigestActive(j) \/ VerifyActive(j)
    \/ ResolvePaths(j)
    \/ End(j)

Disturbance == \E id \in Identities : Edit(id) \/ AdaptManifest(id)

Next ==
    \/ \E j \in Slots : JobStep(j) \/ \E id \in Identities : Build(j, id)
    \/ Disturbance

Spec == Init /\ [][Next]_vars

--------------------------------------------------------------------------
(* Properties *)

\* The attestation is stored and accepted for the release and the digest of the manifest.
Vouched(id, digest, attestation) ==
    /\ attestation \in stored
    /\ Verifies(attestation, Subject(id, attestation.subject.files, digest))

\* However promotions interleave and wherever they die, the pointer names a stored
\* attestation of exactly the release and the manifest that it names
\* (storage/release.py activate_release and publish_attestation are two file operations).
PointerAttested ==
    pointer # None => Vouched(pointer.identity, pointer.manifest, pointer.attestation)

Loading == {"load", "load_digest", "load_attestation", "resolve"}

\* As long as nobody touches the published directories, no promotion that happens while a
\* worker starts makes it refuse the release whose pointer it has read: everything that
\* load_active_release goes on to check holds.
WorkersAdmitted ==
    edits = 0 => \A j \in Slots : job[j].pc \in Loading =>
        /\ dirs[job[j].id] = [tree |-> Built, manifest |-> Built]
        /\ job[j].digest = Built
        /\ Vouched(job[j].id, Built, job[j].attestation)
        /\ job[j].attestation.subject.files = Built

\* No build, evaluation, signing, promotion or worker ever changes or removes a published
\* directory, whatever another one did after the last look at it (publish_release tests
\* for the directory and renames onto its name in two steps).
PublishedKept ==
    [][\A id \in Identities :
          dirs[id] # None /\ dirs'[id] # dirs[id] => Edit(id) \/ AdaptManifest(id)]_vars

Trust == INSTANCE ReleaseTrust WITH
    Workers <- Slots,
    passed <- measured,
    certified <- {Attested(a) : a \in stored},
    active <- IF pointer = None THEN None ELSE Attested(pointer.attestation),
    serving <- [j \in Slots |->
                  IF job[j].pc = "serving" THEN ContentOf(job[j].id, job[j].files.files) ELSE None]

\* What is served was active, what is active was attested, and what is attested is what
\* both evaluations measured, in spite of edits between any two readings of it.
ImplementsTrust == Trust!Spec
===========================================================================
