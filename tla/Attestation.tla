--------------------------- MODULE Attestation ---------------------------
(***************************************************************************)
(* What an evaluation attestation says and when it is accepted             *)
(* (storage/attestation.py, the lock of eval/holdout).  A release is       *)
(* identified by what its identity binds: data set, retrieval mode, commit *)
(* and cleanness of the checkout, holdout lock, and the digests of the     *)
(* database and the retrieval files, which are version 0 of the release.   *)
(* The hashes in a manifest are a listing: the version of those files and  *)
(* that of the data set manifest, which the identity does not bind.        *)
(* Keys and signatures are left out: a reader trusts one issuer.           *)
(***************************************************************************)
EXTENDS PromotionPolicy

CONSTANTS Identities,  \* the releases that builds can make
          None

NotSupplied == [status |-> "not_supplied"]

\* The lock that a restricted holdout manifest puts into a candidate.
ReleaseLock(holdout) ==
    [status |-> "frozen", kind |-> holdout.kind, dataset |-> holdout.dataset,
     cases |-> holdout.cases, queries |-> holdout.queries, documents |-> holdout.documents]

ValidLock(lock, dataset) ==
    /\ lock.status = "frozen"
    /\ lock.kind = "restricted_holdout"
    /\ lock.dataset = dataset
    /\ lock.cases > 0 /\ lock.queries > 0 /\ lock.documents > 0

\* release_evaluation_subject accepts the identity, and the manifest lists the digests
\* that the identity binds.
Promotable(id, listed) ==
    /\ id.mode = "hybrid"
    /\ ~id.dirty
    /\ ValidLock(id.holdout, id.dataset)
    /\ listed.files = 0

\* The subject names the release, the files its manifest lists, and the manifest's digest,
\* which is taken in a second reading.
Subject(id, listed, digest) == [identity |-> id, files |-> listed, manifest |-> digest]

\* _validate_report_binding: a report meets the policy and is about this subject, its
\* holdout, its files and its commit.  Without a subject it was a diagnostic run.
Bound(kind, report, subject) ==
    LET lock == subject.identity.holdout IN
    /\ report # None
    /\ IF kind = "agent"
         THEN ValidAgentReport(AgentReport(report.run), lock.cases)
         ELSE ValidRetrievalReport(RetrievalReport(report.run), lock.queries, lock.documents)
    /\ report.subject = subject
    /\ report.files = subject.files
    /\ report.commit = subject.identity.commit

\* What is signed: both reports in a view without questions and outcomes.
CreateEvaluationAttestation(subject, agent, retrieval) ==
    [subject |-> subject, reports |-> [agent |-> agent, retrieval |-> retrieval]]

Verifies(attestation, subject) ==
    /\ attestation # None
    /\ attestation.subject = subject
    /\ \A kind \in {"agent", "retrieval"} :
           Bound(kind, attestation.reports[kind], attestation.subject)
==========================================================================
