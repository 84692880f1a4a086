--------------------------- MODULE ReleaseProofs ---------------------------
(***************************************************************************)
(* Theorems about ReleasePipeline, for any releases, processes, runs of    *)
(* the evaluations and edits, and whatever the order of the steps and of   *)
(* the deaths.  What a process has read is only worth something because of *)
(* what it checked on the way: the invariant says, place by place, what    *)
(* follows from the checks made so far.                                    *)
(***************************************************************************)
EXTENDS ReleasePipeline, TLAPS

\* Where a process has read the listing of its release, ...
Reading == {"evaluating", "measure", "report", "signing", "sign", "promoting", "verify",
            "publish_attestation", "activate", "compare", "switch",
            "load_digest", "load_attestation", "resolve"}
\* ... where it has the digest of a manifest, ...
Digesting == {"measure", "report", "sign", "verify", "publish_attestation", "activate",
              "compare", "switch"} \cup Loading
\* ... where it has verified an attestation, and where it has one that is stored.
Verified == {"publish_attestation", "activate", "compare", "switch", "resolve"}
Storing == {"activate", "compare", "switch"} \cup Loading
Attesting == Verified \cup Loading

Types ==
    /\ dirs \in [Identities -> Directories \cup {None}]
    /\ edits \in Versions
    /\ pointer \in Pointers \cup {None}
    /\ reports \in [Kinds -> Reports \cup {None}]
    /\ signed \in Attestations \cup {None}
    /\ DOMAIN job = Slots

\* What each process has in its memory.
JobTypes ==
    \A j \in Slots :
        /\ job[j].pc # "idle" => job[j].id \in Identities
        /\ job[j].pc \in Reading => job[j].files \in Listings
        /\ job[j].pc \in Digesting => job[j].digest \in Listings
        /\ job[j].pc \in {"evaluating", "measure", "report"} => job[j].kind \in Kinds
        /\ job[j].pc = "report" => job[j].run \in AgentRuns \cup RetrievalRuns
        /\ job[j].pc \in Attesting => job[j].attestation \in Attestations
        /\ job[j].pc = "serving" => job[j].files \in Listings

\* A candidate's report that meets the policy comes from a measurement of its subject.
ReportMeasured(kind, report) ==
    report # None /\ report.run.candidate /\ MeetsPolicy(kind, report.run) =>
        <<kind, ContentOf(report.subject.identity, report.subject.files.files)>> \in measured

\* Both reports of what was signed do, ...
BothMeasured(a) ==
    ReportMeasured("agent", a.reports.agent) /\ ReportMeasured("retrieval", a.reports.retrieval)

\* ... and so does what a process goes on to write down or to publish.
JobMeasured(j) ==
    /\ job[j].pc = "report" /\ MeetsPolicy(job[j].kind, job[j].run) =>
         <<job[j].kind, ContentOf(job[j].id, job[j].files.files)>> \in measured
    /\ job[j].pc = "publish_attestation" => BothMeasured(job[j].attestation)

\* Whatever meets the policy in a file or in a process was measured.
Provenance ==
    /\ \A kind \in Kinds : ReportMeasured(kind, reports[kind])
    /\ signed # None => BothMeasured(signed)
    /\ \A j \in Slots : JobMeasured(j)

\* What the processes between the verification and the switch, and those that load a
\* release, know about their attestation.
Vouching ==
    \A j \in Slots :
        /\ job[j].pc \in Verified =>
             Verifies(job[j].attestation, Subject(job[j].id, job[j].files, job[j].digest))
        /\ job[j].pc \in Storing => job[j].attestation \in stored
        /\ job[j].pc \in Loading =>
             /\ Attested(job[j].attestation) \in activated
             /\ Vouched(job[j].id, job[j].digest, job[j].attestation)

\* The pointer names a release that is there, and what it names has been active.
PointerSound ==
    pointer # None =>
        /\ Vouched(pointer.identity, pointer.manifest, pointer.attestation)
        /\ Attested(pointer.attestation) \in activated
        /\ dirs[pointer.identity] # None

\* What a process works on does not disappear.
StillThere ==
    \A j \in Slots :
        /\ job[j].pc \in Reading \cup Loading => dirs[job[j].id] # None

\* As long as nobody touches the published directories, everything is as it was built.
Untouched ==
    edits = 0 =>
        /\ \A id \in Identities :
              dirs[id] # None => dirs[id] = [tree |-> Built, manifest |-> Built]
        /\ \A j \in Slots :
              /\ job[j].pc \in Reading => job[j].files = Built
              /\ job[j].pc \in Digesting => job[j].digest = Built
              /\ job[j].pc \in Loading => job[j].attestation.subject.files = Built
        /\ pointer # None =>
              /\ pointer.manifest = Built
              /\ pointer.attestation.subject.files = Built

Inv == /\ Types /\ JobTypes /\ StillThere
       /\ Provenance /\ Vouching /\ PointerSound /\ Untouched

-----------------------------------------------------------------------------
(* The policy: gates that are valid in a report are met by its metrics. *)

\* A metric as good as a threshold that is as strict as the policy's meets the policy.
LEMMA GatesMet ==
    ASSUME NEW gates, NEW rules, NEW metrics, NEW samples,
           ValidGates(gates, rules, metrics, samples),
           \A n \in DOMAIN rules : rules[n].threshold \in Int
    PROVE  \A n \in DOMAIN rules : Meets(rules[n].operator, metrics[n], rules[n].threshold)
BY DEF ValidGates, Meets, Probability

\* Only the candidate's own evaluation writes a valid agent report, and its metrics meet
\* the policy whatever thresholds the caller asked for (promotion_policy.py:174-201).
LEMMA AgentReportMeets ==
    ASSUME NEW run, NEW n, ValidAgentReport(AgentReport(run), n)
    PROVE  run.candidate /\ MeetsPolicy("agent", run)
<1> DEFINE report == AgentReport(run)
<1>1. report.eligible = run.candidate /\ report.metrics = run.metrics
  BY DEF AgentReport
<1>2. ValidGates(report.gates, AGENT_GATE_RULES, report.metrics, SamplesOfAgent(n))
  BY DEF ValidAgentReport
<1>3. \A k \in DOMAIN AGENT_GATE_RULES : AGENT_GATE_RULES[k].threshold \in Int
  BY DEF AGENT_GATE_RULES, Rule
<1>4. \A k \in DOMAIN AGENT_GATE_RULES :
          Meets(AGENT_GATE_RULES[k].operator, report.metrics[k], AGENT_GATE_RULES[k].threshold)
  BY <1>2, <1>3, GatesMet
<1> QED BY <1>1, <1>4 DEF ValidAgentReport, MeetsPolicy

\* The same of the retrieval report and each of its variants (promotion_policy.py:204-276).
LEMMA RetrievalReportMeets ==
    ASSUME NEW run, NEW q, NEW d, ValidRetrievalReport(RetrievalReport(run), q, d)
    PROVE  run.candidate /\ MeetsPolicy("retrieval", run)
<1> DEFINE report == RetrievalReport(run)
<1>1. report.eligible = run.candidate /\ report.variants = Variants
  BY DEF RetrievalReport, ValidRetrievalReport
<1>2. \A k \in DOMAIN RETRIEVAL_GATE_RULES : RETRIEVAL_GATE_RULES[k].threshold \in Int
  BY DEF RETRIEVAL_GATE_RULES, Rule
<1>3. ASSUME NEW v \in Variants
      PROVE  \A k \in DOMAIN RETRIEVAL_GATE_RULES :
                Meets(RETRIEVAL_GATE_RULES[k].operator, run.metrics[v][k],
                      RETRIEVAL_GATE_RULES[k].threshold)
  <2>1. v \in run.variants
    BY <1>1 DEF RetrievalReport
  <2>2. report.results[v] = VariantResult(run, v)
    BY <2>1 DEF RetrievalReport
  <2>3. report.results[v].metrics = run.metrics[v]
    BY <2>2 DEF VariantResult
  <2>4. ValidVariant(report.results[v], q)
    BY DEF ValidRetrievalReport
  <2>5. ValidGates(report.results[v].gates, RETRIEVAL_GATE_RULES, run.metrics[v],
                   SamplesOfVariant(q, report.results[v].hardNegatives))
    BY <2>3, <2>4 DEF ValidVariant
  <2> QED BY <1>2, <2>5, GatesMet
<1> QED BY <1>1, <1>3 DEF ValidRetrievalReport, MeetsPolicy

\* So a report that is bound to a subject was measured on that subject.
LEMMA BoundMeasured ==
    ASSUME NEW kind \in Kinds, NEW report, NEW subject,
           Bound(kind, report, subject), ReportMeasured(kind, report)
    PROVE  <<kind, ContentOf(subject.identity, subject.files.files)>> \in measured
<1>1. report # None /\ report.subject = subject
  BY DEF Bound
<1>2. report.run.candidate /\ MeetsPolicy(kind, report.run)
  BY AgentReportMeets, RetrievalReportMeets DEF Bound, Kinds
<1> QED BY <1>1, <1>2 DEF ReportMeasured

-----------------------------------------------------------------------------
\* The invariant holds of an empty directory.
LEMMA InvInit == PipelineInit => Inv
BY ReleaseAssumption
   DEF PipelineInit, Init, Inv, Types, JobTypes, StillThere, Provenance, Vouching, PointerSound,
       Untouched, ReportMeasured, JobMeasured, Idle, Versions, Kinds, Reading, Digesting, Verified, Storing,
       Attesting, Loading

\* What a build publishes has its type.
LEMMA BuiltListed ==
    /\ Built \in Listings
    /\ [tree |-> Built, manifest |-> Built] \in Directories
BY ReleaseAssumption DEF Built, Listings, Versions, Directories

\* Measurements are never taken back, so only a new report, a new signature and a process
\* that has just measured or verified need a look.
LEMMA ProvenanceKept ==
    ASSUME Provenance, measured \subseteq measured',
           \A kind \in Kinds : reports'[kind] = reports[kind] \/ ReportMeasured(kind, reports[kind])',
           signed' = signed \/ BothMeasured(signed)',
           \A k \in Slots : \/ job'[k] = job[k]
                            \/ job'[k].pc \notin {"report", "publish_attestation"}
                            \/ JobMeasured(k)'
    PROVE  Provenance'
<1>1. \A kind \in Kinds : ReportMeasured(kind, reports[kind])'
  BY DEF Provenance, ReportMeasured
<1>2. signed' # None => BothMeasured(signed)'
  BY DEF Provenance, BothMeasured, ReportMeasured
<1>3. ASSUME NEW k \in Slots PROVE JobMeasured(k)'
  <2>1. CASE job'[k] = job[k]
    <3>1. JobMeasured(k)
      BY DEF Provenance
    <3> QED BY <2>1, <3>1 DEF JobMeasured, BothMeasured, ReportMeasured
  <2>2. CASE job'[k].pc \notin {"report", "publish_attestation"}
    BY <2>2 DEF JobMeasured
  <2> QED BY <2>1, <2>2
<1> QED BY <1>1, <1>2, <1>3 DEF Provenance

\* Every step of every process, every death and every edit keeps the invariant.
LEMMA InvNext == Inv /\ [Next]_vars => Inv'
<1> SUFFICES ASSUME Inv, [Next]_vars PROVE Inv'
  OBVIOUS
<1> USE ReleaseAssumption, BuiltListed
    DEF Inv, Idle, Kinds, Reading, Digesting, Verified, Storing, Attesting, Loading,
        Start, GoOn, Exit, Valid, With, Digested, SubjectOf, Directories,
        storeVars, fileVars, historyVars
<1>1. ASSUME NEW j \in Slots, NEW id \in Identities, Build(j, id) PROVE Inv'
  <2>1. Provenance'
    BY <1>1, ProvenanceKept DEF Build, Types
  <2>2. Types' /\ JobTypes' /\ StillThere' /\ Untouched'
    BY <1>1 DEF Build, Types, JobTypes, StillThere, PointerSound, Untouched
  <2>3. Vouching' /\ PointerSound'
    BY <1>1 DEF Build, Vouching, Vouched, Types, JobTypes, PointerSound, StillThere
  <2> QED BY <2>1, <2>2, <2>3
<1>2. ASSUME NEW j \in Slots, NEW id \in Identities, LoadForSigning(j, id) PROVE Inv'
  <2>1. Provenance'
    BY <1>2, ProvenanceKept DEF LoadForSigning, Read, Types
  <2>2. Types' /\ JobTypes' /\ StillThere' /\ Untouched'
    BY <1>2 DEF LoadForSigning, Read, Types, JobTypes, StillThere, PointerSound, Untouched
  <2>3. Vouching' /\ PointerSound'
    BY <1>2
       DEF LoadForSigning, Read, Vouching, Vouched, Types, JobTypes, PointerSound, StillThere
  <2> QED BY <2>1, <2>2, <2>3
<1>3. ASSUME NEW j \in Slots, NEW id \in Identities, LoadForPromotion(j, id) PROVE Inv'
  <2>1. Provenance'
    BY <1>3, ProvenanceKept DEF LoadForPromotion, Read, Types
  <2>2. Types' /\ JobTypes' /\ StillThere' /\ Untouched'
    BY <1>3 DEF LoadForPromotion, Read, Types, JobTypes, StillThere, PointerSound, Untouched
  <2>3. Vouching' /\ PointerSound'
    BY <1>3
       DEF LoadForPromotion, Read, Vouching, Vouched, Types, JobTypes, PointerSound, StillThere
  <2> QED BY <2>1, <2>2, <2>3
<1>4. ASSUME NEW j \in Slots, NEW id \in Identities, NEW kind \in Kinds, LoadCandidate(j, kind, id)
      PROVE  Inv'
  <2>1. Provenance'
    BY <1>4, ProvenanceKept DEF LoadCandidate, Types
  <2>2. Types' /\ JobTypes' /\ StillThere' /\ Untouched'
    BY <1>4 DEF LoadCandidate, Types, JobTypes, StillThere, PointerSound, Untouched
  <2>3. Vouching' /\ PointerSound'
    BY <1>4 DEF LoadCandidate, Vouching, Vouched, Types, JobTypes, PointerSound, StillThere
  <2> QED BY <2>1, <2>2, <2>3
<1>5. ASSUME NEW j \in Slots, NEW run \in AgentRuns \cup RetrievalRuns, Measure(j, run)
      PROVE  Inv'
  <2>1. Provenance'
    <3>1. JobMeasured(j)'
      BY <1>5 DEF Measure, RuntimeFilesIntact, JobMeasured, Types, ContentOf
    <3> QED BY <1>5, <3>1, ProvenanceKept DEF Measure, Types
  <2>2. Types' /\ JobTypes' /\ StillThere' /\ Untouched'
    BY <1>5
       DEF Measure, RuntimeFilesIntact, Types, JobTypes, StillThere, PointerSound, Untouched
  <2>3. Vouching' /\ PointerSound'
    BY <1>5
       DEF Measure, RuntimeFilesIntact, Vouching, Vouched, Types, JobTypes, PointerSound,
           StillThere
  <2> QED BY <2>1, <2>2, <2>3
<1>6. ASSUME NEW j \in Slots, NEW kind \in Kinds, NEW run \in Runs(kind), WriteDiagnostic(j, kind, run)
      PROVE  Inv'
  <2>1. Types'
    <3> DEFINE report == [run |-> run, subject |-> None, files |-> None, commit |-> None]
    <3>1. report \in Reports
      BY DEF Reports, Runs
    <3> QED BY <1>6, <3>1 DEF WriteDiagnostic, Types
  <2>2. Provenance'
    <3>1. \A k \in Kinds : reports'[k] = reports[k] \/ ReportMeasured(k, reports[k])'
      BY <1>6 DEF WriteDiagnostic, Types, ReportMeasured
    <3> QED BY <1>6, <3>1, ProvenanceKept DEF WriteDiagnostic
  <2>3. JobTypes' /\ StillThere' /\ Untouched'
    BY <1>6 DEF WriteDiagnostic, Runs, Types, JobTypes, StillThere, PointerSound, Untouched
  <2>4. Vouching' /\ PointerSound'
    BY <1>6
       DEF WriteDiagnostic, Runs, Vouching, Vouched, Types, JobTypes, PointerSound, StillThere
  <2> QED BY <2>1, <2>2, <2>3, <2>4
<1>7. ASSUME NEW j \in Slots, ReuseRelease(j) PROVE Inv'
  <2>1. Provenance'
    BY <1>7, ProvenanceKept DEF ReuseRelease, Types
  <2>2. Types' /\ JobTypes' /\ StillThere' /\ Untouched'
    BY <1>7 DEF ReuseRelease, Types, JobTypes, StillThere, PointerSound, Untouched
  <2>3. Vouching' /\ PointerSound'
    BY <1>7 DEF ReuseRelease, Vouching, Vouched, Types, JobTypes, PointerSound, StillThere
  <2> QED BY <2>1, <2>2, <2>3
<1>8. ASSUME NEW j \in Slots, FindNoRelease(j) PROVE Inv'
  <2>1. Provenance'
    BY <1>8, ProvenanceKept DEF FindNoRelease, Types
  <2>2. Types' /\ JobTypes' /\ StillThere' /\ Untouched'
    BY <1>8 DEF FindNoRelease, Types, JobTypes, StillThere, PointerSound, Untouched
  <2>3. Vouching' /\ PointerSound'
    BY <1>8 DEF FindNoRelease, Vouching, Vouched, Types, JobTypes, PointerSound, StillThere
  <2> QED BY <2>1, <2>2, <2>3
<1>9. ASSUME NEW j \in Slots, Swap(j) PROVE Inv'
  <2>0. /\ UNCHANGED <<edits, pointer, stored, fileVars, historyVars>>
        /\ \A k \in Slots : job'[k].pc \in {"recheck", "refused"} \/ job'[k] = job[k]
        /\ \A id \in Identities : dirs[id] # None => dirs'[id] = dirs[id]
    BY <1>9 DEF Swap, Types, Directories
  <2>1. PointerSound'
    BY <2>0 DEF PointerSound, Vouched, Types, Pointers
  <2>2. Provenance'
    BY <1>9, <2>0, ProvenanceKept DEF Types
  <2>3. Types' /\ JobTypes' /\ StillThere' /\ Untouched'
    BY <1>9, <2>0 DEF Swap, Types, JobTypes, StillThere, PointerSound, Untouched
  <2>4. Vouching'
    BY <1>9, <2>0 DEF Swap, Vouching, Vouched, Types, JobTypes, PointerSound
  <2> QED BY <2>1, <2>2, <2>3, <2>4
<1>10. ASSUME NEW j \in Slots, Recheck(j) PROVE Inv'
  <2>1. Provenance'
    BY <1>10, ProvenanceKept DEF Recheck, Types
  <2>2. Types' /\ JobTypes' /\ StillThere' /\ Untouched'
    BY <1>10 DEF Recheck, Types, JobTypes, StillThere, PointerSound, Untouched
  <2>3. Vouching' /\ PointerSound'
    BY <1>10 DEF Recheck, Vouching, Vouched, Types, JobTypes, PointerSound, StillThere
  <2> QED BY <2>1, <2>2, <2>3
<1>11. ASSUME NEW j \in Slots, DigestCandidate(j) PROVE Inv'
  <2>1. Provenance'
    BY <1>11, ProvenanceKept DEF DigestCandidate, Types
  <2>2. Types' /\ JobTypes' /\ StillThere' /\ Untouched'
    BY <1>11 DEF DigestCandidate, Types, JobTypes, StillThere, PointerSound, Untouched
  <2>3. Vouching' /\ PointerSound'
    BY <1>11 DEF DigestCandidate, Vouching, Vouched, Types, JobTypes, PointerSound, StillThere
  <2> QED BY <2>1, <2>2, <2>3
<1>12. ASSUME NEW j \in Slots, WriteReport(j) PROVE Inv'
  <2>1. Types'
    <3> DEFINE report == [run |-> job[j].run, subject |-> SubjectOf(j),
                          files |-> dirs[job[j].id].tree, commit |-> job[j].id.commit]
    <3>1. /\ job[j].id \in Identities /\ job[j].files \in Listings /\ job[j].digest \in Listings
          /\ job[j].run \in AgentRuns \cup RetrievalRuns /\ dirs[job[j].id] \in Directories
      BY <1>12 DEF WriteReport, JobTypes, Types, StillThere
    <3>2. report \in Reports
      BY <3>1 DEF Reports, Subjects, Subject
    <3>3. reports' = [reports EXCEPT ![job[j].kind] = report]
      BY <1>12 DEF WriteReport
    <3> QED BY <1>12, <3>2, <3>3 DEF WriteReport, Types
  <2>2. Provenance'
    <3>1. ASSUME NEW kind \in Kinds PROVE ReportMeasured(kind, reports[kind])'
      <4>1. CASE kind = job[j].kind
        BY <1>12, <4>1
           DEF WriteReport, Provenance, JobMeasured, Types, JobTypes, ReportMeasured, Subject, ContentOf
      <4>2. CASE kind # job[j].kind
        BY <1>12, <4>2 DEF WriteReport, Provenance, Types, ReportMeasured
      <4> QED BY <4>1, <4>2
    <3> QED BY <1>12, <3>1, ProvenanceKept DEF WriteReport, Types
  <2>3. JobTypes' /\ StillThere' /\ Untouched'
    BY <1>12 DEF WriteReport, Types, JobTypes, StillThere, PointerSound, Untouched
  <2>4. Vouching' /\ PointerSound'
    BY <1>12 DEF WriteReport, Vouching, Vouched, Types, JobTypes, PointerSound, StillThere
  <2> QED BY <2>1, <2>2, <2>3, <2>4
<1>13. ASSUME NEW j \in Slots, DigestForSigning(j) PROVE Inv'
  <2>1. Provenance'
    BY <1>13, ProvenanceKept DEF DigestForSigning, Types
  <2>2. Types' /\ JobTypes' /\ StillThere' /\ Untouched'
    BY <1>13 DEF DigestForSigning, Types, JobTypes, StillThere, PointerSound, Untouched
  <2>3. Vouching' /\ PointerSound'
    BY <1>13 DEF DigestForSigning, Vouching, Vouched, Types, JobTypes, PointerSound, StillThere
  <2> QED BY <2>1, <2>2, <2>3
<1>14. ASSUME NEW j \in Slots, Sign(j) PROVE Inv'
  <2>1. Types'
    <3>1. reports["agent"] \in Reports /\ reports["retrieval"] \in Reports
      BY <1>14 DEF Sign, Bound, Types
    <3>2. SubjectOf(j) \in Subjects
      BY <1>14 DEF Sign, Subjects, Subject, JobTypes
    <3>3. signed' \in Attestations
      BY <1>14, <3>1, <3>2 DEF Sign, CreateEvaluationAttestation, Attestations
    <3> QED BY <1>14, <3>3 DEF Sign, Types
  <2>2. Provenance'
    <3>1. signed'.reports.agent = reports["agent"] /\ signed'.reports.retrieval = reports["retrieval"]
      BY <1>14 DEF Sign, CreateEvaluationAttestation
    <3>2. BothMeasured(signed)'
      BY <1>14, <3>1 DEF Sign, Provenance, ReportMeasured, BothMeasured
    <3> QED BY <1>14, <3>2, ProvenanceKept DEF Sign, Types
  <2>3. JobTypes' /\ StillThere' /\ Untouched'
    BY <1>14 DEF Sign, Types, JobTypes, StillThere, PointerSound, Untouched
  <2>4. Vouching' /\ PointerSound'
    BY <1>14 DEF Sign, Vouching, Vouched, Types, JobTypes, PointerSound, StillThere
  <2> QED BY <2>1, <2>2, <2>3, <2>4
<1>15. ASSUME NEW j \in Slots, DigestForPromotion(j) PROVE Inv'
  <2>1. Provenance'
    BY <1>15, ProvenanceKept DEF DigestForPromotion, Types
  <2>2. Types' /\ JobTypes' /\ StillThere' /\ Untouched'
    BY <1>15 DEF DigestForPromotion, Types, JobTypes, StillThere, PointerSound, Untouched
  <2>3. Vouching' /\ PointerSound'
    BY <1>15
       DEF DigestForPromotion, Vouching, Vouched, Types, JobTypes, PointerSound, StillThere
  <2> QED BY <2>1, <2>2, <2>3
<1>16. ASSUME NEW j \in Slots, VerifyAttestation(j) PROVE Inv'
  <2>1. Provenance'
    <3>1. BothMeasured(signed)
      BY <1>16 DEF VerifyAttestation, Verifies, Provenance
    <3>2. JobMeasured(j)'
      BY <1>16, <3>1 DEF VerifyAttestation, JobMeasured, BothMeasured, ReportMeasured, Types
    <3> QED BY <1>16, <3>2, ProvenanceKept DEF VerifyAttestation, Types
  <2>2. Types' /\ JobTypes' /\ StillThere' /\ Untouched'
    BY <1>16
       DEF VerifyAttestation, Verifies, Types, JobTypes, StillThere, PointerSound, Untouched
  <2>3. Vouching' /\ PointerSound'
    BY <1>16
       DEF VerifyAttestation, Verifies, Vouching, Vouched, Types, JobTypes, PointerSound,
           StillThere
  <2> QED BY <2>1, <2>2, <2>3
<1>17. ASSUME NEW j \in Slots, PublishAttestation(j) PROVE Inv'
  <2>1. Provenance'
    BY <1>17, ProvenanceKept DEF PublishAttestation, Types
  <2>2. Types' /\ JobTypes' /\ StillThere' /\ Untouched'
    BY <1>17 DEF PublishAttestation, Types, JobTypes, StillThere, PointerSound, Untouched
  <2>3. Vouching' /\ PointerSound'
    BY <1>17
       DEF PublishAttestation, Vouching, Vouched, Types, JobTypes, PointerSound, StillThere
  <2> QED BY <2>1, <2>2, <2>3
<1>18. ASSUME NEW j \in Slots, Revalidate(j) PROVE Inv'
  <2>1. Provenance'
    BY <1>18, ProvenanceKept DEF Revalidate, Types
  <2>2. Types' /\ JobTypes' /\ StillThere' /\ Untouched'
    BY <1>18 DEF Revalidate, Types, JobTypes, StillThere, PointerSound, Untouched
  <2>3. Vouching' /\ PointerSound'
    BY <1>18 DEF Revalidate, Vouching, Vouched, Types, JobTypes, PointerSound, StillThere
  <2> QED BY <2>1, <2>2, <2>3
<1>19. ASSUME NEW j \in Slots, CompareDigest(j) PROVE Inv'
  <2>1. Provenance'
    BY <1>19, ProvenanceKept DEF CompareDigest, Types
  <2>2. Types' /\ JobTypes' /\ StillThere' /\ Untouched'
    BY <1>19 DEF CompareDigest, Types, JobTypes, StillThere, PointerSound, Untouched
  <2>3. Vouching' /\ PointerSound'
    BY <1>19 DEF CompareDigest, Vouching, Vouched, Types, JobTypes, PointerSound, StillThere
  <2> QED BY <2>1, <2>2, <2>3
<1>20. ASSUME NEW j \in Slots, Switch(j) PROVE Inv'
  <2>1. Types'
    <3>1. pointer' \in Pointers
      BY <1>20 DEF Switch, JobTypes, Pointers
    <3> QED BY <1>20, <3>1 DEF Switch, Types
  <2>2. PointerSound'
    <3>1. Verifies(job[j].attestation, Subject(job[j].id, job[j].files, job[j].digest))
      BY <1>20 DEF Switch, Vouching
    <3>2. job[j].attestation.subject = Subject(job[j].id, job[j].files, job[j].digest)
      BY <3>1 DEF Verifies
    <3>3. job[j].attestation.subject.files = job[j].files
      BY <3>2 DEF Subject
    <3>4. job[j].attestation \in stored /\ dirs[job[j].id] # None
      BY <1>20 DEF Switch, Vouching, StillThere
    <3>5. Vouched(job[j].id, job[j].digest, job[j].attestation)
      BY <3>1, <3>3, <3>4 DEF Vouched
    <3> QED BY <1>20, <3>4, <3>5 DEF Switch, PointerSound, Vouched
  <2>3. Untouched'
    <3>1. Verifies(job[j].attestation, Subject(job[j].id, job[j].files, job[j].digest))
      BY <1>20 DEF Switch, Vouching
    <3>2. job[j].attestation.subject.files = job[j].files
      BY <3>1 DEF Verifies, Subject
    <3> QED BY <1>20, <3>2 DEF Switch, Untouched, Types
  <2>4. Provenance'
    BY <1>20, ProvenanceKept DEF Switch, Types
  <2>5. JobTypes' /\ StillThere'
    BY <1>20 DEF Switch, Types, JobTypes, StillThere, PointerSound
  <2>6. Vouching'
    BY <1>20 DEF Switch, Vouching, Vouched, Types, JobTypes, PointerSound
  <2> QED BY <2>1, <2>2, <2>3, <2>4, <2>5, <2>6
<1>21. ASSUME NEW j \in Slots, ReadPointer(j) PROVE Inv'
  <2>1. JobTypes'
    BY <1>21 DEF ReadPointer, JobTypes, Types, Pointers
  <2>2. Provenance'
    BY <1>21, ProvenanceKept DEF ReadPointer, Types
  <2>3. Types' /\ StillThere' /\ Untouched'
    BY <1>21 DEF ReadPointer, Types, JobTypes, StillThere, PointerSound, Untouched
  <2>4. Vouching' /\ PointerSound'
    BY <1>21 DEF ReadPointer, Vouching, Vouched, Types, JobTypes, PointerSound, StillThere
  <2> QED BY <2>1, <2>2, <2>3, <2>4
<1>22. ASSUME NEW j \in Slots, ValidateActive(j) PROVE Inv'
  <2>1. Provenance'
    BY <1>22, ProvenanceKept DEF ValidateActive, Types
  <2>2. Types' /\ JobTypes' /\ StillThere' /\ Untouched'
    BY <1>22 DEF ValidateActive, Types, JobTypes, StillThere, PointerSound, Untouched
  <2>3. Vouching' /\ PointerSound'
    BY <1>22 DEF ValidateActive, Vouching, Vouched, Types, JobTypes, PointerSound, StillThere
  <2> QED BY <2>1, <2>2, <2>3
<1>23. ASSUME NEW j \in Slots, DigestActive(j) PROVE Inv'
  <2>1. Provenance'
    BY <1>23, ProvenanceKept DEF DigestActive, Types
  <2>2. Types' /\ JobTypes' /\ StillThere' /\ Untouched'
    BY <1>23 DEF DigestActive, Types, JobTypes, StillThere, PointerSound, Untouched
  <2>3. Vouching' /\ PointerSound'
    BY <1>23 DEF DigestActive, Vouching, Vouched, Types, JobTypes, PointerSound, StillThere
  <2> QED BY <2>1, <2>2, <2>3
<1>24. ASSUME NEW j \in Slots, VerifyActive(j) PROVE Inv'
  <2>1. Provenance'
    BY <1>24, ProvenanceKept DEF VerifyActive, Types
  <2>2. Types' /\ JobTypes' /\ StillThere' /\ Untouched'
    BY <1>24 DEF VerifyActive, Types, JobTypes, StillThere, PointerSound, Untouched
  <2>3. Vouching' /\ PointerSound'
    BY <1>24 DEF VerifyActive, Vouching, Vouched, Types, JobTypes, PointerSound, StillThere
  <2> QED BY <2>1, <2>2, <2>3
<1>25. ASSUME NEW j \in Slots, ResolvePaths(j) PROVE Inv'
  <2>1. Provenance'
    BY <1>25, ProvenanceKept DEF ResolvePaths, Types
  <2>2. Types' /\ JobTypes' /\ StillThere' /\ Untouched'
    BY <1>25 DEF ResolvePaths, Types, JobTypes, StillThere, PointerSound, Untouched
  <2>3. Vouching' /\ PointerSound'
    BY <1>25 DEF ResolvePaths, Vouching, Vouched, Types, JobTypes, PointerSound, StillThere
  <2> QED BY <2>1, <2>2, <2>3
<1>26. ASSUME NEW j \in Slots, End(j) PROVE Inv'
  <2>1. Provenance'
    BY <1>26, ProvenanceKept DEF End, Types
  <2>2. Types' /\ JobTypes' /\ StillThere' /\ Untouched'
    BY <1>26 DEF End, Types, JobTypes, StillThere, PointerSound, Untouched
  <2>3. Vouching' /\ PointerSound'
    BY <1>26 DEF End, Vouching, Vouched, Types, JobTypes, PointerSound, StillThere
  <2> QED BY <2>1, <2>2, <2>3
<1>27. ASSUME NEW id \in Identities, Edit(id) PROVE Inv'
  <2>0. /\ edits + 1 \in Versions /\ edits + 1 # 0
        /\ dirs' \in [Identities -> Directories \cup {None}]
        /\ \A i \in Identities : dirs[i] # None => dirs'[i] # None
    <3>1. PICK part \in {"files", "extra"} : dirs' = [dirs EXCEPT ![id].tree[part] = edits + 1]
      BY <1>27 DEF Edit
    <3>2. dirs[id] \in Directories /\ edits + 1 \in Versions /\ edits + 1 # 0
      BY <1>27 DEF Edit, Types, Versions
    <3>3. [dirs[id].tree EXCEPT ![part] = edits + 1] \in Listings
      BY <3>2 DEF Listings, Directories
    <3>4. [dirs[id] EXCEPT !.tree[part] = edits + 1] \in Directories
      BY <3>2, <3>3 DEF Directories
    <3> QED BY <3>1, <3>2, <3>4 DEF Types
  <2>1. Types'
    BY <1>27, <2>0 DEF Edit, Types
  <2>2. Provenance'
    BY <1>27, ProvenanceKept DEF Edit, Types
  <2>3. JobTypes' /\ StillThere' /\ Untouched'
    BY <1>27, <2>0 DEF Edit, Versions, Types, JobTypes, StillThere, PointerSound, Untouched
  <2>4. Vouching' /\ PointerSound'
    BY <1>27, <2>0
       DEF Edit, Versions, Vouching, Vouched, Types, JobTypes, PointerSound, StillThere
  <2> QED BY <2>1, <2>2, <2>3, <2>4
<1>28. ASSUME NEW id \in Identities, AdaptManifest(id) PROVE Inv'
  <2>1. Provenance'
    BY <1>28, ProvenanceKept DEF AdaptManifest, Types
  <2>2. Types' /\ JobTypes' /\ StillThere' /\ Untouched'
    BY <1>28 DEF AdaptManifest, Types, JobTypes, StillThere, PointerSound, Untouched
  <2>3. Vouching' /\ PointerSound'
    BY <1>28 DEF AdaptManifest, Vouching, Vouched, Types, JobTypes, PointerSound, StillThere
  <2> QED BY <2>1, <2>2, <2>3
<1>29. ASSUME UNCHANGED vars PROVE Inv'
  BY <1>29 DEF vars, Types, JobTypes, StillThere, Provenance, ReportMeasured, BothMeasured, JobMeasured, 
       Vouching, Vouched, PointerSound, Untouched
<1> HIDE DEF Inv, Idle, Kinds, Start, GoOn, Exit
<1> QED
  BY <1>1, <1>2, <1>3, <1>4, <1>5, <1>6, <1>7, <1>8, <1>9, <1>10, <1>11, <1>12, <1>13, <1>14, <1>15, <1>16, <1>17, <1>18, <1>19, <1>20, <1>21, <1>22, <1>23, <1>24, <1>25, <1>26, <1>27, <1>28, <1>29 DEF Next, JobStep, Disturbance

-----------------------------------------------------------------------------
\* Installations leave the store alone, and a build from an installed data set is a build.
LEMMA PipelineSteps == [PipelineNext]_pipelineVars => [Next]_vars
BY DEF PipelineNext, pipelineVars, InstallStep, StoreStep, BuildInstalled, Next

\* The invariant holds throughout.
LEMMA Invariance == PipelineSpec => []Inv
BY InvInit, InvNext, PipelineSteps, PTL DEF PipelineSpec

\* The pointer never names a release whose attestation is not stored or is about another
\* release or manifest (release.py:288-362, promote_release.py:62-90).
THEOREM PointerAlwaysAttested == PipelineSpec => []PointerAttested
<1>1. Inv => PointerAttested
  BY DEF Inv, PointerSound, PointerAttested
<1> QED BY <1>1, Invariance, PTL

\* Without edits, a worker that has read the pointer is never refused because of promotions
\* that happen while it loads (release.py:405-484).
THEOREM WorkersAlwaysAdmitted == PipelineSpec => []WorkersAdmitted
<1>1. Inv => WorkersAdmitted
  <2> SUFFICES ASSUME Inv, edits = 0, NEW j \in Slots, job[j].pc \in Loading
               PROVE  /\ dirs[job[j].id] = [tree |-> Built, manifest |-> Built]
                      /\ job[j].digest = Built
                      /\ Vouched(job[j].id, Built, job[j].attestation)
                      /\ job[j].attestation.subject.files = Built
    BY DEF WorkersAdmitted
  <2>1. job[j].id \in Identities /\ dirs[job[j].id] # None
    BY DEF Inv, JobTypes, StillThere, Loading
  <2>2. job[j].digest = Built /\ job[j].attestation.subject.files = Built
    BY DEF Inv, Untouched, Digesting
  <2>3. Vouched(job[j].id, job[j].digest, job[j].attestation)
    BY DEF Inv, Vouching
  <2> QED BY <2>1, <2>2, <2>3 DEF Inv, Untouched
<1> QED BY <1>1, Invariance, PTL

\* No process changes a published directory (release.py:240-276): what a build does after
\* its last look at the directory fails when somebody else has published meanwhile.
THEOREM PublishedAlwaysKept == PipelineSpec => PublishedKept
<1>1. ASSUME Inv, [Next]_vars, NEW id \in Identities, dirs[id] # None, dirs'[id] # dirs[id]
      PROVE  Edit(id) \/ AdaptManifest(id)
  <2>1. DOMAIN dirs = Identities
    BY <1>1 DEF Inv, Types
  <2>2. ASSUME NEW i \in Identities, Edit(i) PROVE Edit(id)
    <3>1. i = id
      BY <1>1, <2>1, <2>2 DEF Edit
    <3> QED BY <2>2, <3>1
  <2>3. ASSUME NEW i \in Identities, AdaptManifest(i) PROVE AdaptManifest(id)
    <3>1. i = id
      BY <1>1, <2>1, <2>3 DEF AdaptManifest
    <3> QED BY <2>3, <3>1
  <2>4. ASSUME NEW j \in Slots, Swap(j) PROVE FALSE
    BY <1>1, <2>1, <2>4 DEF Swap
  <2>5. ASSUME NEW j \in Slots, JobStep(j) \/ \E i \in Identities : Build(j, i) PROVE FALSE
    BY <1>1, <2>4, <2>5
       DEF JobStep, Build, LoadForSigning, LoadForPromotion, LoadCandidate, ReuseRelease,
           FindNoRelease, Recheck, DigestCandidate, Measure, WriteReport, WriteDiagnostic,
           DigestForSigning, Sign, DigestForPromotion, VerifyAttestation, PublishAttestation,
           Revalidate, CompareDigest, Switch, ReadPointer, ValidateActive, DigestActive,
           VerifyActive, ResolvePaths, End, storeVars
  <2> QED BY <1>1, <2>2, <2>3, <2>5 DEF Next, Disturbance, vars, storeVars
<1>2. Inv /\ [PipelineNext]_pipelineVars =>
        [\A id \in Identities :
            dirs[id] # None /\ dirs'[id] # dirs[id] => Edit(id) \/ AdaptManifest(id)]_vars
  BY <1>1, PipelineSteps
<1> QED BY <1>2, Invariance, PTL DEF PipelineSpec, PublishedKept

-----------------------------------------------------------------------------
(* Implementation of ReleaseTrust *)

Certified == {Attested(a) : a \in stored}
Active == IF pointer = None THEN None ELSE Attested(pointer.attestation)
ServedBy(j) == IF job[j].pc = "serving" THEN ContentOf(job[j].id, job[j].files.files) ELSE None
Serving == [j \in Slots |-> ServedBy(j)]

\* What is about an attested subject is about contents of a release.
LEMMA AttestedContents == \A a \in Attestations : Attested(a) \in Contents
BY DEF Attestations, Subjects, Listings, Attested, ContentOf, Contents

\* A worker starts to serve only what was active, however old its view of the pointer is.
LEMMA ServesActivated ==
    ASSUME Inv, NEW j \in Slots, ResolvePaths(j)
    PROVE  Trust!Next
<1> DEFINE c == ContentOf(job[j].id, dirs[job[j].id].tree.files)
<1>1. /\ job[j].pc = "resolve" /\ job[j].id \in Identities /\ dirs[job[j].id] \in Directories
      /\ dirs[job[j].id].tree.files = job[j].files.files
  BY DEF ResolvePaths, RuntimeFilesIntact, Inv, Types, JobTypes, StillThere, Loading
<1>2. c \in Contents
  BY <1>1 DEF Directories, Listings, Contents, ContentOf
<1>3. c \in activated
  <2>1. /\ Verifies(job[j].attestation, Subject(job[j].id, job[j].files, job[j].digest))
        /\ Attested(job[j].attestation) \in activated
    BY <1>1 DEF Inv, Vouching, Verified, Loading
  <2>2. job[j].attestation.subject = Subject(job[j].id, job[j].files, job[j].digest)
    BY <2>1 DEF Verifies
  <2> QED BY <1>1, <2>1, <2>2 DEF Attested, Subject, ContentOf
<1>4. Serving' = [Serving EXCEPT ![j] = c]
  BY <1>1 DEF ResolvePaths, GoOn, Serving, ServedBy, Inv, Types
<1>5. UNCHANGED <<measured, Certified, activated, Active>>
  BY DEF ResolvePaths, storeVars, historyVars, Certified, Active
<1> QED
  BY <1>2, <1>3, <1>4, <1>5
     DEF Trust!Next, Trust!Serve, Certified, Active, Serving, ServedBy

\* What is published under attestations/ was measured by both evaluations.
LEMMA CertifiesMeasured ==
    ASSUME Inv, NEW j \in Slots, PublishAttestation(j)
    PROVE  Trust!Next
<1> DEFINE a == job[j].attestation
<1>1. /\ job[j].pc = "publish_attestation" /\ a \in Attestations
      /\ Verifies(a, Subject(job[j].id, job[j].files, job[j].digest)) /\ BothMeasured(a)
  BY DEF PublishAttestation, Inv, JobTypes, Vouching, Provenance, JobMeasured, Attesting, Verified
<1>2. \A kind \in Kinds : Bound(kind, a.reports[kind], a.subject)
  BY <1>1 DEF Verifies, Kinds
<1>3. <<"agent", Attested(a)>> \in measured /\ <<"retrieval", Attested(a)>> \in measured
  BY <1>1, <1>2, BoundMeasured DEF BothMeasured, Kinds, Attested
<1>4. Certified' = Certified \cup {Attested(a)}
  BY DEF PublishAttestation, Certified, Attested, ContentOf
<1>5. UNCHANGED <<measured, activated, Active, Serving>>
  BY <1>1 DEF PublishAttestation, GoOn, With, fileVars, historyVars, Active, Serving, ServedBy, Inv, Types
<1> QED
  BY <1>1, <1>3, <1>4, <1>5, AttestedContents
     DEF Trust!Next, Trust!Certify, Certified, Active, Serving, ServedBy

\* The pointer moves only to what has a published attestation.
LEMMA ActivatesCertified ==
    ASSUME Inv, NEW j \in Slots, Switch(j)
    PROVE  Trust!Next
<1> DEFINE a == job[j].attestation
<1>1. job[j].pc = "switch" /\ a \in Attestations /\ a \in stored
  BY DEF Switch, Inv, JobTypes, Vouching, Attesting, Verified, Storing
<1>2. pointer' \in Pointers /\ pointer'.attestation = a
  BY <1>1 DEF Switch, Inv, JobTypes, Pointers, Digesting
<1>3. Active' = Attested(a)
  BY <1>2, ReleaseAssumption DEF Active, Attested, ContentOf
<1>4. Attested(a) \in Certified
  BY <1>1 DEF Certified
<1>5. activated' = activated \cup {Attested(a)} /\ UNCHANGED <<measured, Certified, Serving>>
  BY <1>1 DEF Switch, Exit, Idle, Certified, Serving, ServedBy, Inv, Types
<1> QED
  BY <1>1, <1>3, <1>4, <1>5, AttestedContents
     DEF Trust!Next, Trust!Activate, Certified, Active, Serving, ServedBy

\* Only a measurement passes an evaluation, and it passes for what was on the disk.
LEMMA PassesMeasured ==
    ASSUME Inv, NEW j \in Slots, NEW run \in AgentRuns \cup RetrievalRuns, Measure(j, run)
    PROVE  Trust!Next \/ UNCHANGED Trust!vars
<1> DEFINE c == ContentOf(job[j].id, dirs[job[j].id].tree.files)
<1>1. /\ job[j].pc = "measure" /\ job[j].kind \in Kinds
      /\ job[j].id \in Identities /\ dirs[job[j].id] \in Directories
  BY DEF Measure, Inv, Types, JobTypes, StillThere, Reading
<1>2. c \in Contents
  BY <1>1 DEF Directories, Listings, Contents, ContentOf
<1>3. measured' = measured \cup {<<job[j].kind, c>>} \/ measured' = measured
  BY DEF Measure
<1>4. UNCHANGED <<Certified, activated, Active, Serving>>
  BY <1>1 DEF Measure, GoOn, storeVars, Certified, Active, Serving, ServedBy, Inv, Types
<1>5. CASE measured' = measured \cup {<<job[j].kind, c>>}
  BY <1>1, <1>2, <1>4, <1>5
     DEF Trust!Next, Trust!Pass, Certified, Active, Serving, ServedBy, Kinds
<1>6. CASE measured' = measured
  BY <1>4, <1>6 DEF Trust!vars, Certified, Active, Serving, ServedBy
<1> QED BY <1>3, <1>5, <1>6

\* A process that ends leaves what it served.
LEMMA LeavesServed ==
    ASSUME Inv, NEW j \in Slots, End(j)
    PROVE  Trust!Next
<1>1. Serving' = [Serving EXCEPT ![j] = None]
  BY DEF End, Exit, Idle, Serving, ServedBy, Inv, Types
<1>2. UNCHANGED <<measured, Certified, activated, Active>>
  BY DEF End, storeVars, historyVars, Certified, Active
<1> QED BY <1>1, <1>2 DEF Trust!Next, Trust!Leave, Certified, Active, Serving, ServedBy

\* No other step shows: it moves a process that serves nothing, or a file that says
\* nothing of what is trusted.
LEMMA OthersUnseen ==
    ASSUME UNCHANGED <<measured, activated, stored, pointer>>,
           \A k \in Slots : job'[k] = job[k] \/ (job[k].pc # "serving" /\ job'[k].pc # "serving")
    PROVE  UNCHANGED Trust!vars
<1>1. Serving' = Serving
  BY DEF Serving, ServedBy
<1> QED BY <1>1 DEF Trust!vars, Certified, Active, Serving, ServedBy

\* Every step of the store is a step of the abstract protocol or does not show.
LEMMA TrustNext == Inv /\ [Next]_vars => [Trust!Next]_(Trust!vars)
<1> SUFFICES ASSUME Inv, [Next]_vars PROVE Trust!Next \/ UNCHANGED Trust!vars
  OBVIOUS
<1>1. DOMAIN job = Slots
  BY DEF Inv, Types
<1>2. ASSUME NEW j \in Slots, NEW id \in Identities,
             Build(j, id) \/ LoadForSigning(j, id) \/ LoadForPromotion(j, id)
             \/ \E kind \in Kinds : LoadCandidate(j, kind, id)
      PROVE  UNCHANGED Trust!vars
  BY <1>1, <1>2, OthersUnseen
     DEF Build, LoadForSigning, LoadForPromotion, LoadCandidate, Read, Start, Idle,
         storeVars, historyVars
<1>3. ASSUME NEW j \in Slots,
             \/ ReuseRelease(j) \/ FindNoRelease(j) \/ Swap(j) \/ Recheck(j)
             \/ DigestCandidate(j) \/ WriteReport(j) \/ DigestForSigning(j) \/ Sign(j)
      PROVE  UNCHANGED Trust!vars
  BY <1>1, <1>3, OthersUnseen
     DEF ReuseRelease, FindNoRelease, Swap, Recheck, DigestCandidate, WriteReport,
         DigestForSigning, Sign, Digested, GoOn, Exit, Idle, storeVars, historyVars
<1>4. ASSUME NEW j \in Slots,
             \/ DigestForPromotion(j) \/ VerifyAttestation(j) \/ Revalidate(j) \/ CompareDigest(j)
             \/ ReadPointer(j) \/ ValidateActive(j) \/ DigestActive(j) \/ VerifyActive(j)
      PROVE  UNCHANGED Trust!vars
  BY <1>1, <1>4, OthersUnseen
     DEF DigestForPromotion, VerifyAttestation, Revalidate, CompareDigest, ReadPointer,
         ValidateActive, DigestActive, VerifyActive, Digested, With, Start, GoOn, Idle,
         storeVars, historyVars
<1>5. ASSUME NEW j \in Slots, NEW kind \in Kinds, NEW run \in Runs(kind),
             WriteDiagnostic(j, kind, run)
      PROVE  UNCHANGED Trust!vars
  BY <1>5, OthersUnseen DEF WriteDiagnostic, storeVars, historyVars
<1>6. ASSUME NEW id \in Identities, Edit(id) \/ AdaptManifest(id)
      PROVE  UNCHANGED Trust!vars
  BY <1>6 DEF Edit, AdaptManifest, historyVars, Trust!vars
<1>7. CASE UNCHANGED vars
  BY <1>7 DEF vars, storeVars, historyVars, Trust!vars
<1> QED
  BY <1>2, <1>3, <1>4, <1>5, <1>6, <1>7,
     ServesActivated, CertifiesMeasured, ActivatesCertified, PassesMeasured, LeavesServed
     DEF Next, JobStep, Disturbance

\* The release protocol keeps the promise of ReleaseTrust, whoever edits what between two
\* readings and wherever processes die: what is served was active, what is active was
\* attested, and what is attested was measured (release.py, attestation.py, the runners).
THEOREM ReleasesImplementTrust == PipelineSpec => ImplementsTrust
<1>1. PipelineInit => Trust!Init
  BY DEF PipelineInit, Init, Trust!Init, Idle
<1>2. Inv /\ [PipelineNext]_pipelineVars => [Trust!Next]_(Trust!vars)
  BY PipelineSteps, TrustNext
<1> QED BY <1>1, <1>2, Invariance, PTL DEF PipelineSpec, ImplementsTrust, Trust!Spec

-----------------------------------------------------------------------------
(* Installation of data sets *)

\* A copy that has been validated stays private, and so whole, until it is renamed.
StagedWhole ==
    /\ DOMAIN data = Targets /\ DOMAIN inst = Installers
    /\ \A i \in Installers : inst[i].pc \in {"check", "rename"} => Whole(inst[i].staged)

\* Builds find no installation at work, and installations leave the releases alone.
LEMMA InstallSteps == [PipelineNext]_pipelineVars => [InstallNext]_installVars
BY DEF PipelineNext, pipelineVars, InstallStep, StoreStep

\* Every step of an installer keeps a validated copy whole.
LEMMA StagedNext == StagedWhole /\ [InstallNext]_installVars => StagedWhole'
<1> SUFFICES ASSUME StagedWhole, [InstallNext]_installVars PROVE StagedWhole'
  OBVIOUS
<1>1. ASSUME NEW i \in Installers, NEW t \in Targets,
             BeginCopy(i, t) \/ \E d \in DataSets : UnpackArchive(i, t, d)
      PROVE  StagedWhole'
  BY <1>1 DEF StagedWhole, BeginCopy, UnpackArchive, InstallGoesOn
<1>2. ASSUME NEW i \in Installers,
             CopyFiles(i) \/ CopyManifest(i) \/ ValidateStaged(i) \/ CheckAbsent(i)
      PROVE  StagedWhole'
  BY <1>2 DEF StagedWhole, CopyFiles, CopyManifest, ValidateStaged, CheckAbsent, InstallGoesOn
<1>3. ASSUME NEW i \in Installers, RenameIntoPlace(i) \/ GiveUpInstall(i) PROVE StagedWhole'
  BY <1>3 DEF StagedWhole, RenameIntoPlace, GiveUpInstall, InstallGoesOn, NotInstalling
<1>4. CASE ReplaceSource \/ UNCHANGED installVars
  BY <1>4 DEF StagedWhole, ReplaceSource, installVars
<1> QED BY <1>1, <1>2, <1>3, <1>4 DEF InstallNext

\* A data directory appears at once and whole, and is never touched again, whatever happens
\* to the source and to other installers (download_dataset.py:113-127, 214-226).
THEOREM InstalledAlwaysWhole == PipelineSpec => InstalledWhole
<1>1. PipelineInit => StagedWhole
  BY DEF PipelineInit, InstallInit, StagedWhole, NotInstalling
<1>2. StagedWhole /\ [InstallNext]_installVars =>
        [\A t \in Targets : data'[t] # data[t] => data[t] = NoData /\ Whole(data'[t])]_installVars
  <2> SUFFICES ASSUME StagedWhole, InstallNext, NEW t \in Targets, data'[t] # data[t]
               PROVE  data[t] = NoData /\ Whole(data'[t])
    BY DEF installVars
  <2>1. PICK i \in Installers : RenameIntoPlace(i)
    BY DEF InstallNext, BeginCopy, UnpackArchive, CopyFiles, CopyManifest, ValidateStaged,
           CheckAbsent, GiveUpInstall, ReplaceSource
  <2> QED BY <2>1 DEF RenameIntoPlace, StagedWhole
<1> QED BY <1>1, <1>2, StagedNext, InstallSteps, PTL DEF PipelineSpec, InstalledWhole
============================================================================
