-------------------------- MODULE AnswerPipeline --------------------------
(***************************************************************************)
(* From the documents of a data set to a released answer, for requests of  *)
(* a policy explanation, a progress audit or both: retrieval, the packets  *)
(* of the tools and their merge (agent/tools.py), what the gate lets       *)
(* through, the draft by the deterministic synthesizer or by a language    *)
(* model (generation/synthesizer.py), validation, and one more draft       *)
(* (agent/orchestrator.py).  Repair is left out: runtime_shortage shows    *)
(* that no answer of these tools leads to one.                             *)
(***************************************************************************)
EXTENDS PolicyRetrieval, ClaimValidation

CONSTANTS Corpora,       \* sets of documents that a data set may hold
          Requests,      \* requests, with the outputs they ask for
          Scores,        \* Scores[mode]: how rankings may judge the documents
          Flaws,         \* what may be wrong with an audit packet
          Glance,        \* facts looked at for a question about a quantity
          MaxParts       \* bound on facts and citations in a claim of a model

\* A data set keeps its sections by identifier (lexical.py:101).  A score by words may be
\* negative, for words of most sections; each ranking keeps as many as their fusion, or more.
ASSUME AnswersAssumption ==
    /\ \A c \in Corpora :
         /\ IsFiniteSet(c)
         /\ \A d \in c : d.chunk \in Nat /\ d.wording \in Wordings
         /\ \A d, e \in c : d.chunk = e.chunk => d = e
         /\ \A mode \in DOMAIN Scores : \A s \in Scores[mode], d \in c :
              /\ s.bm25[d.chunk] \in Int
              /\ mode = "hybrid" => s.cosine[d.chunk] \in Int /\ s.reranker[d.chunk] \in Int
    /\ \A r \in Requests : r.outputs \subseteq {"policy", "progress"} /\ r.topK \in Nat \ {0}
    /\ DOMAIN Scores \subseteq {"lexical", "hybrid"}
    /\ {Overfetch, FuseFetch} \subseteq Nat \ {0} /\ FuseFetch <= Overfetch
    /\ {MinScore, Glance} \subseteq Int

VARIABLES
    pc, corpus, request,
    found,      \* mode and candidates of the retriever, or None
    scores,     \* scores it ranked by, until the packets are merged
    packet,     \* merged packet
    fulfilled,  \* outputs that the gate found covered
    draft, answer,
    model,      \* the draft is a language model's
    again       \* a second draft was asked for

vars == <<pc, corpus, request, found, scores, packet, fulfilled, draft, answer, model, again>>

Init ==
    /\ corpus \in Corpora
    /\ request \in Requests
    /\ pc = IF "policy" \in request.outputs THEN "retrieve" ELSE "gather"
    /\ found = None /\ scores = None /\ packet = None /\ draft = None /\ answer = None
    /\ fulfilled = {} /\ model = FALSE /\ again = FALSE

---------------------------------------------------------------------------
(* Tools                                                                   *)

RetrievePolicy(mode) ==
    /\ pc = "retrieve"
    /\ \E s \in Scores[mode] :
          /\ scores' = s
          /\ \E candidates \in Retrieved(corpus, request, mode, s) :
                found' = [mode |-> mode, candidates |-> candidates]
    /\ pc' = "gather"
    /\ UNCHANGED <<corpus, request, packet, fulfilled, draft, answer, model, again>>

\* DenseUnavailableError, a timeout: the executor reports an operation without a packet.
RetrievalFails ==
    /\ pc = "retrieve"
    /\ pc' = "gather"
    /\ UNCHANGED <<corpus, request, found, scores, packet, fulfilled, draft, answer, model, again>>

NoPacket == [order |-> <<>>, facts |-> [f \in {} |-> None], evidence |-> [e \in {} |-> None],
             conflict |-> FALSE, ok |-> FALSE]

\* audit_completed_courses for one requirement, with or without a course that counts for it.
\* Without one the sum is a plain zero; a derived fact without inputs would be a broken edge.
\* "incomplete": a lookup that the audit builds on did not cover what it was asked for.
AuditFact(derived, inputs, records, evidence) ==
    [factual |-> TRUE, derived |-> derived, inputs |-> inputs, records |-> records,
     evidence |-> evidence, long |-> FALSE, credits |-> TRUE, wording |-> "faithful"]
Audit(counted, flaw) ==
    LET id(name) == <<"audit", name>>
        plan == {<<"plan", 1>>}
        course == {<<"plan", 2>>}
        taken == IF counted THEN course ELSE plan
        of == [credits |-> AuditFact(FALSE, {}, {"course"}, course),
               required |-> AuditFact(FALSE, {}, {"requirement"}, plan),
               completed |-> AuditFact(counted,
                 IF ~counted THEN {} ELSE {id(IF flaw = "cycle" THEN "remaining" ELSE "credits")},
                 {"requirement"}, taken),
               remaining |-> AuditFact(TRUE, {id("required"), id("completed")}, {"requirement"}, plan \cup taken)]
        names == (IF counted THEN <<"credits">> ELSE <<>>)
                 \o (IF flaw = "lost fact" THEN <<>> ELSE <<"required">>) \o <<"completed", "remaining">>
    IN [order |-> [k \in DOMAIN names |-> id(names[k])],
        facts |-> [f \in {id(n) : n \in ToSet(names)} |-> of[f[2]]],
        evidence |-> [e \in (plan \cup taken) \ (IF flaw = "lost evidence" THEN taken ELSE {}) |->
                        IF flaw \in {"unreviewed", "unnoticed"} THEN "review_required" ELSE "verified"],
        conflict |-> FALSE,
        ok |-> flaw \notin {"unreviewed", "incomplete"}]

\* _merge: packets in the order of operation identifiers, each keeping its own order.
Joined(f, g) == [x \in DOMAIN f \cup DOMAIN g |-> IF x \in DOMAIN f THEN f[x] ELSE g[x]]
Merge(p, q) ==
    [order |-> p.order \o q.order,
     facts |-> Joined(p.facts, q.facts), evidence |-> Joined(p.evidence, q.evidence),
     conflict |-> p.conflict \/ q.conflict]

\* The outputs whose component the gate finds valid.
Covered(policy, audit) == {o \in request.outputs : (IF o = "policy" THEN policy ELSE audit).ok}

\* The packets are merged and the gate looks at each output; nothing covered, nothing said.
\* A shortage of the tools modelled here is never repaired (run runtime_shortage).
Gather ==
    /\ pc = "gather"
    /\ \E counted \in BOOLEAN, flaw \in Flaws, policyFirst \in BOOLEAN :
          LET policy == IF found = None THEN NoPacket
                        ELSE PolicyPacket(corpus, request, found.candidates)
              audit == IF "progress" \in request.outputs THEN Audit(counted, flaw) ELSE NoPacket
              covered == Covered(policy, audit)
          IN /\ packet' = IF policyFirst THEN Merge(policy, audit) ELSE Merge(audit, policy)
             /\ fulfilled' = covered
             /\ pc' = IF covered = {} THEN "done" ELSE "draft"
    /\ scores' = None
    /\ UNCHANGED <<corpus, request, found, draft, answer, model, again>>

---------------------------------------------------------------------------
(* Drafts                                                                  *)

\* A claim of the deterministic synthesizer binds one fact, all its evidence and its atom.
PlainClaim(f) ==
    LET fact == packet.facts[f] IN
    [facts |-> {f}, evidence |-> fact.evidence, wording |-> fact.wording,
     atoms |-> {[facts |-> {f}, match |-> "exact", evidence |-> fact.evidence]}]

Excerpts == {k \in DOMAIN packet.order : packet.order[k][1] = "policy"}
\* For a question about a quantity, an excerpt among the first facts that speaks of credits.
Fitting ==
    {k \in Excerpts : k <= Glance /\ (request.quantity => packet.facts[packet.order[k]].credits)}

\* The fact that stands first of some.
FirstOf(places) == {packet.order[k] : k \in {l \in places : \A m \in places : l <= m}}
Quoted ==
    FirstOf(IF Cardinality(request.outputs) > 1 \/ Fitting = {} THEN Excerpts ELSE Fitting)

Section(o) ==
    {PlainClaim(f) : f \in IF o = "policy" THEN Quoted
                           ELSE {g \in DOMAIN packet.facts : g = <<"audit", "remaining">>}}

\* Mutant of PlainDraft: an unsupported output gets its section like the others.
PlainDraftAll ==
    LET claims == UNION {Section(o) : o \in request.outputs}
    IN [claims |-> claims, refused |-> claims = {}, clarification |-> FALSE]

\* Outputs that were not fulfilled are unsupported for the synthesizer.
PlainDraft ==
    LET claims == UNION {Section(o) : o \in fulfilled}
    IN [claims |-> claims, refused |-> claims = {}, clarification |-> FALSE]

\* What a model may write: any facts and evidence of the packet or none of it, with atoms
\* for each fact or without.
Parts(S, unknown) == {p \in SUBSET (S \cup {unknown}) : Cardinality(p) <= MaxParts}
AtomsOf(facts, cited) ==
    {{}} \cup {{[facts |-> {f}, match |-> m, evidence |-> e] : f \in facts} :
               m \in {"exact", "comparator", "other"}, e \in {cited, {}}}
ModelClaims ==
    UNION {UNION {[facts : {facts}, evidence : {cited}, atoms : AtomsOf(facts, cited),
                   wording : Wordings] :
                     cited \in Parts(DOMAIN packet.evidence, <<"nowhere", 0>>)} :
             facts \in Parts(DOMAIN packet.facts, <<"unknown", "fact">>)}

\* Drafts of one or two claims, the second one what the deterministic synthesizer says, or
\* a question back to the user, for which there must not be any claim.
ModelDrafts ==
    {[claims |-> {c} \cup s, refused |-> FALSE, clarification |-> FALSE] :
        c \in ModelClaims, s \in {{}, PlainDraft.claims}}
    \cup {[claims |-> {}, refused |-> FALSE, clarification |-> TRUE]}

\* Several outputs are never left to the model.
ModelWrites == Cardinality(request.outputs) = 1 /\ packet.order # <<>>

\* Without a model, or when it fails or answers something else than claims.
DraftPlainly ==
    /\ pc = "draft"
    /\ draft' = PlainDraft
    /\ pc' = "validate"
    /\ UNCHANGED <<corpus, request, found, scores, packet, fulfilled, answer, model, again>>

DraftByModel ==
    /\ pc = "draft"
    /\ ModelWrites
    /\ draft' \in ModelDrafts
    /\ model' = TRUE
    /\ pc' = "validate"
    /\ UNCHANGED <<corpus, request, found, scores, packet, fulfilled, answer, again>>

---------------------------------------------------------------------------
(* Validation                                                              *)

Validate ==
    /\ pc = "validate"
    /\ LET validated == Validated(packet, draft) IN
          IF validated.refused /\ validated.reword /\ ~again
            THEN /\ draft' = PlainDraft
                 /\ again' = TRUE /\ model' = FALSE
                 /\ UNCHANGED <<pc, answer>>
            ELSE /\ answer' = validated
                 /\ pc' = "done"
                 /\ UNCHANGED <<draft, again, model>>
    /\ UNCHANGED <<corpus, request, found, scores, packet, fulfilled>>

Next ==
    \/ \E mode \in DOMAIN Scores : RetrievePolicy(mode)
    \/ RetrievalFails
    \/ Gather
    \/ DraftPlainly \/ DraftByModel
    \/ Validate

Spec == Init /\ [][Next]_vars

---------------------------------------------------------------------------
(* Properties                                                              *)

Better(score, i, j) == score[j] > score[i] \/ (score[j] = score[i] /\ j < i)
\* A section that shares no words with the question is behind every one that does.
BetterByWords(bm25, i, j) == bm25[j] # 0 /\ (bm25[i] = 0 \/ Better(bm25, i, j))

\* An eligible document that the question matches is passed over only for better ones: in
\* lexical mode when top_k documents of at least its score are returned, in hybrid mode
\* when the reranker finds it irrelevant, top_k others are returned, or a full fused
\* ranking of documents that beat it by words or by meaning came before it.  What the
\* deterministic synthesizer then quotes is the best candidate, after every merge.
NotDisplaced ==
    /\ scores # None =>
         LET eligible == Verified(corpus, request)
             shown == ToSet(found.candidates)
             full == Len(found.candidates) = request.topK
         IN /\ shown \subseteq eligible
            /\ \A i \in eligible \ shown :
                 IF found.mode = "lexical"
                   THEN scores.bm25[i] = 0 \/ (full /\ \A j \in shown : Better(scores.bm25, i, j))
                   ELSE \/ scores.reranker[i] < MinScore
                        \/ full
                        \/ Cardinality({j \in eligible : BetterByWords(scores.bm25, i, j) \/ Better(scores.cosine, i, j)})
                             >= request.topK * FuseFetch
    /\ (pc = "validate" /\ ~model /\ "policy" \in fulfilled /\ ~request.quantity) =>
         \E c \in draft.claims : <<"policy", found.candidates[1]>> \in c.facts

Released == answer # None /\ ~answer.refused

\* All facts that some facts rest on: the least set that holds them and their inputs.
Rests(facts) ==
    LET closed == {S \in SUBSET (DOMAIN packet.facts \cup facts) :
                     /\ facts \subseteq S
                     /\ \A f \in S \cap DOMAIN packet.facts : packet.facts[f].inputs \subseteq S}
    IN {f \in DOMAIN packet.facts \cup facts : \A S \in closed : f \in S}

\* Every fact in a set can be reached from facts that need no others.
WellFounded(S) ==
    \A T \in (SUBSET S) \ {{}} : \E f \in T : packet.facts[f].inputs \cap T = {}

\* A section that may be quoted to this request: registered policy, reviewed, in force, for
\* the whole scope asked for, and without a successor that applies as well.
Quotable(i) ==
    \E d \in corpus :
       /\ d.chunk = i
       /\ d.docType \in PolicyTypes /\ d.review = "verified" /\ d.authority >= 1
       /\ InForce(d, request) /\ ScopeMatches(d, request)
       /\ \A newer \in Matching(corpus, request) : newer.supersedes # d.source

\* A released answer of facts: whatever the model wrote, each claim rests on facts that are
\* complete down to observations, with no circle, on reviewed evidence that the packet has
\* and the answer cites; each factual one is stated exactly; policy sections may be quoted.
AnswersGrounded ==
    (Released /\ ~answer.clarification) =>
      /\ answer.claims # {}
      /\ ~packet.conflict
      /\ \A c \in answer.claims :
           LET basis == Rests(c.facts) IN
           /\ basis \subseteq DOMAIN packet.facts
           /\ WellFounded(basis)
           /\ \A f \in basis :
                /\ packet.facts[f].derived => packet.facts[f].inputs # {}
                /\ \A e \in packet.facts[f].evidence :
                     e \in DOMAIN packet.evidence /\ packet.evidence[e] = "verified"
                /\ f[1] = "policy" => Quotable(f[2])
           /\ \A f \in c.facts :
                /\ answer.citations \cap UNION {packet.facts[g].evidence : g \in Rests({f})} # {}
                /\ \E a \in c.atoms : f \in a.facts /\ a.match = "exact"
           /\ c.wording = "faithful"

\* A released claim is about an output that the gate found covered: facts of another
\* output's operation may be in the packet although the gate refused them.
OnlyFulfilled ==
    Released =>
      \A c \in answer.claims : \A f \in c.facts :
         IF f[1] = "policy" THEN "policy" \in fulfilled ELSE "progress" \in fulfilled
===========================================================================
