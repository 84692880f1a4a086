------------------------- MODULE PolicyRetrieval -------------------------
(***************************************************************************)
(* Which policy sections may answer a request and which ones are returned  *)
(* (retrieval/hybrid.py, scope.py, lexical.py, dense.py, scoring.py,       *)
(* reranker.py): scope, time and supersession first, ranking afterwards.   *)
(* Scores are given: a function from chunks to numbers, 0 in BM25 when the *)
(* question and the section share nothing.  A chunk is a number, so that   *)
(* ties fall as they do with identifiers.                                  *)
(***************************************************************************)
EXTENDS Integers, FiniteSets, SequencesExt

CONSTANTS None,
          PolicyTypes,   \* POLICY_DOCUMENT_TYPES
          Today,         \* the day of the request
          Overfetch,     \* both rankings keep this many times top_k
          FuseFetch,     \* the fused ranking keeps this many times top_k
          MinScore       \* reranker_min_score

---------------------------------------------------------------------------
(* Scope                                                                   *)

\* Only registered policy documents are in the index.
RetrievalDocuments(corpus) == {d \in corpus : d.docType \in PolicyTypes}

\* A year has two days here; a bare year stands for its last day, at both ends of a period.
AsDate(boundary) == 2 * boundary.year + IF boundary.half = None THEN 1 ELSE boundary.half

InForce(d, r) ==
    LET day == IF r.asOf = None THEN Today ELSE AsDate(r.asOf) IN
    /\ d.from # None => AsDate(d.from) <= day
    /\ d.to # None => AsDate(d.to) >= day
    /\ r.asOf = None => d.current

\* policy_scope_matches: a document for one college or programme answers nothing wider.
ScopeMatches(d, r) ==
    /\ d.cohort \in {None, r.cohort}
    /\ d.college # None => r.colleges = {d.college}
    /\ d.programs # {} => r.programs # {} /\ r.programs \subseteq d.programs

OnTopic(d, r) ==
    r.topics # {} => (IF d.topics # {} THEN d.topics ELSE d.mentions) \cap r.topics # {}

Matching(corpus, r) ==
    {d \in RetrievalDocuments(corpus) : InForce(d, r) /\ ScopeMatches(d, r) /\ OnTopic(d, r)}

\* A document that matches removes the one it supersedes, reviewed or not.
Scoped(corpus, r) ==
    LET matching == Matching(corpus, r) IN
    {d \in matching : \A newer \in matching : newer.supersedes # d.source}

Verified(corpus, r) == {d.chunk : d \in {e \in Scoped(corpus, r) : e.review = "verified"}}

---------------------------------------------------------------------------
(* Ranking                                                                 *)

Atmost(seq, n) == SubSeq(seq, 1, IF n < Len(seq) THEN n ELSE Len(seq))

\* sorted(): the one sequence of all of ids in which each stands above what follows.
Sorted(ids, above) ==
    {s \in [1..Cardinality(ids) -> ids] : \A p, q \in DOMAIN s : p < q => <<s[p], s[q]>> \in above}
\* By falling score, equals by identifier.
ByScore(ids, score) ==
    {pair \in ids \X ids : \/ score[pair[1]] > score[pair[2]]
                           \/ score[pair[1]] = score[pair[2]] /\ pair[1] < pair[2]}
Ranked(ids, score, limit) == {Atmost(s, limit) : s \in Sorted(ids, ByScore(ids, score))}

LexicalRank(ids, bm25, limit) == Ranked({i \in ids : bm25[i] # 0}, bm25, limit)
DenseRank(ids, cosine, limit) == Ranked(ids, cosine, limit)

\* reciprocal_rank_fusion with k = 60, as fractions.
Share(ranking, i) ==
    IF Contains(ranking, i) THEN [n |-> 1, d |-> 60 + CHOOSE p \in DOMAIN ranking : ranking[p] = i]
                            ELSE [n |-> 0, d |-> 1]
Rrf(lexical, dense, i) ==
    LET l == Share(lexical, i)
        c == Share(dense, i)
    IN [n |-> l.n * c.d + c.n * l.d, d |-> l.d * c.d]
Lead(lexical, dense, i, j) ==
    LET x == Rrf(lexical, dense, i)
        y == Rrf(lexical, dense, j)
    IN x.n * y.d - y.n * x.d
Fused(lexical, dense, limit) ==
    LET ids == ToSet(lexical) \cup ToSet(dense)
        above == {pair \in ids \X ids :
                    \/ Lead(lexical, dense, pair[1], pair[2]) > 0
                    \/ Lead(lexical, dense, pair[1], pair[2]) = 0 /\ pair[1] < pair[2]}
    IN {Atmost(s, limit) : s \in Sorted(ids, above)}

\* _mmr starts with the best score, of equals the last identifier, and goes on by
\* similarities that are left open.
Diversified(ids, score, limit) ==
    LET best == {i \in ids : \A j \in ids : score[j] < score[i] \/ (score[j] = score[i] /\ j <= i)}
        n == IF limit < Cardinality(ids) THEN limit ELSE Cardinality(ids)
    IN {s \in [1..n -> ids] : IsInjective(s) /\ \A i \in best : n > 0 => s[1] = i}

\* Mutant of LexicalCandidates: the best of all documents first, the scope afterwards.
LexicalCandidatesCutFirst(corpus, r, scores) ==
    {SelectSeq(lexical, LAMBDA i : i \in Verified(corpus, r)) :
        lexical \in LexicalRank({d.chunk : d \in corpus}, scores.bm25, r.topK)}

LexicalCandidates(corpus, r, scores) ==
    {Atmost(lexical, r.topK) :
        lexical \in LexicalRank(Verified(corpus, r), scores.bm25, r.topK * Overfetch)}

\* Candidates of hybrid mode; nothing outside the scope can come back from either ranking.
HybridCandidates(corpus, r, scores) ==
    LET ids == Verified(corpus, r)
        fused == UNION {Fused(lexical, dense, r.topK * FuseFetch) :
                          lexical \in LexicalRank(ids, scores.bm25, r.topK * Overfetch),
                          dense \in DenseRank(ids, scores.cosine, r.topK * Overfetch)}
        relevant(f) == {i \in ToSet(f) : scores.reranker[i] >= MinScore}
    IN UNION {Diversified(relevant(f), scores.reranker, r.topK) : f \in fused}

\* HybridPolicyRetriever.retrieve: the sequences of candidates it may return.
Retrieved(corpus, r, mode, scores) ==
    IF mode = "lexical" THEN LexicalCandidates(corpus, r, scores)
                        ELSE HybridCandidates(corpus, r, scores)

---------------------------------------------------------------------------
(* The packet of the policy tool                                           *)

Document(corpus, i) == CHOOSE d \in corpus : d.chunk = i

\* policy_conflicts: equally authoritative documents with one scope and article and other
\* numbers or codes; of each document only its first section counts.
Conflicting(corpus, rows) ==
    LET doc(k) == Document(corpus, rows[k])
        key(k) == <<doc(k).authority, doc(k).college, doc(k).cohort, doc(k).article>>
        first(k) == \A l \in 1..(k - 1) : doc(l).source # doc(k).source \/ key(l) # key(k)
    IN \E k, l \in DOMAIN rows :
          /\ key(k) = key(l) /\ first(k) /\ first(l)
          /\ doc(k).values # doc(l).values
          /\ doc(k).values # {} /\ doc(l).values # {}

PolicyFact(d) ==
    [factual |-> TRUE, derived |-> FALSE, inputs |-> {}, records |-> {d.chunk},
     evidence |-> {<<d.source, d.chunk>>}, long |-> d.long, credits |-> "credits" \in d.mentions,
     wording |-> d.wording]

\* retrieve_policy filters the scope once more; "ok" is what the gate asks of the component.
PolicyPacket(corpus, r, candidates) ==
    LET rows == SelectSeq(candidates, LAMBDA i : ScopeMatches(Document(corpus, i), r))
        docs == {Document(corpus, i) :
                   i \in {c \in ToSet(candidates) : ScopeMatches(Document(corpus, c), r)}}
        conflict == Conflicting(corpus, rows)
    IN [order |-> [k \in DOMAIN rows |-> <<"policy", rows[k]>>],
        facts |-> [f \in {<<"policy", d.chunk>> : d \in docs} |-> PolicyFact(Document(corpus, f[2]))],
        evidence |-> [e \in {<<d.source, d.chunk>> : d \in docs} |-> Document(corpus, e[2]).review],
        conflict |-> conflict,
        ok |-> /\ rows # <<>>
               /\ rows = candidates
               /\ \A d \in docs : d.authority >= 1 /\ d.review = "verified"
               /\ ~conflict]
===========================================================================
