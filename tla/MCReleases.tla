---------------------------- MODULE MCReleases ----------------------------
(***************************************************************************)
(* Instance of ReleasePipeline: of two data sets one can be released, by   *)
(* clean checkouts of two commits; evaluations that meet the policy, that  *)
(* lowered a threshold to pass, and that only diagnose.                    *)
(***************************************************************************)
EXTENDS ReleasePipeline, TLC

CONSTANTS s1, s2, i1, i2, t1, c1, c2

Lock(d) == [status |-> "frozen", kind |-> "restricted_holdout", dataset |-> d,
            cases |-> 1, queries |-> 1, documents |-> 1]
\* The first data set is only built from checkouts with local changes.
Identity(d, commit) == [dataset |-> d, mode |-> "hybrid", dirty |-> d = 1, commit |-> commit,
                        holdout |-> Lock(d)]
MCIdentities == {Identity(d, commit) : d \in DataSets, commit \in {c1, c2}}

AgentThresholds == [n \in DOMAIN AGENT_GATE_RULES |-> AGENT_GATE_RULES[n].threshold]
RetrievalThresholds == [n \in DOMAIN RETRIEVAL_GATE_RULES |-> RETRIEVAL_GATE_RULES[n].threshold]

GoodAgent == [candidate |-> TRUE, policy |-> PROMOTION_POLICY_VERSION,
              metrics |-> AgentThresholds, thresholds |-> AgentThresholds, count |-> 1]
\* One intent of ten is wrong, and the threshold asks for no more.
LaxAgent == [GoodAgent EXCEPT !.metrics.intent_accuracy = 9, !.thresholds.intent_accuracy = 9]
MCAgentRuns == {GoodAgent, LaxAgent}

GoodRetrieval == [candidate |-> TRUE, policy |-> PROMOTION_POLICY_VERSION,
                  variants |-> Variants, artifact |-> TRUE,
                  metrics |-> [v \in Variants |-> RetrievalThresholds],
                  thresholds |-> RetrievalThresholds,
                  queries |-> 1, documents |-> 1, hardNegatives |-> 1]
Diagnostic == [GoodRetrieval EXCEPT !.candidate = FALSE, !.variants = {"lexical"}]
MCRetrievalRuns == {GoodRetrieval, Diagnostic}

Slots2 == {s1, s2}
Symmetry == Permutations(Slots2) \cup Permutations({i1, i2}) \cup Permutations({c1, c2})

\* Bound: published directories are edited only while there is one of them.
OneReleaseEdited ==
    edits = 0 \/ Cardinality({id \in Identities : dirs[id] # None}) <= 1
===========================================================================
