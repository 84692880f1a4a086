------------------------- MODULE PromotionPolicy -------------------------
(***************************************************************************)
(* Reports of the two evaluations of a candidate and the fixed policy they *)
(* must meet (eval/promotion_policy.py, eval/metrics.py and the report     *)
(* parts of eval/run_agent_eval.py and eval/run_retrieval_ablation.py).    *)
(* Metrics are tenths.  A run is what an operator asked for and what was   *)
(* measured; a report is what the runner writes about it.                  *)
(***************************************************************************)
EXTENDS Integers

Missing == -1              \* a metric that could not be measured
Probability == 0..10

PROMOTION_POLICY_VERSION == "1"

Rule(operator, threshold) == [operator |-> operator, threshold |-> threshold]

AGENT_GATE_RULES ==
    [intent_accuracy      |-> Rule(">=", 10), plan_exact_match   |-> Rule(">=", 10),
     tool_precision       |-> Rule(">=", 10), tool_recall        |-> Rule(">=", 10),
     answer_containment   |-> Rule(">=", 10), safe_rejection_f1  |-> Rule(">=", 10),
     scope_pollution_rate |-> Rule("<=", 0)]

RETRIEVAL_GATE_RULES ==
    [recall_at_1  |-> Rule(">=", 0), recall_at_5 |-> Rule(">=", 0),
     recall_at_10 |-> Rule(">=", 8), mrr         |-> Rule(">=", 5),
     ndcg_at_10   |-> Rule(">=", 5),
     hard_negative_rate_at_cutoff |-> Rule("<=", 0),
     scope_violation_rate         |-> Rule("<=", 0)]

Meets(operator, actual, threshold) ==
    IF operator = ">=" THEN actual >= threshold ELSE actual <= threshold

\* A metric without a value or without samples is a gate that does not pass.
MetricGate(name, actual, threshold, samples, operator) ==
    LET measured == actual # Missing /\ samples > 0
    IN  [name |-> name, operator |-> operator, threshold |-> threshold,
         actual |-> actual, samples |-> samples, measured |-> measured,
         passed |-> measured /\ Meets(operator, actual, threshold)]

\* The gates of a run: the operators are the runner's, the thresholds the caller's.
GatesOf(rules, metrics, thresholds, samples) ==
    [n \in DOMAIN rules |->
        MetricGate(n, metrics[n], thresholds[n], samples[n], rules[n].operator)]

AllPass(gates) == \A n \in DOMAIN gates : gates[n].passed

\* Every gate of the policy is there, as strict as the policy or stricter, about the
\* metric and the samples of the report, and passes when it is computed again.
ValidGates(gates, rules, metrics, samples) ==
    /\ DOMAIN gates = DOMAIN rules
    /\ \A n \in DOMAIN rules :
        LET gate == gates[n] IN
        /\ gate.name = n
        /\ gate.operator = rules[n].operator
        /\ gate.threshold \in Probability
        /\ Meets(rules[n].operator, gate.threshold, rules[n].threshold)
        /\ gate.actual \in Probability
        /\ gate.actual = metrics[n]
        /\ gate.measured
        /\ gate.samples > 0
        /\ gate.samples = samples[n]
        /\ gate.passed
        /\ Meets(gate.operator, gate.actual, gate.threshold)

--------------------------------------------------------------------------
(* The agent report: one sample of every metric for each question. *)

SamplesOfAgent(count) == [n \in DOMAIN AGENT_GATE_RULES |-> count]

\* evaluation_config is the fixed one exactly when the runner works on a candidate.
AgentReport(run) ==
    LET gates == GatesOf(AGENT_GATE_RULES, run.metrics, run.thresholds, SamplesOfAgent(run.count))
    IN  [policy   |-> run.policy,
         eligible |-> run.candidate,
         config   |-> IF run.candidate THEN "promotion" ELSE "diagnostic",
         count    |-> run.count,
         metrics  |-> run.metrics,
         gates    |-> gates,
         passed   |-> AllPass(gates)]

ValidAgentReport(report, count) ==
    /\ report.policy = PROMOTION_POLICY_VERSION
    /\ report.eligible
    /\ report.config = "promotion"
    /\ report.count > 0 /\ report.count = count
    /\ ValidGates(report.gates, AGENT_GATE_RULES, report.metrics, SamplesOfAgent(count))
    /\ report.passed

--------------------------------------------------------------------------
(* The retrieval report: the gates of each variant.  A variant whose        *)
(* artifact cannot be loaded is recorded and fails the report.              *)

Variants == {"lexical", "hybrid"}

SamplesOfVariant(queries, hardNegatives) ==
    [n \in DOMAIN RETRIEVAL_GATE_RULES |->
        IF n = "hard_negative_rate_at_cutoff" THEN hardNegatives ELSE queries]

VariantResult(run, v) ==
    LET gates == GatesOf(RETRIEVAL_GATE_RULES, run.metrics[v], run.thresholds,
                         SamplesOfVariant(run.queries, run.hardNegatives))
        measured == v = "lexical" \/ run.artifact
    IN  [measured |-> measured, hardNegatives |-> run.hardNegatives,
         metrics |-> run.metrics[v], gates |-> gates,
         passed |-> measured /\ AllPass(gates)]

RetrievalReport(run) ==
    LET results == [v \in run.variants |-> VariantResult(run, v)]
    IN  [policy    |-> run.policy,
         eligible  |-> run.candidate,
         config    |-> IF run.candidate THEN "promotion" ELSE "diagnostic",
         queries   |-> run.queries,
         documents |-> run.documents,
         variants  |-> run.variants,
         results   |-> results,
         passed    |-> \A v \in run.variants : results[v].passed]

ValidVariant(result, queries) ==
    /\ result.measured
    /\ result.hardNegatives > 0 /\ result.hardNegatives <= queries
    /\ ValidGates(result.gates, RETRIEVAL_GATE_RULES, result.metrics,
                  SamplesOfVariant(queries, result.hardNegatives))
    /\ result.passed

ValidRetrievalReport(report, queries, documents) ==
    /\ report.policy = PROMOTION_POLICY_VERSION
    /\ report.eligible
    /\ report.config = "promotion"
    /\ report.queries > 0 /\ report.queries = queries
    /\ report.documents > 0 /\ report.documents = documents
    /\ report.variants = Variants
    /\ DOMAIN report.results = report.variants
    /\ \A v \in Variants : ValidVariant(report.results[v], queries)
    /\ report.passed
==========================================================================
