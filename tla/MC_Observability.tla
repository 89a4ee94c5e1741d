-------------------------- MODULE MC_Observability --------------------------
(* Samples below and over a threshold, of two metrics, a span, and rules that *)
(* want one, two or three breaches, two of them of one id.                   *)
EXTENDS ObservabilityStack

CONSTANTS e1, e2, e3, e4

MCTelemetry ==
    {[kind |-> "metric", name |-> "latency", value |-> 1, type |-> "counter"],
     [kind |-> "metric", name |-> "latency", value |-> 3, type |-> "gauge"],
     [kind |-> "metric", name |-> "depth", value |-> 3, type |-> "gauge"],
     [kind |-> "span", name |-> "match", value |-> 2]}
MCRule(id, metric, breaches) == [id |-> id, metric |-> metric, threshold |-> 3, breaches |-> breaches]
MCAlertRules == {MCRule("slow", "latency", 2), MCRule("slow", "depth", 1), MCRule("spike", "latency", 1)}
MCSymmetry == Permutations(Envelopes)

=============================================================================
