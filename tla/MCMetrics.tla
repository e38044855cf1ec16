------------------------------ MODULE MCMetrics ------------------------------
(* Values of the constants of Metrics and CrawlPipeline for TLC.            *)
EXTENDS MetricsProperties, TLC

CONSTANTS r1, w1, w2, a1, u1, u2, s1, s2

(* Every process has a seed of its own: workers started separately.         *)
SeparateSeeds == [p \in Process |-> IF p = w1 THEN s1 ELSE s2]
(* u1 is its own canonical form and that of u2.                             *)
RawAndCanonical == [u \in Url |-> u1]

(* Every fault that does not start a second execution beside the first.     *)
Faults == [b \in Budget |-> IF b \in {"timeout", "process"} THEN 0 ELSE 1]
==============================================================================
