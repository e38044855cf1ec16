--------------------------- MODULE MCCrawlPipeline ---------------------------
(***************************************************************************)
(* Values of CrawlPipeline's constants for TLC.                             *)
(***************************************************************************)
EXTENDS CrawlPipelineProperties, TLC

CONSTANTS r1, w1, w2, a1, u1, u2, s1, s2

(* Prefork siblings share the parent's seed, the API process has another.   *)
ForkedSeeds == [p \in Process |-> IF p \in Worker THEN s1 ELSE s2]

RawAndCanonical == [u \in Url |-> u]

NoBudget == [b \in Budget |-> 0]
(* A message that is not sent, and a run that needs three executions.       *)
LostAndRedelivered == [NoBudget EXCEPT !["crash"] = 2, !["publish"] = 1, !["api_crash"] = 1]
OneDbError == [NoBudget EXCEPT !["db"] = 1]
OneProcess == [NoBudget EXCEPT !["process"] = 1]
(* What puts a second execution beside the first, and a database error.     *)
OverlapAndDb == [NoBudget EXCEPT !["db"] = 1, !["process"] = 1, !["timeout"] = 1]
=============================================================================
