------------------------- MODULE DiscoveryProperties -------------------------
(***************************************************************************)
(* What the pipeline relies on when discovery returns, and what the guides  *)
(* say about it.                                                            *)
(***************************************************************************)
EXTENDS Discovery

(* Discovery returns exactly what the site gave during the attempt that     *)
(* succeeded: no url is lost in nested sitemaps and none is left over from  *)
(* an attempt that failed half way.                                         *)
ReturnsWhatWasOffered == pc = "returned" => DOMAIN result = offered

(* The spider is a last resort: a list it contributed to has no other       *)
(* source.                                                                  *)
SpiderStandsAlone ==
  pc = "returned" /\ (\E u \in DOMAIN result : result[u] = "crawl") =>
    \A u \in DOMAIN result : result[u] = "crawl"

(* A url of /llms.txt keeps that provenance, wherever else it is listed.    *)
LlmsProvenanceStays ==
  pc = "returned" =>
    \A i \in DOMAIN batches : batches[i].source = "llms" =>
      \A u \in batches[i].urls : result[u] = "llms"

(* Discovery is a retried call: nobody sees the attempts that failed.       *)
Call == INSTANCE RetriedCall WITH
  outcome <- CASE pc = "returned" -> "returned"
               [] pc = "failed"   -> "raised"
               [] OTHER           -> "pending"
RefinesCall == Call!Spec

(* Discovery ends, by returning or by raising, although the sitemaps may    *)
(* refer to each other in circles and every attempt may fail.               *)
Terminates == <>(pc \in Done)

=============================================================================
