----------------------------- MODULE MCDashboard -----------------------------
(* Values of the constants of Dashboard and CrawlPipeline for TLC.          *)
EXTENDS DashboardProperties, TLC

CONSTANTS r1, w1, a1, u1, s1, s2

ForkedSeeds == [p \in Process |-> IF p \in Worker THEN s1 ELSE s2]
RawAndCanonical == [u \in Url |-> u]

NoBudget == [b \in Budget |-> 0]
CrashesAndTimeout == [NoBudget EXCEPT !["crash"] = 1, !["api_crash"] = 1, !["timeout"] = 1]
==============================================================================
