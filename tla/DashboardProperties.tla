------------------------- MODULE DashboardProperties -------------------------
(***************************************************************************)
(* What the UI may show of a run although it asks in several requests.      *)
(***************************************************************************)
EXTENDS Dashboard, CrawlPipelineProperties

(* Between two refreshes the panel is whole.                                *)
Shows(status) == panel.pc = "idle" /\ panel.status = status

(* A run the panel calls completed comes with its llms.txt, has no pending  *)
(* stage, and its events tell of the success of all five: what a later      *)
(* request brings is never behind the status, though another execution may  *)
(* be rewriting it between the requests.                                    *)
CompletedPanelIsWhole ==
  Shows("completed") => /\ panel.llms
                        /\ \A s \in Stage : panel.bar[s] # "pending"
                        /\ panel.told = Stage

(* The timeline of a completed run is that of the execution that completed  *)
(* it: the item a crashed execution left in processing is not seen.  An     *)
(* execution that starts between the requests would be, and one that ran    *)
(* beside the one that completed the run.                                   *)
CompletedTimelineIsClean ==
  BrokerAlone /\ Shows("completed") /\ panel.begun = execs[panel.run]
  => \A s \in Stage : panel.timeline[s] = "completed"

=============================================================================
