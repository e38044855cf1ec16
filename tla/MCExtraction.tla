---------------------------- MODULE MCExtraction ----------------------------
(* Values of the constants of ExtractionStage for TLC.                      *)
EXTENDS ExtractionStage, TLC

CONSTANTS u1, u2, i1, m1, m2
==============================================================================
