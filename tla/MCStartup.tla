------------------------------ MODULE MCStartup ------------------------------
(* Values of Startup's constants for TLC.                                   *)
EXTENDS Startup, TLC

CONSTANTS p1, p2, p3
==============================================================================
