----------------------------- MODULE MCDiscovery -----------------------------
(***************************************************************************)
(* Values of Discovery's constants for TLC.                                 *)
(***************************************************************************)
EXTENDS DiscoveryProperties, TLC
==============================================================================
