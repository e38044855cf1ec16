------------------------------ MODULE MCSpider ------------------------------
(***************************************************************************)
(* Values of Spider's constants for TLC.  Seed stays out of the symmetry.   *)
(***************************************************************************)
EXTENDS SpiderProperties, TLC

OtherPages == Permutations(Page \ {Seed})
=============================================================================
