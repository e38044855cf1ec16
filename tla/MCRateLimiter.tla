---------------------------- MODULE MCRateLimiter ----------------------------
(* Values of RateLimiter's constants for TLC.                               *)
EXTENDS RateLimiter, TLC

CONSTANTS t1, t2, h1, h2

Symmetry == Permutations(Thread) \union Permutations(Host)
==============================================================================
