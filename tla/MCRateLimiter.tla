--------------------------- MODULE MCRateLimiter ---------------------------
(* Small instances of RateLimiter: a call costs three parts, a tick refills *)
(* two, and the bucket holds two calls.                                     *)
EXTENDS RateLimiter, TLC

Symmetry == Permutations(Processes)
=============================================================================
