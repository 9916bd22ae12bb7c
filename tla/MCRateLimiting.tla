--------------------------- MODULE MCRateLimiting ---------------------------
(* RateLimiting on small instances. *)
EXTENDS RateLimiting, TLC

CONSTANTS k1, k2, t1, t2, r1, r2, r3

Symmetry == Permutations(Keys) \cup Permutations(Threads) \cup Permutations(Requests)
=============================================================================
