--------------------------- MODULE MCRateLimiter ---------------------------
(* Finite instances of RateLimiter for TLC. *)
EXTENDS RateLimiter, TLC

Symmetry == Permutations(Keys)
=============================================================================
