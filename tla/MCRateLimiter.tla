--------------------------- MODULE MCRateLimiter ---------------------------
(* Instance of RateLimiter for TLC.                                        *)
EXTENDS RateLimiter, TLC

(* Keys and requests are interchangeable.                                  *)
Symmetry == Permutations(Keys) \cup Permutations(Requests)
=============================================================================
