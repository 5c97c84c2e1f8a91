--------------------------- MODULE MCRateLimiter ---------------------------
(***************************************************************************)
(* TLC instances of RateLimiter.                                           *)
(***************************************************************************)
EXTENDS RateLimiter, TLC

IPSymmetry == Permutations(IPs)
=============================================================================
