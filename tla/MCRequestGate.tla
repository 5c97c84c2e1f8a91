--------------------------- MODULE MCRequestGate ---------------------------
(***************************************************************************)
(* TLC instance of RequestGate and, with it, of RateLimiter.               *)
(***************************************************************************)
EXTENDS RequestGate, TLC

Symmetry == Permutations(IPs) \cup Permutations(Threads)
=============================================================================
