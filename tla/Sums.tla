-------------------------------- MODULE Sums --------------------------------
(* Sums over finite sets, with the summands given as a function.           *)
EXTENDS Integers, FiniteSetsExt

Total(f, S) == MapThenSumSet(LAMBDA x : f[x], S)
=============================================================================
