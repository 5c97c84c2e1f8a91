----------------------------- MODULE MCIPCache -----------------------------
(***************************************************************************)
(* TLC instances of IPCache.  Small and big results, against a budget of   *)
(* three, make evictions and overwrites of another size happen.            *)
(***************************************************************************)
EXTENDS IPCache, TLC

CONSTANTS a, b, c, d, small, big

MCSizeOf == small :> 1 @@ big :> 2
MCTTL    == "IP_GEOLOCATION" :> 1 @@ "MAC_OUI" :> 2 @@ "NEGATIVE" :> 0

\* Three keys that share a shard, and one with a shard of its own.
MCShardOf == a :> 1 @@ b :> 1 @@ c :> 1 @@ d :> 2
KeySymmetry == Permutations({a, b, c})

\* Callers cache a small negative or a big positive result under any key.
MCPuts == [k \in Keys |-> {<<small, "NEGATIVE">>, <<big, "IP_GEOLOCATION">>}]
=============================================================================
