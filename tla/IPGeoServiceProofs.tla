------------------------- MODULE IPGeoServiceProofs -------------------------
(***************************************************************************)
(* The IP lookup, for any two files, any addresses and any number of       *)
(* request threads: the cache holds only what the files have, and the      *)
(* service implements the cacheless specification LookupSpec.              *)
(***************************************************************************)
EXTENDS IPGeoService, CacheShardProofs

(* What a lookup of k may answer: what the files have, or, where the JSON  *)
(* library may throw, that and an error.                                   *)
AnswersTo(k) ==
    {OnFile(k)} \cup IF MayThrow THEN {[OnFile(k) EXCEPT !.error = TRUE]} ELSE {}

(* A thread has an address exactly while it is in a lookup, and carries    *)
(* what the files have on its own address; only what they could be asked   *)
(* for is put.                                                             *)
CallOK(c) ==
    /\ c = [pc |-> c.pc, key |-> c.key, result |-> c.result]
    /\ c.pc \in {"idle", "get", "query", "put", "return"}
    /\ c.pc = "idle" => c.key = NoKey
    /\ c.pc # "idle" => c.key \in Keys
    /\ c.pc = "put" => c.result = OnFile(c.key) /\ ~ OnFile(c.key).error
    /\ c.pc = "return" => c.result \in AnswersTo(c.key)

CallsOK ==
    /\ call = [t \in Threads |-> call[t]]
    /\ \A t \in Threads : CallOK(call[t])

GeoInv ==
    /\ CallsOK
    /\ told = [t \in Threads |-> told[t]]
    /\ Shaped(shard, Keys)
    /\ CacheHoldsFileRecords

(* The record of an address says whether the files could not be asked,     *)
(* have nothing, or have something.                                        *)
LEMMA OnFileCases ==
    ASSUME NEW k
    PROVE  LET f == OnFile(k)
           IN  /\ IsFatal(CityLookup(k)) => f = Failed(k)
               /\ ~ IsFatal(CityLookup(k)) =>
                    /\ f = Result(k, CityLookup(k) = "found", ASNLookup(k) = "found")
                    /\ ~ f.error
               /\ ~ f.error =>
                    (DataTypeOf(f) = "NEGATIVE" <=> CityDB[k] # "entry" /\ ASNDB[k] # "entry")
<1> DEFINE f == OnFile(k)
<1>1. /\ IsFatal(CityLookup(k)) <=> CityDB[k] \in {"gai_error", "mmdb_error"}
      /\ CityLookup(k) = "found" <=> CityDB[k] = "entry"
      /\ ASNLookup(k) = "found" <=> ASNDB[k] = "entry"
  BY DEF IsFatal, CityLookup, ASNLookup, perform_lookup, LookupErrors
<1>2. CASE CityDB[k] \in {"gai_error", "mmdb_error"}
  <2>1. f = Failed(k) /\ f.error
    BY <1>2 DEF OnFile, Failed, Result
  <2> QED BY <1>1, <1>2, <2>1
<1>3. CASE CityDB[k] \notin {"gai_error", "mmdb_error"}
  <2>1. f = Result(k, CityDB[k] = "entry", ASNDB[k] = "entry")
    BY <1>3 DEF OnFile
  <2>2. /\ f.error = FALSE
        /\ f.city = (CityDB[k] = "entry") /\ f.asn = (ASNDB[k] = "entry")
    BY <2>1 DEF Result
  <2>3. DataTypeOf(f) = "NEGATIVE" <=> CityDB[k] # "entry" /\ ASNDB[k] # "entry"
    BY <2>2 DEF DataTypeOf, Found
  <2>4. f = Result(k, CityLookup(k) = "found", ASNLookup(k) = "found")
    BY <1>1, <2>1
  <2> QED BY <1>1, <1>3, <2>2, <2>3, <2>4
<1> QED BY <1>2, <1>3

LEMMA InitGeoInv == Init => GeoInv
<1> SUFFICES ASSUME Init PROVE GeoInv
  OBVIOUS
<1>1. CallsOK /\ told = [t \in Threads |-> told[t]]
  BY DEF Init, CallsOK, CallOK, NoCall
<1>2. shard = EmptyShard
  BY DEF Init
<1>3. Shaped(shard, Keys) /\ DOMAIN shard.map = {}
  BY <1>2, EmptyShaped DEF EmptyShard
<1> QED BY <1>1, <1>3 DEF GeoInv, CacheHoldsFileRecords

-----------------------------------------------------------------------------
(* Thread t moves on with result r, the others stay.                       *)
Moved(t, pc, r) ==
    /\ call' = [u \in Threads |-> call'[u]]
    /\ \A u \in Threads \ {t} : call'[u] = call[u]
    /\ call'[t] = [pc |-> pc, key |-> call[t].key, result |-> r]

LEMMA AdvanceMoves ==
    ASSUME CallsOK, NEW t \in Threads, NEW pc, NEW r, Advance(t, pc, r)
    PROVE  Moved(t, pc, r)
<1>1. /\ call = [u \in Threads |-> call[u]]
      /\ call[t] = [pc |-> call[t].pc, key |-> call[t].key,
                        result |-> call[t].result]
  BY DEF CallsOK, CallOK
<1> QED BY <1>1 DEF Advance, Moved

(* A step of one thread keeps the invariant if the call of that thread and *)
(* the cache do.                                                           *)
LEMMA ThreadMoves ==
    ASSUME GeoInv, NEW t \in Threads,
           call' = [u \in Threads |-> call'[u]],
           \A u \in Threads \ {t} : call'[u] = call[u],
           CallOK(call'[t]),
           told' = [u \in Threads |-> told'[u]],
           UNCHANGED shard \/ (Shaped(shard', Keys) /\ CacheHoldsFileRecords')
    PROVE  GeoInv'
  BY DEF GeoInv, CallsOK, CacheHoldsFileRecords

LEMMA GetKeeps == ASSUME GeoInv, NEW t \in Threads, CacheGet(t) PROVE GeoInv'
<1> DEFINE k == call[t].key
           n == AfterGet(shard, k, now)
<1>1. k \in Keys /\ CallsOK
  BY DEF GeoInv, CallsOK, CallOK, CacheGet
<1>2. Shaped(shard', Keys) /\ CacheHoldsFileRecords'
  <2>1. Shaped(n, Keys) /\ FewerEntries(n, shard)
    BY <1>1, GetShaped DEF GeoInv
  <2>2. shard' = Uncounted(n)
    BY DEF CacheGet
  <2> HIDE DEF n
  <2>3. Shaped(shard', Keys) /\ shard'.map = n.map
    BY <2>1, <2>2, UncountedShaped
  <2> QED BY <2>1, <2>3 DEF FewerEntries, GeoInv, CacheHoldsFileRecords
<1>3. \/ Moved(t, "return", OnFile(k))
      \/ Moved(t, "query", NoResult)
  <2>1. CASE IsHit(shard, k, now) /\ Advance(t, "return", shard.map[k].result)
    <3>1. shard.map[k].result = OnFile(k)
      BY <2>1 DEF IsHit, GeoInv, CacheHoldsFileRecords
    <3> QED BY <1>1, <2>1, <3>1, AdvanceMoves
  <2>2. CASE Advance(t, "query", NoResult)
    BY <1>1, <2>2, AdvanceMoves
  <2> QED BY <2>1, <2>2 DEF CacheGet
<1>4. CallOK(call'[t])
  BY <1>1, <1>3 DEF Moved, CallOK, AnswersTo
<1>5. told' = [u \in Threads |-> told'[u]]
  BY DEF GeoInv, CacheGet
<1> QED BY <1>2, <1>3, <1>4, <1>5, ThreadMoves DEF Moved

LEMMA QueryKeeps == ASSUME GeoInv, NEW t \in Threads, Query(t) PROVE GeoInv'
<1> DEFINE k == call[t].key
<1>1. k \in Keys /\ CallsOK
  BY DEF GeoInv, CallsOK, CallOK, Query
<1>2. \/ Moved(t, "return", OnFile(k))
      \/ Moved(t, "put", OnFile(k)) /\ ~ OnFile(k).error
  <2>1. CASE IsFatal(CityLookup(k)) /\ Advance(t, "return", Failed(k))
    BY <1>1, <2>1, OnFileCases, AdvanceMoves
  <2>2. CASE /\ ~ IsFatal(CityLookup(k))
             /\ Advance(t, "put", Result(k, CityLookup(k) = "found",
                                                    ASNLookup(k) = "found"))
    BY <1>1, <2>2, OnFileCases, AdvanceMoves
  <2> QED BY <2>1, <2>2 DEF Query
<1>3. CallOK(call'[t])
  BY <1>1, <1>2 DEF Moved, CallOK, AnswersTo
<1>4. told' = [u \in Threads |-> told'[u]] /\ UNCHANGED shard
  BY DEF GeoInv, Query
<1> QED BY <1>2, <1>3, <1>4, ThreadMoves DEF Moved

LEMMA PutKeeps == ASSUME GeoInv, NEW t \in Threads, CachePut(t) PROVE GeoInv'
<1> DEFINE k == call[t].key
           r == call[t].result
           n == AfterPut(shard, k, r, DataTypeOf(r), now)
           e == NewEntry(r, DataTypeOf(r), now)
<1>1. k \in Keys /\ CallsOK /\ r = OnFile(k) /\ ~ OnFile(k).error
  BY DEF GeoInv, CallsOK, CallOK, CachePut
<1>2. ASSUME shard' = Uncounted(n)
      PROVE  Shaped(shard', Keys) /\ CacheHoldsFileRecords'
  <2>1. Shaped(n, Keys) /\ PutEntry(n, shard, k, e)
    BY <1>1, PutShaped DEF GeoInv
  <2>2. e.result = OnFile(k) /\ e.type = DataTypeOf(OnFile(k))
    BY <1>1 DEF NewEntry
  <2> HIDE DEF n, e
  <2>3. Shaped(shard', Keys) /\ shard'.map = n.map
    BY <1>2, <2>1, UncountedShaped
  <2>4. ASSUME NEW x \in DOMAIN n.map
        PROVE  /\ n.map[x].result = OnFile(x) /\ ~ OnFile(x).error
               /\ n.map[x].type = "NEGATIVE" <=> CityDB[x] # "entry" /\ ASNDB[x] # "entry"
    <3>1. CASE x = k
      BY <1>1, <2>1, <2>2, <3>1, OnFileCases DEF PutEntry
    <3>2. CASE x # k
      BY <2>1, <2>4, <3>2 DEF PutEntry, GeoInv, CacheHoldsFileRecords
    <3> QED BY <3>1, <3>2
  <2> QED BY <2>3, <2>4 DEF CacheHoldsFileRecords
<1>3. \/ shard' = Uncounted(n) /\ Advance(t, "return", r)
      \/ MayThrow /\ Advance(t, "return", [r EXCEPT !.error = TRUE]) /\ UNCHANGED shard
  BY DEF CachePut
<1>4. \E a \in AnswersTo(k) : Moved(t, "return", a)
  <2>1. r \in AnswersTo(k) /\ (MayThrow => [r EXCEPT !.error = TRUE] \in AnswersTo(k))
    BY <1>1 DEF AnswersTo
  <2> QED BY <1>1, <1>3, <2>1, AdvanceMoves
<1>5. CallOK(call'[t])
  BY <1>1, <1>4 DEF Moved, CallOK
<1>6. told' = [u \in Threads |-> told'[u]]
  BY DEF GeoInv, CachePut
<1> QED BY <1>2, <1>3, <1>4, <1>5, <1>6, ThreadMoves DEF Moved

LEMMA CallAndReturnKeep ==
    ASSUME GeoInv, NEW t \in Threads,
           Return(t) \/ \E k \in Keys : Call(t, k)
    PROVE  GeoInv'
<1>1. call' = [u \in Threads |-> call'[u]] /\ told' = [u \in Threads |-> told'[u]]
  BY DEF GeoInv, CallsOK, Return, Call
<1>2. \A u \in Threads \ {t} : call'[u] = call[u]
  BY DEF GeoInv, CallsOK, Return, Call
<1>3. \/ call'[t] = NoCall
      \/ \E k \in Keys : call'[t] = [pc |-> "get", key |-> k, result |-> NoResult]
  BY DEF GeoInv, CallsOK, Return, Call, NoCall
<1>4. CallOK(call'[t])
  <2>1. CASE call'[t] = NoCall
    BY <2>1 DEF CallOK, NoCall
  <2>2. ASSUME NEW k \in Keys,
               call'[t] = [pc |-> "get", key |-> k, result |-> NoResult]
        PROVE  CallOK(call'[t])
    BY <2>2 DEF CallOK
  <2> QED BY <1>3, <2>1, <2>2
<1>5. UNCHANGED shard
  BY DEF Return, Call
<1> QED BY <1>1, <1>2, <1>4, <1>5, ThreadMoves

LEMMA StepGeoInv == GeoInv /\ [Next]_vars => GeoInv'
<1> SUFFICES ASSUME GeoInv, [Next]_vars PROVE GeoInv'
  OBVIOUS
<1>1. ASSUME NEW t \in Threads, Work(t) \/ \E k \in Keys : Call(t, k)
      PROVE  GeoInv'
  BY <1>1, GetKeeps, QueryKeeps, PutKeeps, CallAndReturnKeep DEF Work
<1>2. CASE UNCHANGED <<call, shard, told>>
  BY <1>2 DEF GeoInv, CallsOK, CacheHoldsFileRecords
<1> QED BY <1>1, <1>2 DEF Next, Tick, vars

(* The inductive invariant of the IP service: what each lookup carries is  *)
(* about its own address, and so is what the cache holds.                  *)
THEOREM GeoInvariance == Spec => []GeoInv
BY InitGeoInv, StepGeoInv, PTL DEF Spec

(* Whatever was evicted, expired or raced, a cached answer is what the two *)
(* files say of its own address, never an error, and the answers without   *)
(* any member are the ones with the short time to live.                    *)
THEOREM GeoCacheTruthful == Spec => []CacheHoldsFileRecords
<1>1. GeoInv => CacheHoldsFileRecords
  BY DEF GeoInv
<1> QED BY <1>1, GeoInvariance, PTL

(* The IP service shows its callers what the cacheless, sequential         *)
(* specification shows: every answer is what the files have on the address *)
(* that was asked, or an error where the JSON library may throw.           *)
THEOREM GeoRefinesLookup == Spec => Abstract!Safety
<1>1. Init => Abstract!Init
  BY DEF Init, Abstract!Init, NoCall
<1>2. ASSUME GeoInv, [Next]_vars PROVE [Abstract!Next]_(Abstract!vars)
  <2>1. ASSUME NEW t \in Threads, NEW k \in Keys, Call(t, k) PROVE Abstract!Next
    <3>1. Abstract!Ask(t, k)
      BY <1>2, <2>1 DEF Abstract!Ask, Call, GeoInv, CallsOK, CallOK, NoCall
    <3> QED BY <3>1 DEF Abstract!Next
  <2>2. ASSUME NEW t \in Threads, Return(t) PROVE Abstract!Next
    <3> DEFINE k == call[t].key
    <3>1. k \in Keys /\ call[t].result \in AnswersTo(k)
      BY <1>2, <2>2 DEF Return, GeoInv, CallsOK, CallOK
    <3>2. Abstract!Answer(t)
      BY <1>2, <2>2, <3>1, FilesAssumption
      DEF Abstract!Answer, Return, GeoInv, CallsOK, NoCall, AnswersTo
    <3> QED BY <3>2 DEF Abstract!Next
  <2>3. ASSUME NEW t \in Threads, NEW pc, NEW r, Advance(t, pc, r), UNCHANGED told
        PROVE  UNCHANGED Abstract!vars
    <3>1. Moved(t, pc, r)
      BY <1>2, <2>3, AdvanceMoves DEF GeoInv
    <3>2. \A u \in Threads : call'[u].key = call[u].key
      BY <3>1 DEF Moved
    <3> QED BY <2>3, <3>2 DEF Abstract!vars
  <2>4. CASE UNCHANGED <<call, told>>
    BY <2>4 DEF Abstract!vars
  <2>5. ASSUME NEW t \in Threads, Work(t), ~ Return(t)
        PROVE  UNCHANGED told /\ \E pc, r : Advance(t, pc, r)
    BY <2>5 DEF Work, CacheGet, Query, CachePut
  <2> QED BY <1>2, <2>1, <2>2, <2>3, <2>4, <2>5 DEF Next, Tick, vars
<1> QED BY <1>1, <1>2, GeoInvariance, PTL DEF Spec, Abstract!Safety
=============================================================================
