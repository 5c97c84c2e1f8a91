---------------------------- MODULE IPCacheProofs ----------------------------
(***************************************************************************)
(* The result cache, for any number of shards, keys and calls: what        *)
(* CacheShardProofs shows of one shard, carried through the interleaving   *)
(* of lookups, inserts, clock changes and the steps of get_stats.          *)
(***************************************************************************)
EXTENDS IPCache, CacheShardProofs

ShardsOK == \A i \in Shard : ShardOK(shards[i], KeysOf(i))

(* The number of the latest call bounds the time of use of every key.      *)
UsedByNow == \A k \in Keys : used[k] <= ops

(* The shards whose counters get_stats has added to its total.             *)
Seen == IF reader.phase = "stats" THEN 1..reader.at - 1 ELSE 1..reader.at

(* The total of get_stats against the counters as they are now: the shards *)
(* it has seen had counted no more than they have now, and those it has    *)
(* yet to see have counted what the total still lacks.                     *)
ReaderInStep ==
    /\ StatsBalanced(reader.total)
    /\ reader.phase = "done" => reader.at = ShardCount
    /\ reader.phase # "idle" =>
          /\ reader.total.lookups <= Total(Lookups, Seen)
          /\ reader.since <= reader.total.lookups + Total(Lookups, Shard \ Seen)

CacheInv == TypeOK /\ ShardsOK /\ ListsInOrderOfUse /\ UsedByNow /\ ReaderInStep

-----------------------------------------------------------------------------
LEMMA LookupsSummable ==
    ASSUME TypeOK, NEW B \in SUBSET Shard
    PROVE  /\ IsFiniteSet(B)
           /\ \A i \in B : Lookups[i] \in Nat
           /\ Total(Lookups, B) \in Int
<1>1. IsFiniteSet(B)
  <2>1. IsFiniteSet(1..ShardCount)
    BY ShardAssumption, FS_Interval
  <2> QED BY <2>1, FS_Subset DEF Shard
<1>2. \A i \in B : Lookups[i] \in Nat
  <2> TAKE i \in B
  <2>1. shards[i].stats \in [Counters -> Nat]
    BY DEF TypeOK, ShardTypeOK, StatsType
  <2>2. Lookups[i] = shards[i].stats.lookups
    BY DEF Lookups
  <2> QED BY <2>1, <2>2 DEF Counters
<1> QED BY <1>1, <1>2, TotalSplit

(* Sums of counters that only go up.                                       *)
LEMMA LookupsGrow ==
    ASSUME TypeOK, TypeOK', NEW B \in SUBSET Shard,
           \A i \in Shard : Lookups[i] <= Lookups'[i]
    PROVE  Total(Lookups, B) <= Total(Lookups', B) /\ Total(Lookups', B) \in Int
<1>1. IsFiniteSet(B) /\ \A i \in B : Lookups[i] \in Nat
  BY LookupsSummable
<1>2. \A i \in B : Lookups'[i] \in Nat
  <2> TAKE i \in B
  <2>1. shards'[i].stats \in [Counters -> Nat]
    BY DEF TypeOK, ShardTypeOK, StatsType
  <2>2. Lookups'[i] = shards'[i].stats.lookups
    BY DEF Lookups
  <2> QED BY <2>1, <2>2 DEF Counters
<1>3. Total(Lookups, B) <= Total(Lookups', B)
  BY <1>1, <1>2, TotalMonotone
<1> QED BY <1>1, <1>2, <1>3, TotalSplit

LEMMA InitCacheInv == Init => CacheInv
<1> SUFFICES ASSUME Init PROVE CacheInv
  OBVIOUS
<1>1. ShardsOK
  BY EmptyOK DEF Init, ShardsOK
<1>2. TypeOK
  <2>1. \A i \in Shard : ShardTypeOK(shards[i], KeysOf(i))
    BY <1>1 DEF ShardsOK, ShardOK
  <2>2. NoStats \in StatsType
    BY DEF NoStats, StatsType
  <2>3. reader \in Reader /\ reader.phase = "idle"
    BY <2>2, ShardAssumption DEF Init, Idle, Reader
  <2> QED BY <2>1, <2>3, BoundAssumption DEF TypeOK, Init
<1>3. ListsInOrderOfUse
  BY DEF ListsInOrderOfUse, Init, EmptyShard, InOrderOfUse
<1>4. UsedByNow
  BY DEF Init, UsedByNow
<1>5. ReaderInStep
  BY DEF Init, ReaderInStep, Idle, StatsBalanced, NoStats, Counters
<1> QED BY <1>1, <1>2, <1>3, <1>4, <1>5 DEF CacheInv

-----------------------------------------------------------------------------
(* What is common to get and put: one shard s becomes n, and the lookups   *)
(* it has counted do not go down.                                          *)
LEMMA OneShardChanges ==
    ASSUME CacheInv, NEW k \in Keys, NEW n, Call(k),
           shards' = [shards EXCEPT ![ShardOf[k]] = n],
           ShardOK(n, KeysOf(ShardOf[k])),
           n.stats.lookups >= shards[ShardOf[k]].stats.lookups,
           used' = used \/ used' = [used EXCEPT ![k] = ops'],
           InOrderOfUse(n.list, used')
    PROVE  CacheInv'
<1> DEFINE i == ShardOf[k]
<1>1. i \in Shard /\ k \in KeysOf(i)
  BY ShardAssumption DEF Shard, KeysOf
<1>2. ops \in Nat /\ ops' \in Nat /\ ops' = ops + 1 /\ ops' \in 0..MaxOps
      /\ now' = now /\ reader' = reader
  BY BoundAssumption DEF CacheInv, TypeOK, Call
<1>3. shards = [j \in Shard |-> shards[j]]
  BY DEF CacheInv, TypeOK
<1>4. /\ shards' = [j \in Shard |-> shards'[j]]
      /\ \A j \in Shard : shards'[j] = IF j = i THEN n ELSE shards[j]
  BY <1>1, <1>3
<1> HIDE DEF i
<1>5. ShardsOK'
  BY <1>4 DEF CacheInv, ShardsOK, i, Shard, KeysOf
<1>6. TypeOK'
  <2>1. \A j \in Shard : ShardTypeOK(shards'[j], KeysOf(j))
    BY <1>5 DEF ShardsOK, ShardOK, Shard, KeysOf
  <2>2. used' \in [Keys -> Nat]
    BY <1>2 DEF CacheInv, TypeOK
  <2> QED BY <1>2, <1>4, <2>1, <2>2 DEF CacheInv, TypeOK, Shard, KeysOf, Reader
<1>7. ListsInOrderOfUse'
  <2> SUFFICES ASSUME NEW j \in Shard, j # i
               PROVE  InOrderOfUse(shards'[j].list, used')
    BY <1>1, <1>4 DEF ListsInOrderOfUse, Shard, i
  <2>1. shards'[j].list = shards[j].list /\ InOrderOfUse(shards[j].list, used)
    BY <1>4 DEF CacheInv, ListsInOrderOfUse
  <2>2. shards[j].list \in Seq(KeysOf(j)) /\ k \notin KeysOf(j)
    BY DEF CacheInv, TypeOK, ShardTypeOK, KeysOf, i
  <2>3. \A p \in DOMAIN shards[j].list : used'[shards[j].list[p]] = used[shards[j].list[p]]
    BY <2>2 DEF CacheInv, TypeOK, KeysOf
  <2> QED BY <2>1, <2>2, <2>3 DEF InOrderOfUse
<1>8. UsedByNow'
  BY <1>2 DEF CacheInv, UsedByNow, TypeOK
<1>9. ReaderInStep'
  <2>1. \A j \in Shard : Lookups[j] <= Lookups'[j]
    <3> TAKE j \in Shard
    <3>1. Lookups[j] = shards[j].stats.lookups /\ Lookups'[j] = shards'[j].stats.lookups
      BY DEF Lookups, Shard
    <3>2. Lookups[j] \in Nat
      BY LookupsSummable DEF CacheInv
    <3> QED BY <1>4, <3>1, <3>2 DEF i
  <2>2. CASE reader.phase = "idle"
    BY <1>2, <2>2 DEF CacheInv, ReaderInStep
  <2>3. CASE reader.phase # "idle"
    <3>1. Seen' = Seen /\ Seen \in SUBSET Shard
      BY <1>2, <2>3, ShardAssumption DEF Seen, CacheInv, TypeOK, Shard
    <3>2. \A B \in {Seen, Shard \ Seen} :
             Total(Lookups, B) <= Total(Lookups', B) /\ Total(Lookups', B) \in Int
      BY <1>6, <2>1, <3>1, LookupsGrow DEF CacheInv
    <3>3. Total(Lookups, Seen) \in Int /\ Total(Lookups, Shard \ Seen) \in Int
      BY <3>1, LookupsSummable DEF CacheInv
    <3>4. reader.total.lookups \in Nat /\ reader.since \in Nat
      BY DEF CacheInv, TypeOK, Reader, StatsType, Counters
    <3> QED BY <1>2, <2>3, <3>1, <3>2, <3>3, <3>4 DEF CacheInv, ReaderInStep, Shard
  <2> QED BY <2>2, <2>3
<1> QED BY <1>5, <1>6, <1>7, <1>8, <1>9 DEF CacheInv

LEMMA GetKeeps ==
    ASSUME CacheInv, NEW k \in Keys, get(k)
    PROVE  CacheInv'
<1> DEFINE i == ShardOf[k]
           s == shards[i]
           n == AfterGet(s, k, now)
<1>1. i \in Shard /\ k \in KeysOf(i) /\ KeysOf(i) \subseteq Keys
  BY ShardAssumption DEF Shard, KeysOf
<1>2. ShardOK(s, KeysOf(i)) /\ InOrderOfUse(s.list, used)
  BY <1>1 DEF CacheInv, ShardsOK, ListsInOrderOfUse
<1>3. ShardOK(n, KeysOf(i)) /\ n.stats.lookups = s.stats.lookups + 1
  BY <1>1, <1>2, GetOK
<1>4. s.stats.lookups \in Nat
  BY <1>2 DEF ShardOK, ShardTypeOK, StatsType, Counters
<1>5. InOrderOfUse(n.list, used')
  <2>1. Shaped(s, Keys)
    BY <1>1, <1>2, OKShaped DEF Shaped
  <2>2. ops' \in Nat /\ used \in [Keys -> Nat] /\ \A y \in Keys : used[y] <= ops'
    BY BoundAssumption DEF CacheInv, TypeOK, UsedByNow, get, Call
  <2>3. InOrderOfUse(n.list, IF IsHit(s, k, now) THEN [used EXCEPT ![k] = ops'] ELSE used)
    BY <1>2, <2>1, <2>2, GetInOrder
  <2> QED BY <2>3 DEF get
<1>6. /\ shards' = [shards EXCEPT ![i] = n] /\ Call(k)
      /\ used' = used \/ used' = [used EXCEPT ![k] = ops']
  BY <1>1 DEF get, CacheInv, TypeOK
<1>7. n.stats.lookups >= s.stats.lookups
  BY <1>3, <1>4
<1> HIDE DEF n
<1> QED BY <1>3, <1>5, <1>6, <1>7, OneShardChanges

LEMMA PutKeeps ==
    ASSUME CacheInv, NEW k \in Keys, NEW r \in Results, NEW type \in DataTypes,
           put(k, r, type)
    PROVE  CacheInv'
<1> DEFINE i == ShardOf[k]
           s == shards[i]
           n == AfterPut(s, k, r, type, now)
<1>1. i \in Shard /\ k \in KeysOf(i) /\ KeysOf(i) \subseteq Keys
  BY ShardAssumption DEF Shard, KeysOf
<1>2. ShardOK(s, KeysOf(i)) /\ InOrderOfUse(s.list, used) /\ now \in Nat
  BY <1>1, BoundAssumption DEF CacheInv, ShardsOK, ListsInOrderOfUse, TypeOK
<1>3. ShardOK(n, KeysOf(i)) /\ n.stats.lookups = s.stats.lookups
  BY <1>1, <1>2, PutOK
<1>4. s.stats.lookups \in Nat
  BY <1>2 DEF ShardOK, ShardTypeOK, StatsType, Counters
<1>5. InOrderOfUse(n.list, used')
  <2>1. Shaped(s, Keys)
    BY <1>1, <1>2, OKShaped DEF Shaped
  <2>2. ops' \in Nat /\ used \in [Keys -> Nat] /\ \A y \in Keys : used[y] <= ops'
    BY BoundAssumption DEF CacheInv, TypeOK, UsedByNow, put, Call
  <2>3. InOrderOfUse(n.list, [used EXCEPT ![k] = ops'])
    BY <1>2, <2>1, <2>2, PutInOrder
  <2> QED BY <2>3 DEF put
<1>6. /\ shards' = [shards EXCEPT ![i] = n] /\ Call(k)
      /\ used' = [used EXCEPT ![k] = ops']
  BY <1>1 DEF put, CacheInv, TypeOK
<1>7. n.stats.lookups >= s.stats.lookups
  BY <1>3, <1>4
<1> HIDE DEF n
<1> QED BY <1>3, <1>5, <1>6, <1>7, OneShardChanges

-----------------------------------------------------------------------------
(* The steps of get_stats.  The shards stay as they are, so that only the  *)
(* reader's own part of the invariant is at stake.                         *)
LEMMA ReaderMoves ==
    ASSUME CacheInv, UNCHANGED <<shards, now, ops, used>>,
           (reader \in Reader /\ (reader.phase # "idle" => reader.at \in Shard))',
           ReaderInStep'
    PROVE  CacheInv'
<1>1. TypeOK' /\ ShardsOK'
  BY DEF CacheInv, TypeOK, ShardsOK, Shard, KeysOf, Reader
<1>2. ListsInOrderOfUse' /\ UsedByNow'
  BY DEF CacheInv, ListsInOrderOfUse, UsedByNow, Shard
<1> QED BY <1>1, <1>2 DEF CacheInv

LEMMA StatsBeginKeeps == ASSUME CacheInv, StatsBegin PROVE CacheInv'
<1>1. /\ Total(Lookups, Shard) \in Nat
      /\ Total(Lookups, {}) = 0
  <2>1. IsFiniteSet(Shard) /\ \A i \in Shard : Lookups[i] \in Nat
    BY LookupsSummable DEF CacheInv
  <2>2. Total([i \in Shard |-> 0], Shard) <= Total(Lookups, Shard)
    BY <2>1, TotalMonotone
  <2>3. Total([i \in Shard |-> 0], Shard) = 0
    BY <2>1, TotalZero
  <2>4. Total(Lookups, Shard) \in Int
    BY <2>1, TotalSplit
  <2> QED BY <2>2, <2>3, <2>4, TotalEmpty
<1>2. reader' = [phase |-> "stats", at |-> 1, total |-> NoStats, memory |-> 0,
                 since |-> Total(Lookups, Shard)]
  BY DEF StatsBegin, Idle, AllLookups
<1>3. NoStats \in StatsType /\ NoStats.lookups = 0 /\ StatsBalanced(NoStats)
  BY DEF NoStats, StatsType, Counters, StatsBalanced
<1>4. (reader \in Reader /\ (reader.phase # "idle" => reader.at \in Shard))'
  BY <1>1, <1>2, <1>3, ShardAssumption DEF Reader, Shard
<1>5. Seen' = {} /\ Lookups' = Lookups
  BY <1>2 DEF Seen, StatsBegin, Lookups, Shard
<1>6. ReaderInStep'
  <2>1. Shard \ {} = Shard
    OBVIOUS
  <2> QED BY <1>1, <1>2, <1>3, <1>5, <2>1 DEF ReaderInStep, Shard
<1> QED BY <1>4, <1>6, ReaderMoves DEF StatsBegin

LEMMA StatsAddLocalKeeps == ASSUME CacheInv, StatsAddLocal PROVE CacheInv'
<1> DEFINE i == reader.at
           st == shards[i].stats
           R  == 1 .. i - 1
<1>1. /\ reader.phase = "stats" /\ i \in Shard
      /\ reader.total \in StatsType /\ st \in StatsType
      /\ StatsBalanced(st) /\ StatsBalanced(reader.total)
  BY DEF StatsAddLocal, CacheInv, TypeOK, Reader, ShardsOK, ShardOK, ShardTypeOK, ReaderInStep
<1>2. reader = [phase |-> reader.phase, at |-> i, total |-> reader.total,
                memory |-> reader.memory, since |-> reader.since]
      /\ reader.memory \in Int /\ reader.since \in Nat
  BY DEF CacheInv, TypeOK, Reader
<1>3. reader' = [phase |-> "memory", at |-> i, total |-> Plus(reader.total, st),
                 memory |-> reader.memory, since |-> reader.since]
  BY <1>2 DEF StatsAddLocal
<1> HIDE DEF st
<1>4. /\ Plus(reader.total, st) \in StatsType
      /\ \A c \in Counters : Plus(reader.total, st)[c] = reader.total[c] + st[c]
  BY <1>1 DEF Plus, StatsType
<1> DEFINE new == Plus(reader.total, st)
<1>5. StatsBalanced(new) /\ new.lookups = reader.total.lookups + st.lookups
  <2> HIDE DEF new
  <2>1. \A c \in Counters : new[c] = reader.total[c] + st[c]
    BY <1>4 DEF new
  <2> QED BY <1>1, <2>1 DEF StatsBalanced, StatsType, Counters
<1>6. (reader \in Reader /\ (reader.phase # "idle" => reader.at \in Shard))'
  BY <1>1, <1>2, <1>3, <1>4 DEF Reader, Shard
<1>7. Seen = R /\ Seen' = R \cup {i} /\ Lookups' = Lookups
  <2>1. 1..i = (1 .. i - 1) \cup {i}
    BY <1>1, ShardAssumption DEF Shard
  <2> QED BY <1>1, <1>3, <2>1 DEF Seen, StatsAddLocal, Lookups, Shard
<1>8. /\ R \in SUBSET Shard /\ R \cup {i} \in SUBSET Shard /\ i \notin R
      /\ (R \cup {i}) \ {i} = R /\ (Shard \ R) \ {i} = Shard \ (R \cup {i})
      /\ i \in Shard \ R
  BY <1>1, ShardAssumption DEF Shard
<1> HIDE DEF R
<1>9. /\ Total(Lookups, R \cup {i}) = Lookups[i] + Total(Lookups, R)
      /\ Total(Lookups, Shard \ R) = Lookups[i] + Total(Lookups, Shard \ (R \cup {i}))
      /\ Total(Lookups, R) \in Int /\ Total(Lookups, Shard \ (R \cup {i})) \in Int
  <2>1. \A B \in {R, R \cup {i}, Shard \ R, Shard \ (R \cup {i})} :
          IsFiniteSet(B) /\ \A j \in B : Lookups[j] \in Int
    BY <1>8, LookupsSummable DEF CacheInv
  <2>2. Total(Lookups, R \cup {i}) = Lookups[i] + Total(Lookups, R)
    BY <1>8, <2>1, TotalSplit
  <2>3. Total(Lookups, Shard \ R) = Lookups[i] + Total(Lookups, Shard \ (R \cup {i}))
    BY <1>8, <2>1, TotalSplit
  <2> QED BY <2>1, <2>2, <2>3, TotalSplit
<1>10. Lookups[i] = st.lookups /\ st.lookups \in Nat /\ reader.total.lookups \in Nat
  BY <1>1 DEF Lookups, StatsType, Counters, st
<1>11. ReaderInStep'
  <2>1. /\ reader.total.lookups <= Total(Lookups, R)
        /\ reader.since <= reader.total.lookups + Total(Lookups, Shard \ R)
    BY <1>1, <1>7 DEF CacheInv, ReaderInStep
  <2>2. /\ new.lookups <= Total(Lookups, R \cup {i})
        /\ reader.since <= new.lookups + Total(Lookups, Shard \ (R \cup {i}))
    BY <1>2, <1>5, <1>9, <1>10, <2>1
  <2> QED BY <1>3, <1>5, <1>7, <2>2 DEF ReaderInStep, Shard
<1> QED BY <1>6, <1>11, ReaderMoves DEF StatsAddLocal

LEMMA StatsAddMemoryKeeps == ASSUME CacheInv, StatsAddMemory PROVE CacheInv'
<1> DEFINE i == reader.at
           m == reader.memory + shards[i].memory
<1>1. reader.phase = "memory" /\ i \in Shard /\ m \in Int
  BY DEF StatsAddMemory, CacheInv, TypeOK, Reader, ShardTypeOK
<1>2. reader = [phase |-> reader.phase, at |-> i, total |-> reader.total,
                memory |-> reader.memory, since |-> reader.since]
      /\ reader.total \in StatsType /\ reader.since \in Nat
  BY DEF CacheInv, TypeOK, Reader
<1>3. reader' = [phase |-> IF LastShard THEN "done" ELSE "stats",
                 at |-> IF LastShard THEN i ELSE i + 1,
                 total |-> reader.total, memory |-> m, since |-> reader.since]
  BY <1>2 DEF StatsAddMemory
<1> HIDE DEF m
<1>4. (reader \in Reader /\ (reader.phase # "idle" => reader.at \in Shard))'
  BY <1>1, <1>2, <1>3, ShardAssumption DEF Reader, Shard, LastShard
<1>5. Seen' = Seen /\ Lookups' = Lookups
  BY <1>1, <1>3, ShardAssumption DEF Seen, StatsAddMemory, Lookups, Shard, LastShard
<1>6. ReaderInStep'
  BY <1>1, <1>3, <1>5 DEF CacheInv, ReaderInStep, LastShard, Shard
<1> QED BY <1>4, <1>6, ReaderMoves DEF StatsAddMemory

LEMMA StatsReturnKeeps == ASSUME CacheInv, StatsReturn PROVE CacheInv'
<1>1. NoStats \in StatsType /\ StatsBalanced(NoStats)
  BY DEF NoStats, StatsType, Counters, StatsBalanced
<1>2. (reader \in Reader /\ (reader.phase # "idle" => reader.at \in Shard))'
  BY <1>1, ShardAssumption DEF StatsReturn, Idle, Reader
<1>3. ReaderInStep'
  BY <1>1 DEF StatsReturn, Idle, ReaderInStep
<1> QED BY <1>2, <1>3, ReaderMoves DEF StatsReturn

LEMMA SetClockKeeps == ASSUME CacheInv, SetClock PROVE CacheInv'
<1>1. TypeOK' /\ ShardsOK'
  BY DEF SetClock, CacheInv, TypeOK, ShardsOK, Shard, KeysOf, Reader
<1>2. ListsInOrderOfUse' /\ UsedByNow'
  BY DEF SetClock, CacheInv, ListsInOrderOfUse, UsedByNow, Shard
<1>3. ReaderInStep'
  BY DEF SetClock, CacheInv, ReaderInStep, Seen, Lookups, Shard
<1> QED BY <1>1, <1>2, <1>3 DEF CacheInv

LEMMA StepCacheInv == CacheInv /\ [Next]_vars => CacheInv'
<1> SUFFICES ASSUME CacheInv, [Next]_vars PROVE CacheInv'
  OBVIOUS
<1>1. ASSUME NEW k \in Keys, get(k) PROVE CacheInv'
  BY <1>1, GetKeeps
<1>2. ASSUME NEW k \in Keys, NEW p \in Puts[k], put(k, p[1], p[2]) PROVE CacheInv'
  <2>1. p[1] \in Results /\ p[2] \in DataTypes
    BY <1>2, PutsAssumption
  <2> QED BY <1>2, <2>1, PutKeeps
<1>3. CASE StatsBegin \/ StatsAddLocal \/ StatsAddMemory \/ StatsReturn \/ SetClock
  BY <1>3, StatsBeginKeeps, StatsAddLocalKeeps, StatsAddMemoryKeeps, StatsReturnKeeps,
     SetClockKeeps
<1>4. CASE UNCHANGED vars
  <2>1. TypeOK' /\ ShardsOK'
    BY <1>4 DEF vars, CacheInv, TypeOK, ShardsOK, Shard, KeysOf, Reader
  <2>2. ListsInOrderOfUse' /\ UsedByNow'
    BY <1>4 DEF vars, CacheInv, ListsInOrderOfUse, UsedByNow, Shard
  <2>3. ReaderInStep'
    BY <1>4 DEF vars, CacheInv, ReaderInStep, Seen, Lookups, Shard
  <2> QED BY <2>1, <2>2, <2>3 DEF CacheInv
<1> QED BY <1>1, <1>2, <1>3, <1>4 DEF Next

(* The inductive invariant of the cache: every shard is in order, and the  *)
(* total of get_stats is that of the shards it has passed.                 *)
THEOREM CacheInvariance == Spec => []CacheInv
BY InitCacheInv, StepCacheInv, PTL DEF Spec

-----------------------------------------------------------------------------
(* Types: the shards hold only keys that hash to them, and get_stats       *)
(* stands at one of the shards while it runs.                              *)
THEOREM CacheTypes == Spec => []TypeOK
<1>1. CacheInv => TypeOK
  BY DEF CacheInv
<1> QED BY <1>1, CacheInvariance, PTL

(* The key at the back of a list is always in the map, as the eviction     *)
(* loop takes for granted when it dereferences the iterator it looked up.  *)
THEOREM ListsAndMapsAgree == Spec => []ListsMatchMaps
<1>1. CacheInv => ListsMatchMaps
  BY DEF CacheInv, ShardsOK, ShardOK, ListsMatchMaps
<1> QED BY <1>1, CacheInvariance, PTL

(* Eviction takes the least recently used entries.                         *)
THEOREM EvictionIsLRU == Spec => []ListsInOrderOfUse
<1>1. CacheInv => ListsInOrderOfUse
  BY DEF CacheInv
<1> QED BY <1>1, CacheInvariance, PTL

(* The memory counter of a shard is the sum of the sizes of its entries    *)
(* after any history, so the unsigned counter never wraps below zero.      *)
THEOREM MemoryCounterExact == Spec => []MemoryExact
<1>1. CacheInv => MemoryExact
  BY DEF CacheInv, ShardsOK, ShardOK, MemoryExact
<1> QED BY <1>1, CacheInvariance, PTL

(* The counters of get_stats add up although lookups run between its       *)
(* steps, and bound the lookups made when it began and when it ends.       *)
THEOREM StatsAlwaysConsistent == Spec => []StatsConsistent
<1>1. ASSUME CacheInv PROVE StatsConsistent
  <2>1. \A i \in Shard : StatsBalanced(shards[i].stats)
    BY <1>1 DEF CacheInv, ShardsOK, ShardOK
  <2>2. StatsBalanced(reader.total)
    BY <1>1 DEF CacheInv, ReaderInStep
  <2>3. ASSUME reader.phase = "done"
        PROVE  reader.since <= reader.total.lookups /\ reader.total.lookups <= AllLookups
    <3>1. Seen = Shard /\ Shard \ Shard = {}
      BY <1>1, <2>3 DEF CacheInv, ReaderInStep, Seen, Shard
    <3>2. reader.total.lookups \in Nat
      BY <1>1 DEF CacheInv, TypeOK, Reader, StatsType, Counters
    <3>3. /\ reader.total.lookups <= Total(Lookups, Shard)
          /\ reader.since <= reader.total.lookups + Total(Lookups, {})
      BY <1>1, <2>3, <3>1 DEF CacheInv, ReaderInStep
    <3> QED BY <3>2, <3>3, TotalEmpty DEF AllLookups
  <2> QED BY <2>1, <2>2, <2>3 DEF StatsConsistent
<1> QED BY <1>1, CacheInvariance, PTL

(* Inserting a key evicts just enough: the shard is back within its budget *)
(* or holds the new entry alone, and no eviction was one too many.         *)
THEOREM EvictsJustEnough == Spec => InsertEvictsJustEnough
<1>1. ASSUME CacheInv, [Next]_vars
      PROVE  [\A i \in Shard : EvictedJustEnough(shards[i], shards'[i])]_vars
  <2> SUFFICES ASSUME Next, NEW j \in Shard
               PROVE  EvictedJustEnough(shards[j], shards'[j])
    BY <1>1
  <2>1. CASE shards'[j] = shards[j]
    BY <2>1 DEF EvictedJustEnough
  <2>2. ASSUME NEW k \in Keys, get(k) PROVE EvictedJustEnough(shards[j], shards'[j])
    <3>1. CASE j = ShardOf[k]
      <4>1. shards'[j] = AfterGet(shards[j], k, now)
        BY <1>1, <2>2, <3>1 DEF get, CacheInv, TypeOK
      <4>2. k \in KeysOf(j) /\ Shaped(shards[j], KeysOf(j))
        BY <1>1, <3>1, OKShaped DEF CacheInv, ShardsOK, KeysOf
      <4>3. FewerEntries(shards'[j], shards[j])
        BY <4>1, <4>2, GetShaped
      <4> QED BY <4>3 DEF FewerEntries, EvictedJustEnough
    <3>2. CASE j # ShardOf[k]
      BY <1>1, <2>1, <2>2, <3>2 DEF get, CacheInv, TypeOK
    <3> QED BY <3>1, <3>2
  <2>3. ASSUME NEW k \in Keys, NEW p \in Puts[k], put(k, p[1], p[2])
        PROVE  EvictedJustEnough(shards[j], shards'[j])
    <3>1. CASE j = ShardOf[k]
      <4>1. shards'[j] = AfterPut(shards[j], k, p[1], p[2], now)
        BY <1>1, <2>3, <3>1 DEF put, CacheInv, TypeOK
      <4>2. k \in KeysOf(j) /\ ShardOK(shards[j], KeysOf(j)) /\ Shaped(shards[j], KeysOf(j))
        BY <1>1, <3>1, OKShaped DEF CacheInv, ShardsOK, KeysOf
      <4>3. p[1] \in Results
        BY <2>3, PutsAssumption
      <4>4. CASE k \in DOMAIN shards[j].map
        <5>1. DOMAIN shards'[j].map = DOMAIN shards[j].map
          BY <4>1, <4>2, <4>4 DEF AfterPut, Overwritten, WithEntry
        <5> QED BY <5>1 DEF EvictedJustEnough
      <4>5. CASE k \notin DOMAIN shards[j].map
        <5>1. shards'[j] = Inserted(shards[j], k, p[1], p[2], now)
          BY <4>1, <4>5 DEF AfterPut
        <5>2. DOMAIN shards'[j].map \ DOMAIN shards[j].map \subseteq {k}
          BY <4>1, <4>2, PutShaped DEF PutEntry
        <5>3. LET gone == DOMAIN shards[j].map \ DOMAIN shards'[j].map
              IN  /\ shards'[j].memory <= ShardMemory \/ DOMAIN shards'[j].map = {k}
                  /\ gone # {} => \E g \in gone :
                                     shards'[j].memory + shards[j].map[g].size > ShardMemory
          BY <4>2, <4>3, <4>5, <5>1, InsertJustEnough
        <5> QED BY <5>2, <5>3 DEF EvictedJustEnough
      <4> QED BY <4>4, <4>5
    <3>2. CASE j # ShardOf[k]
      BY <1>1, <2>1, <2>3, <3>2 DEF put, CacheInv, TypeOK
    <3> QED BY <3>1, <3>2
  <2>4. CASE StatsBegin \/ StatsAddLocal \/ StatsAddMemory \/ StatsReturn \/ SetClock
    BY <2>1, <2>4 DEF StatsBegin, StatsAddLocal, StatsAddMemory, StatsReturn, SetClock
  <2> QED BY <2>2, <2>3, <2>4 DEF Next
<1> QED BY <1>1, CacheInvariance, PTL DEF Spec, InsertEvictsJustEnough
=============================================================================
