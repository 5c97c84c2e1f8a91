-------------------------- MODULE CacheShardProofs --------------------------
(***************************************************************************)
(* What get and put do to one shard of the cache, for shards of any size   *)
(* and any sequence of calls: the map and the list keep holding the same   *)
(* keys, the entries of other keys stay what they were or go, and the      *)
(* memory counter stays exact.                                             *)
(***************************************************************************)
EXTENDS CacheShard, DataProofs

(* The structure of a shard, without the types of its entries.             *)
Shaped(s, K) ==
    /\ s = [map |-> s.map, list |-> s.list, memory |-> s.memory, stats |-> s.stats]
    /\ s.map = [k \in DOMAIN s.map |-> s.map[k]]
    /\ DOMAIN s.map \subseteq K
    /\ s.list \in Seq(K)
    /\ ShardListed(s)

(* Every entry of shard n is one that s has too.                           *)
FewerEntries(n, s) ==
    /\ DOMAIN n.map \subseteq DOMAIN s.map
    /\ \A x \in DOMAIN n.map : n.map[x] = s.map[x]

LEMMA EmptyShaped == ASSUME NEW K PROVE Shaped(EmptyShard, K)
  BY DEF EmptyShard, Shaped, ShardListed, IsListOf

(* The statistics are no part of the structure.                            *)
LEMMA CountedShaped ==
    ASSUME NEW s, NEW K, Shaped(s, K), NEW st
    PROVE  LET n == [s EXCEPT !.stats = st]
           IN  /\ n = [map |-> s.map, list |-> s.list, memory |-> s.memory, stats |-> st]
               /\ Shaped(n, K)
<1> DEFINE n == [s EXCEPT !.stats = st]
<1>1. n = [map |-> s.map, list |-> s.list, memory |-> s.memory, stats |-> st]
  BY DEF Shaped
<1> HIDE DEF n
<1>2. n.map = s.map /\ n.list = s.list /\ n.memory = s.memory /\ n.stats = st
  BY <1>1
<1>3. Shaped(n, K)
  BY <1>1, <1>2 DEF Shaped, ShardListed
<1> QED BY <1>1, <1>3 DEF n

LEMMA UncountedShaped ==
    ASSUME NEW s, NEW K, Shaped(s, K)
    PROVE  Shaped(Uncounted(s), K) /\ Uncounted(s).map = s.map
<1> DEFINE n == [s EXCEPT !.stats = NoStats]
<1>1. n = [map |-> s.map, list |-> s.list, memory |-> s.memory, stats |-> NoStats]
      /\ Shaped(n, K)
  BY CountedShaped
<1> QED BY <1>1 DEF Uncounted

-----------------------------------------------------------------------------
(* Erasing the entry of a key.                                             *)
LEMMA RemovedShaped ==
    ASSUME NEW s, NEW K, Shaped(s, K), NEW k \in DOMAIN s.map
    PROVE  LET n == Removed(s, k)
           IN  /\ Shaped(n, K) /\ FewerEntries(n, s)
               /\ DOMAIN n.map = DOMAIN s.map \ {k}
               /\ n.list = Erase(s.list, k)
               /\ n.memory = s.memory - s.map[k].size
               /\ n.stats = s.stats
<1> DEFINE n == Removed(s, k)
<1>1. n = [map |-> Without(s, k), list |-> Erase(s.list, k),
           memory |-> s.memory - s.map[k].size, stats |-> s.stats]
  BY DEF Removed
<1> HIDE DEF n
<1>2. /\ n.map = Without(s, k) /\ n.list = Erase(s.list, k)
      /\ n.memory = s.memory - s.map[k].size /\ n.stats = s.stats
  BY <1>1
<1>3. /\ DOMAIN n.map = DOMAIN s.map \ {k}
      /\ n.map = [x \in DOMAIN n.map |-> n.map[x]]
      /\ \A x \in DOMAIN n.map : n.map[x] = s.map[x]
  BY <1>2 DEF Without
<1>4. n.list \in Seq(K) /\ IsListOf(n.list, DOMAIN s.map \ {k})
  BY <1>2, EraseLists DEF Shaped, ShardListed
<1>5. Shaped(n, K)
  BY <1>1, <1>2, <1>3, <1>4 DEF Shaped, ShardListed
<1> QED BY <1>2, <1>3, <1>5 DEF n, FewerEntries

(* get, whether it hits, finds the entry expired or finds none.            *)
LEMMA GetShaped ==
    ASSUME NEW s, NEW K, Shaped(s, K), NEW k \in K, NEW t
    PROVE  LET n == AfterGet(s, k, t)
           IN  /\ Shaped(n, K) /\ FewerEntries(n, s)
               /\ IsHit(s, k, t) =>
                    /\ n.map = s.map /\ n.memory = s.memory
                    /\ n.list = MoveToFront(s.list, k)
                    /\ n.stats = Counted(s.stats, {"lookups", "hits"})
               /\ ~ IsHit(s, k, t) /\ k \in DOMAIN s.map =>
                    /\ n.map = Removed(s, k).map /\ n.memory = Removed(s, k).memory
                    /\ n.list = Removed(s, k).list
                    /\ n.stats = Counted(s.stats, {"lookups", "misses", "expired"})
               /\ k \notin DOMAIN s.map =>
                    /\ n.map = s.map /\ n.memory = s.memory /\ n.list = s.list
                    /\ n.stats = Counted(s.stats, {"lookups", "misses"})
<1> DEFINE n == AfterGet(s, k, t)
<1>1. CASE IsHit(s, k, t)
  <2> DEFINE st == Counted(s.stats, {"lookups", "hits"})
  <2>1. n = [map |-> s.map, list |-> MoveToFront(s.list, k), memory |-> s.memory, stats |-> st]
    BY <1>1 DEF AfterGet, Touched, Shaped
  <2> HIDE DEF n, st
  <2>2. /\ n.map = s.map /\ n.list = MoveToFront(s.list, k)
        /\ n.memory = s.memory /\ n.stats = st
    BY <2>1
  <2>3. k \in DOMAIN s.map
    BY <1>1 DEF IsHit
  <2>4. n.list \in Seq(K) /\ IsListOf(n.list, DOMAIN s.map)
    BY <2>2, <2>3, MoveToFrontLists DEF Shaped, ShardListed
  <2>5. Shaped(n, K)
    BY <2>1, <2>2, <2>4 DEF Shaped, ShardListed
  <2> QED BY <1>1, <2>2, <2>3, <2>5 DEF FewerEntries, n, st
<1>2. CASE ~ IsHit(s, k, t) /\ k \in DOMAIN s.map
  <2> DEFINE e  == Removed(s, k)
             st == Counted(s.stats, {"lookups", "misses", "expired"})
  <2>1. Shaped(e, K) /\ FewerEntries(e, s) /\ e.stats = s.stats
    BY <1>2, RemovedShaped
  <2> HIDE DEF e
  <2>2. n = [e EXCEPT !.stats = st]
    BY <1>2, <2>1 DEF AfterGet, Expired, e
  <2> HIDE DEF n, st
  <2>3. n = [map |-> e.map, list |-> e.list, memory |-> e.memory, stats |-> st] /\ Shaped(n, K)
    BY <2>1, <2>2, CountedShaped
  <2>4. n.map = e.map /\ n.list = e.list /\ n.memory = e.memory /\ n.stats = st
    BY <2>3
  <2> QED BY <1>2, <2>1, <2>3, <2>4 DEF FewerEntries, n, st, e
<1>3. CASE k \notin DOMAIN s.map
  <2> DEFINE st == Counted(s.stats, {"lookups", "misses"})
  <2>1. n = [s EXCEPT !.stats = st]
    BY <1>3 DEF AfterGet, IsHit, Missed
  <2> HIDE DEF n, st
  <2>2. n = [map |-> s.map, list |-> s.list, memory |-> s.memory, stats |-> st] /\ Shaped(n, K)
    BY <2>1, CountedShaped
  <2>3. n.map = s.map /\ n.list = s.list /\ n.memory = s.memory /\ n.stats = st
    BY <2>2
  <2> QED BY <1>3, <2>2, <2>3 DEF FewerEntries, IsHit, n, st
<1> QED BY <1>1, <1>2, <1>3

-----------------------------------------------------------------------------
(* evict_if_needed keeps the longest front of the list beside which the    *)
(* new entry fits, or nothing.                                             *)
LEMMA KeptIsLongest ==
    ASSUME NEW s, NEW K, s.list \in Seq(K), NEW size
    PROVE  LET n == KeptLength(s, size)
           IN  /\ n \in 0..Len(s.list)
               /\ n = 0 \/ Fits(s, n, size)
               /\ \A m \in n + 1 .. Len(s.list) : ~ Fits(s, m, size)
<1> DEFINE stops == {n \in 0..Len(s.list) : n = 0 \/ Fits(s, n, size)}
<1>1. Len(s.list) \in Nat /\ 0 \in stops /\ stops \subseteq 0..Len(s.list)
  OBVIOUS
<1>2. \E n \in stops : \A m \in stops : m <= n
  <2> HIDE DEF stops
  <2> QED BY <1>1, GreatestNatural
<1>3. KeptLength(s, size) \in stops /\ \A m \in stops : m <= KeptLength(s, size)
  BY <1>2 DEF KeptLength
<1> QED BY <1>1, <1>3

LEMMA EvictShaped ==
    ASSUME NEW s, NEW K, Shaped(s, K), NEW size
    PROVE  LET e == evict_if_needed(s, size)
               n == KeptLength(s, size)
           IN  /\ Shaped(e, K) /\ FewerEntries(e, s)
               /\ DOMAIN e.map = DOMAIN s.map \ KeysFrom(s, n)
               /\ e.list = SubSeq(s.list, 1, n)
               /\ e.memory = s.memory - SizesFrom(s, n)
               /\ e.stats = [s.stats EXCEPT !.evictions = @ + Len(s.list) - n]
<1> DEFINE e == evict_if_needed(s, size)
           n == KeptLength(s, size)
           D == DOMAIN s.map \ KeysFrom(s, n)
           st == [s.stats EXCEPT !.evictions = @ + Len(s.list) - n]
<1>1. e = [map |-> [k \in D |-> s.map[k]], list |-> SubSeq(s.list, 1, n),
           memory |-> s.memory - SizesFrom(s, n), stats |-> st]
  BY DEF evict_if_needed
<1>2. n \in 0..Len(s.list)
  BY KeptIsLongest DEF Shaped
<1> HIDE DEF e, n, st
<1>3. /\ e.map = [k \in D |-> s.map[k]] /\ e.list = SubSeq(s.list, 1, n)
      /\ e.memory = s.memory - SizesFrom(s, n) /\ e.stats = st
  BY <1>1
<1>4. e.list \in Seq(K) /\ IsListOf(e.list, D)
  <2>1. s.list \in Seq(K) /\ IsListOf(s.list, DOMAIN s.map)
    BY DEF Shaped, ShardListed
  <2>2. /\ SubSeq(s.list, 1, n) \in Seq(K)
        /\ IsListOf(SubSeq(s.list, 1, n),
                    DOMAIN s.map \ {s.list[i] : i \in n + 1 .. Len(s.list)})
    BY <1>2, <2>1, FrontLists
  <2> QED BY <1>3, <2>2, Zenon DEF KeysFrom
<1> HIDE DEF D
<1>5. /\ DOMAIN e.map = D /\ e.map = [k \in DOMAIN e.map |-> e.map[k]]
      /\ \A x \in D : e.map[x] = s.map[x]
  BY <1>3
<1>6. D \subseteq DOMAIN s.map /\ D \subseteq K
  BY DEF D, Shaped
<1>7. Shaped(e, K)
  BY <1>1, <1>3, <1>4, <1>5, <1>6 DEF Shaped, ShardListed
<1> QED BY <1>3, <1>5, <1>6, <1>7 DEF FewerEntries, e, n, D, st

(* put: the new entry, and besides only old ones.                          *)
PutEntry(n, s, k, e) ==
    /\ k \in DOMAIN n.map /\ n.map[k] = e
    /\ \A x \in DOMAIN n.map \ {k} : x \in DOMAIN s.map /\ n.map[x] = s.map[x]

LEMMA OverwrittenShaped ==
    ASSUME NEW s, NEW K, Shaped(s, K), NEW k \in DOMAIN s.map, NEW r, NEW type, NEW t
    PROVE  LET n == Overwritten(s, k, r, type, t)
           IN  /\ Shaped(n, K) /\ PutEntry(n, s, k, NewEntry(r, type, t))
               /\ DOMAIN n.map = DOMAIN s.map
               /\ n.list = MoveToFront(s.list, k)
               /\ n.memory = s.memory - s.map[k].size + SizeOf[r]
               /\ n.stats = s.stats
<1> DEFINE n == Overwritten(s, k, r, type, t)
           e == NewEntry(r, type, t)
<1>1. n = [map |-> WithEntry(s, k, e), list |-> MoveToFront(s.list, k),
           memory |-> s.memory - s.map[k].size + SizeOf[r], stats |-> s.stats]
  BY DEF Overwritten
<1> HIDE DEF n, e
<1>2. /\ n.map = WithEntry(s, k, e) /\ n.list = MoveToFront(s.list, k)
      /\ n.memory = s.memory - s.map[k].size + SizeOf[r] /\ n.stats = s.stats
  BY <1>1
<1>3. /\ DOMAIN n.map = DOMAIN s.map /\ n.map = [x \in DOMAIN n.map |-> n.map[x]]
      /\ n.map[k] = e /\ \A x \in DOMAIN n.map \ {k} : n.map[x] = s.map[x]
  BY <1>2 DEF WithEntry
<1>4. n.list \in Seq(K) /\ IsListOf(n.list, DOMAIN s.map)
  BY <1>2, MoveToFrontLists DEF Shaped, ShardListed
<1>5. Shaped(n, K)
  BY <1>1, <1>2, <1>3, <1>4 DEF Shaped, ShardListed
<1> QED BY <1>2, <1>3, <1>5 DEF PutEntry, n, e

LEMMA InsertedShaped ==
    ASSUME NEW s, NEW K, Shaped(s, K), NEW k \in K, k \notin DOMAIN s.map,
           NEW r, NEW type, NEW t
    PROVE  LET n == Inserted(s, k, r, type, t)
               e == evict_if_needed(s, SizeOf[r])
           IN  /\ Shaped(n, K) /\ PutEntry(n, s, k, NewEntry(r, type, t))
               /\ DOMAIN n.map = DOMAIN e.map \cup {k}
               /\ n.list = PushFront(e.list, k)
               /\ n.memory = e.memory + SizeOf[r]
               /\ n.stats = e.stats
<1> DEFINE n == Inserted(s, k, r, type, t)
           e == evict_if_needed(s, SizeOf[r])
           w == NewEntry(r, type, t)
<1>1. n = [map |-> WithEntry(e, k, w), list |-> PushFront(e.list, k),
           memory |-> e.memory + SizeOf[r], stats |-> e.stats]
  BY DEF Inserted
<1>2. Shaped(e, K) /\ FewerEntries(e, s)
  BY EvictShaped
<1> HIDE DEF n, e, w
<1>3. /\ n.map = WithEntry(e, k, w) /\ n.list = PushFront(e.list, k)
      /\ n.memory = e.memory + SizeOf[r] /\ n.stats = e.stats
  BY <1>1
<1>4. /\ DOMAIN n.map = DOMAIN e.map \cup {k} /\ n.map = [x \in DOMAIN n.map |-> n.map[x]]
      /\ n.map[k] = w /\ \A x \in DOMAIN n.map \ {k} : n.map[x] = e.map[x]
  BY <1>3 DEF WithEntry
<1>5. n.list \in Seq(K) /\ IsListOf(n.list, DOMAIN e.map \cup {k})
  <2>1. k \notin DOMAIN e.map
    BY <1>2 DEF FewerEntries
  <2> QED BY <1>2, <1>3, <2>1, PushFrontLists DEF Shaped, ShardListed
<1>6. Shaped(n, K)
  BY <1>1, <1>2, <1>3, <1>4, <1>5 DEF Shaped, ShardListed
<1>7. PutEntry(n, s, k, w)
  BY <1>2, <1>4 DEF PutEntry, FewerEntries
<1> QED BY <1>3, <1>4, <1>6, <1>7 DEF n, e, w

(* put, of a cached key or of a new one.                                   *)
LEMMA PutShaped ==
    ASSUME NEW s, NEW K, Shaped(s, K), NEW k \in K, NEW r, NEW type, NEW t
    PROVE  LET n == AfterPut(s, k, r, type, t)
           IN  Shaped(n, K) /\ PutEntry(n, s, k, NewEntry(r, type, t))
<1>1. CASE k \in DOMAIN s.map
  BY <1>1, OverwrittenShaped DEF AfterPut
<1>2. CASE k \notin DOMAIN s.map
  BY <1>2, InsertedShaped DEF AfterPut
<1> QED BY <1>1, <1>2

-----------------------------------------------------------------------------
(* A shard with its types, its list and its counters in order.             *)
ShardOK(s, K) ==
    /\ ShardTypeOK(s, K)
    /\ ShardListed(s)
    /\ ShardMemoryExact(s)
    /\ StatsBalanced(s.stats)

LEMMA OKShaped == ASSUME NEW s, NEW K, ShardOK(s, K) PROVE Shaped(s, K)
  BY DEF ShardOK, ShardTypeOK, Shaped

LEMMA EmptyOK == ASSUME NEW K PROVE ShardOK(EmptyShard, K)
<1>1. DOMAIN EmptyShard.map = {} /\ Sizes(EmptyShard) = [k \in {} |-> 0]
  BY DEF EmptyShard, Sizes
<1>2. ShardMemoryExact(EmptyShard)
  BY <1>1, TotalEmpty DEF ShardMemoryExact, EmptyShard
<1>3. ShardListed(EmptyShard)
  BY EmptyShaped DEF Shaped
<1>4. ShardTypeOK(EmptyShard, K) /\ StatsBalanced(EmptyShard.stats)
  BY DEF ShardTypeOK, StatsBalanced, EmptyShard, NoStats, StatsType, Counters
<1> QED BY <1>2, <1>3, <1>4 DEF ShardOK

(* The keys are finitely many and the sizes can be added.                  *)
LEMMA SizesSummable ==
    ASSUME NEW s, NEW K, ShardTypeOK(s, K), ShardListed(s)
    PROVE  /\ IsFiniteSet(DOMAIN s.map)
           /\ \A k \in DOMAIN s.map : Sizes(s)[k] = s.map[k].size /\ s.map[k].size \in Nat
<1>1. IsFiniteSet(DOMAIN s.map)
  BY ListedFinite DEF ShardTypeOK, ShardListed
<1>2. \A k \in DOMAIN s.map : s.map[k] \in Entry
  BY DEF ShardTypeOK
<1> QED BY <1>1, <1>2 DEF Sizes, Entry

(* Taking the entries of B away takes their sizes away.                    *)
LEMMA FewerSizes ==
    ASSUME NEW s, NEW K, ShardTypeOK(s, K), ShardListed(s), NEW n, FewerEntries(n, s),
           NEW B \in SUBSET DOMAIN s.map, DOMAIN n.map = DOMAIN s.map \ B
    PROVE  /\ Total(Sizes(n), DOMAIN n.map) = Total(Sizes(s), DOMAIN s.map) - Total(Sizes(s), B)
           /\ Total(Sizes(s), B) \in Int
<1>1. /\ IsFiniteSet(DOMAIN s.map)
      /\ \A k \in DOMAIN s.map : Sizes(s)[k] = s.map[k].size /\ s.map[k].size \in Nat
  BY SizesSummable
<1>2. /\ Total(Sizes(s), DOMAIN s.map) = Total(Sizes(s), DOMAIN n.map) + Total(Sizes(s), B)
      /\ Total(Sizes(s), DOMAIN s.map) \in Int /\ Total(Sizes(s), DOMAIN n.map) \in Int
      /\ Total(Sizes(s), B) \in Int
  <2> DEFINE D == DOMAIN s.map
             f == Sizes(s)
  <2>1. \A k \in D : f[k] \in Int
    BY <1>1
  <2> HIDE DEF D, f
  <2>2. /\ Total(f, D) = Total(f, D \ B) + Total(f, B)
        /\ Total(f, D) \in Int /\ Total(f, D \ B) \in Int /\ Total(f, B) \in Int
    BY <1>1, <2>1, TotalParts DEF D
  <2> QED BY <2>2 DEF D, f
<1>3. \A k \in DOMAIN n.map : Sizes(n)[k] = Sizes(s)[k] /\ Sizes(n)[k] \in Int
  BY <1>1 DEF FewerEntries, Sizes
<1>4. IsFiniteSet(DOMAIN n.map)
  BY <1>1, FS_Subset
<1>5. Total(Sizes(n), DOMAIN n.map) = Total(Sizes(s), DOMAIN n.map)
  BY <1>3, <1>4, TotalSame
<1> QED BY <1>2, <1>5

LEMMA FewerTyped ==
    ASSUME NEW s, NEW K, ShardTypeOK(s, K), NEW n, Shaped(n, K), FewerEntries(n, s),
           n.memory \in Int, n.stats \in StatsType
    PROVE  ShardTypeOK(n, K)
<1>1. \A x \in DOMAIN n.map : n.map[x] \in Entry
  BY DEF FewerEntries, ShardTypeOK
<1> QED BY <1>1 DEF ShardTypeOK, Shaped

(* The counters stay naturals, and hits and misses add up.                 *)
LEMMA CountedBalanced ==
    ASSUME NEW st \in StatsType, StatsBalanced(st),
           NEW C \in {{"lookups", "hits"}, {"lookups", "misses"},
                      {"lookups", "misses", "expired"}}
    PROVE  /\ Counted(st, C) \in StatsType /\ StatsBalanced(Counted(st, C))
           /\ Counted(st, C).lookups = st.lookups + 1
<1>1. Counted(st, C) \in StatsType
  BY DEF Counted, StatsType
<1>2. \A c \in Counters : Counted(st, C)[c] = IF c \in C THEN st[c] + 1 ELSE st[c]
  BY DEF Counted
<1> QED BY <1>1, <1>2 DEF StatsType, StatsBalanced, Counters

(* get keeps a shard in order and counts one lookup.                       *)
LEMMA GetOK ==
    ASSUME NEW s, NEW K, ShardOK(s, K), NEW k \in K, NEW t
    PROVE  LET n == AfterGet(s, k, t)
           IN  ShardOK(n, K) /\ n.stats.lookups = s.stats.lookups + 1
<1> DEFINE n == AfterGet(s, k, t)
<1> USE OKShaped
<1>1. Shaped(n, K) /\ FewerEntries(n, s)
  BY GetShaped
<1>2. s.memory \in Int /\ s.stats \in StatsType /\ StatsBalanced(s.stats)
  BY DEF ShardOK, ShardTypeOK
<1>3. /\ n.stats \in StatsType /\ StatsBalanced(n.stats)
      /\ n.stats.lookups = s.stats.lookups + 1
  <2>1. \E C \in {{"lookups", "hits"}, {"lookups", "misses"}, {"lookups", "misses", "expired"}} :
           n.stats = Counted(s.stats, C)
    BY GetShaped DEF IsHit
  <2> QED BY <1>2, <2>1, CountedBalanced
<1>4. n.memory \in Int /\ ShardMemoryExact(n)
  <2>1. CASE n.map = s.map /\ n.memory = s.memory
    <3>1. Sizes(n) = Sizes(s)
      BY <2>1 DEF Sizes
    <3> QED BY <1>2, <2>1, <3>1 DEF ShardOK, ShardMemoryExact
  <2>2. CASE ~ IsHit(s, k, t) /\ k \in DOMAIN s.map
    <3>1. /\ DOMAIN n.map = DOMAIN s.map \ {k} /\ n.memory = s.memory - s.map[k].size
      BY <2>2, GetShaped, RemovedShaped
    <3>2. /\ Total(Sizes(n), DOMAIN n.map) = Total(Sizes(s), DOMAIN s.map) - Total(Sizes(s), {k})
      BY <1>1, <2>2, <3>1, FewerSizes DEF ShardOK
    <3>3. Total(Sizes(s), {k}) = s.map[k].size /\ s.map[k].size \in Nat
      <4>1. Sizes(s)[k] = s.map[k].size /\ s.map[k].size \in Nat
        BY <2>2, SizesSummable DEF ShardOK
      <4>2. IsFiniteSet({k}) /\ {k} \ {k} = {}
        BY FS_Singleton
      <4> QED BY <4>1, <4>2, TotalSplit, TotalEmpty
    <3> QED BY <1>2, <3>1, <3>2, <3>3 DEF ShardOK, ShardMemoryExact
  <2> QED BY <2>1, <2>2, GetShaped DEF IsHit
<1> HIDE DEF n
<1>5. ShardTypeOK(n, K)
  BY <1>1, <1>3, <1>4, FewerTyped DEF ShardOK
<1> QED BY <1>1, <1>3, <1>4, <1>5 DEF ShardOK, Shaped, n

-----------------------------------------------------------------------------
LEMMA NewEntryTyped ==
    ASSUME NEW r \in Results, NEW type \in DataTypes, NEW t \in Nat
    PROVE  NewEntry(r, type, t) \in Entry /\ NewEntry(r, type, t).size = SizeOf[r]
           /\ SizeOf[r] \in Nat
  BY SizeAssumption DEF NewEntry, Entry

(* A sum over the entries after a put: the new size, and the others.       *)
LEMMA PutSizes ==
    ASSUME NEW s, NEW K, ShardTypeOK(s, K), ShardListed(s), NEW k, NEW n, NEW r \in Results,
           NEW type \in DataTypes, NEW t \in Nat, PutEntry(n, s, k, NewEntry(r, type, t)),
           IsFiniteSet(DOMAIN n.map)
    PROVE  /\ Total(Sizes(n), DOMAIN n.map) = SizeOf[r] + Total(Sizes(s), DOMAIN n.map \ {k})
           /\ Total(Sizes(s), DOMAIN n.map \ {k}) \in Int
<1> DEFINE D == DOMAIN n.map
<1>1. \A x \in DOMAIN s.map : Sizes(s)[x] = s.map[x].size /\ s.map[x].size \in Nat
  BY SizesSummable
<1>2. k \in D /\ Sizes(n)[k] = SizeOf[r] /\ SizeOf[r] \in Nat
  BY NewEntryTyped DEF PutEntry, Sizes
<1>3. ASSUME NEW x \in D \ {k} PROVE Sizes(n)[x] = Sizes(s)[x] /\ Sizes(n)[x] \in Int
  <2>1. x \in DOMAIN s.map /\ n.map[x] = s.map[x]
    BY DEF PutEntry
  <2>2. Sizes(n)[x] = n.map[x].size
    BY DEF Sizes
  <2> QED BY <1>1, <2>1, <2>2
<1>4. IsFiniteSet(D \ {k})
  BY FS_Subset
<1>5. \A x \in D : Sizes(n)[x] \in Int
  BY <1>2, <1>3
<1> HIDE DEF D
<1>6. Total(Sizes(n), D) = Sizes(n)[k] + Total(Sizes(n), D \ {k})
  BY <1>2, <1>5, TotalSplit DEF D
<1>7. Total(Sizes(n), D \ {k}) = Total(Sizes(s), D \ {k}) /\ Total(Sizes(n), D \ {k}) \in Int
  BY <1>3, <1>4, TotalSame, TotalSplit
<1> QED BY <1>2, <1>6, <1>7 DEF D

(* put keeps a shard in order and counts no lookup.                        *)
LEMMA PutOK ==
    ASSUME NEW s, NEW K, ShardOK(s, K), NEW k \in K, NEW r \in Results,
           NEW type \in DataTypes, NEW t \in Nat
    PROVE  LET n == AfterPut(s, k, r, type, t)
           IN  ShardOK(n, K) /\ n.stats.lookups = s.stats.lookups
<1> DEFINE n == AfterPut(s, k, r, type, t)
           e == evict_if_needed(s, SizeOf[r])
           w == NewEntry(r, type, t)
<1>1. Shaped(s, K)
  BY OKShaped
<1>2. Shaped(n, K) /\ PutEntry(n, s, k, w)
  BY <1>1, PutShaped
<1>3. /\ s.memory \in Int /\ s.stats \in StatsType /\ StatsBalanced(s.stats)
      /\ ShardTypeOK(s, K) /\ ShardListed(s) /\ s.memory = Total(Sizes(s), DOMAIN s.map)
  BY DEF ShardOK, ShardTypeOK, ShardMemoryExact
<1>4. IsFiniteSet(DOMAIN n.map)
  BY <1>2, ListedFinite DEF Shaped, ShardListed
<1>5. /\ Total(Sizes(n), DOMAIN n.map) = SizeOf[r] + Total(Sizes(s), DOMAIN n.map \ {k})
      /\ Total(Sizes(s), DOMAIN n.map \ {k}) \in Int /\ SizeOf[r] \in Nat
  BY <1>2, <1>3, <1>4, PutSizes, NewEntryTyped
<1>6. /\ n.memory \in Int /\ n.stats \in StatsType /\ StatsBalanced(n.stats)
      /\ n.stats.lookups = s.stats.lookups /\ n.memory = Total(Sizes(n), DOMAIN n.map)
  <2>1. CASE k \in DOMAIN s.map
    <3>1. /\ DOMAIN n.map = DOMAIN s.map /\ n.stats = s.stats
          /\ n.memory = s.memory - s.map[k].size + SizeOf[r]
      BY <1>1, <2>1, OverwrittenShaped DEF AfterPut
    <3>2. s.map[k].size \in Nat /\ s.memory = s.map[k].size + Total(Sizes(s), DOMAIN s.map \ {k})
      <4>1. /\ IsFiniteSet(DOMAIN s.map)
            /\ \A x \in DOMAIN s.map : Sizes(s)[x] = s.map[x].size /\ s.map[x].size \in Nat
        BY <1>3, SizesSummable
      <4>2. \A x \in DOMAIN s.map : Sizes(s)[x] \in Int
        BY <4>1
      <4> QED BY <1>3, <2>1, <4>1, <4>2, TotalSplit
    <3>3. n.memory \in Int /\ n.memory = Total(Sizes(n), DOMAIN n.map)
      BY <1>3, <1>5, <3>1, <3>2
    <3> QED BY <1>3, <3>1, <3>3
  <2>2. CASE k \notin DOMAIN s.map
    <3> DEFINE l == KeptLength(s, SizeOf[r])
    <3>1. /\ DOMAIN n.map = DOMAIN e.map \cup {k} /\ n.stats = e.stats
          /\ n.memory = e.memory + SizeOf[r]
      BY <1>1, <2>2, InsertedShaped DEF AfterPut
    <3>2. /\ FewerEntries(e, s) /\ DOMAIN e.map = DOMAIN s.map \ KeysFrom(s, l)
          /\ e.memory = s.memory - SizesFrom(s, l)
          /\ e.stats = [s.stats EXCEPT !.evictions = @ + Len(s.list) - l]
      BY <1>1, EvictShaped
    <3>3. l \in 0..Len(s.list) /\ Len(s.list) \in Nat
      BY <1>1, KeptIsLongest DEF Shaped
    <3>4. n.stats \in StatsType /\ StatsBalanced(n.stats) /\ n.stats.lookups = s.stats.lookups
      <4>1. s.stats.evictions + Len(s.list) - l \in Nat
        BY <1>3, <3>3 DEF StatsType, Counters
      <4> HIDE DEF n, l
      <4> QED BY <1>3, <3>1, <3>2, <4>1 DEF StatsType, StatsBalanced, Counters
    <3>5. KeysFrom(s, l) \in SUBSET DOMAIN s.map
      BY <1>3, <3>3 DEF KeysFrom, ShardListed, IsListOf
    <3>6. /\ Total(Sizes(s), DOMAIN e.map) = s.memory - SizesFrom(s, l)
          /\ SizesFrom(s, l) \in Int
      <4> DEFINE B == KeysFrom(s, l)
                 D == DOMAIN s.map
                 f == Sizes(s)
      <4>1. IsFiniteSet(D) /\ \A x \in D : f[x] \in Int
        BY <1>3, SizesSummable
      <4> HIDE DEF B, D, f
      <4>2. /\ Total(f, D) = Total(f, D \ B) + Total(f, B)
            /\ Total(f, D) \in Int /\ Total(f, D \ B) \in Int /\ Total(f, B) \in Int
        BY <3>5, <4>1, TotalParts DEF B, D
      <4> QED BY <1>3, <3>2, <4>2 DEF B, D, f, SizesFrom
    <3>7. DOMAIN n.map \ {k} = DOMAIN e.map
      BY <2>2, <3>1, <3>2
    <3> HIDE DEF n, e, l
    <3>8. n.memory = s.memory - SizesFrom(s, l) + SizeOf[r]
      BY <3>1, <3>2
    <3>9. Total(Sizes(n), DOMAIN n.map) = SizeOf[r] + (s.memory - SizesFrom(s, l))
      BY <1>5, <3>6, <3>7
    <3>10. n.memory \in Int /\ n.memory = Total(Sizes(n), DOMAIN n.map)
      BY <1>3, <1>5, <3>6, <3>8, <3>9
    <3> QED BY <3>4, <3>10
  <2> QED BY <2>1, <2>2
<1> HIDE DEF n
<1>7. ShardTypeOK(n, K)
  <2>1. \A x \in DOMAIN n.map : n.map[x] \in Entry
    BY <1>2, <1>3, NewEntryTyped DEF PutEntry, ShardTypeOK
  <2> QED BY <1>2, <1>6, <2>1 DEF ShardTypeOK, Shaped
<1> QED BY <1>2, <1>6, <1>7 DEF ShardOK, Shaped, ShardMemoryExact, n

-----------------------------------------------------------------------------
(* get and put keep the list in order of use, if a key that is hit or put  *)
(* is used at o, the latest of all times of use.                           *)
LEMMA GetInOrder ==
    ASSUME NEW s, NEW K, Shaped(s, K), NEW k \in K, NEW t,
           NEW used \in [K -> Nat], InOrderOfUse(s.list, used),
           NEW o \in Nat, \A y \in K : used[y] <= o
    PROVE  InOrderOfUse(AfterGet(s, k, t).list,
                        IF IsHit(s, k, t) THEN [used EXCEPT ![k] = o] ELSE used)
<1>1. s.list \in Seq(K) /\ IsListOf(s.list, DOMAIN s.map)
  BY DEF Shaped, ShardListed
<1>2. CASE IsHit(s, k, t)
  <2>1. AfterGet(s, k, t).list = MoveToFront(s.list, k) /\ k \in DOMAIN s.map
    BY <1>2, GetShaped DEF IsHit
  <2>2. InOrderOfUse(MoveToFront(s.list, k), [used EXCEPT ![k] = o])
    BY <1>1, <2>1, MoveToFrontInOrder
  <2> QED BY <1>2, <2>1, <2>2
<1>3. CASE ~ IsHit(s, k, t) /\ k \in DOMAIN s.map
  <2>1. AfterGet(s, k, t).list = Erase(s.list, k)
    BY <1>3, GetShaped, RemovedShaped
  <2> QED BY <1>1, <1>3, <2>1, EraseInOrder
<1>4. CASE k \notin DOMAIN s.map
  BY <1>4, GetShaped DEF IsHit
<1> QED BY <1>2, <1>3, <1>4

LEMMA PutInOrder ==
    ASSUME NEW s, NEW K, Shaped(s, K), NEW k \in K, NEW r, NEW type, NEW t,
           NEW used \in [K -> Nat], InOrderOfUse(s.list, used),
           NEW o \in Nat, \A y \in K : used[y] <= o
    PROVE  InOrderOfUse(AfterPut(s, k, r, type, t).list, [used EXCEPT ![k] = o])
<1>1. s.list \in Seq(K) /\ IsListOf(s.list, DOMAIN s.map)
  BY DEF Shaped, ShardListed
<1>2. CASE k \in DOMAIN s.map
  <2>1. AfterPut(s, k, r, type, t).list = MoveToFront(s.list, k)
    BY <1>2, OverwrittenShaped DEF AfterPut
  <2>2. InOrderOfUse(MoveToFront(s.list, k), [used EXCEPT ![k] = o])
    BY <1>1, <1>2, MoveToFrontInOrder
  <2> QED BY <2>1, <2>2
<1>3. CASE k \notin DOMAIN s.map
  <2> DEFINE e == evict_if_needed(s, SizeOf[r])
             n == KeptLength(s, SizeOf[r])
  <2>1. AfterPut(s, k, r, type, t).list = PushFront(e.list, k)
    BY <1>3, InsertedShaped DEF AfterPut
  <2>2. e.list = SubSeq(s.list, 1, n) /\ Shaped(e, K) /\ FewerEntries(e, s)
    BY EvictShaped
  <2>3. n \in 0..Len(s.list)
    BY <1>1, KeptIsLongest
  <2> HIDE DEF e, n
  <2>4. InOrderOfUse(e.list, used)
    BY <1>1, <2>2, <2>3, FrontInOrder
  <2>5. e.list \in Seq(K) /\ IsListOf(e.list, DOMAIN e.map) /\ k \notin DOMAIN e.map
    BY <1>3, <2>2 DEF Shaped, ShardListed, FewerEntries
  <2>6. InOrderOfUse(PushFront(e.list, k), [used EXCEPT ![k] = o])
    BY <2>4, <2>5, PushFrontInOrder
  <2> QED BY <2>1, <2>6
<1> QED BY <1>2, <1>3

(* An insert evicts just enough: it ends within the budget or with the new *)
(* entry alone, and the last entry evicted would not have fitted.          *)
LEMMA InsertJustEnough ==
    ASSUME NEW s, NEW K, ShardOK(s, K), NEW k \in K, k \notin DOMAIN s.map,
           NEW r \in Results, NEW type, NEW t
    PROVE  LET n    == Inserted(s, k, r, type, t)
               gone == DOMAIN s.map \ DOMAIN n.map
           IN  /\ n.memory <= ShardMemory \/ DOMAIN n.map = {k}
               /\ gone # {} => \E g \in gone : n.memory + s.map[g].size > ShardMemory
<1> DEFINE n    == Inserted(s, k, r, type, t)
           e    == evict_if_needed(s, SizeOf[r])
           l    == KeptLength(s, SizeOf[r])
           gone == DOMAIN s.map \ DOMAIN n.map
<1>1. Shaped(s, K) /\ ShardTypeOK(s, K) /\ ShardListed(s)
  BY OKShaped DEF ShardOK
<1>2. /\ DOMAIN n.map = DOMAIN e.map \cup {k} /\ n.memory = e.memory + SizeOf[r]
  BY <1>1, InsertedShaped
<1>3. /\ DOMAIN e.map = DOMAIN s.map \ KeysFrom(s, l)
      /\ e.memory = s.memory - SizesFrom(s, l)
  BY <1>1, EvictShaped
<1>4. /\ l \in 0..Len(s.list)
      /\ l = 0 \/ Fits(s, l, SizeOf[r])
      /\ \A m \in l + 1 .. Len(s.list) : ~ Fits(s, m, SizeOf[r])
      /\ Len(s.list) \in Nat
  BY <1>1, KeptIsLongest DEF Shaped
<1>5. s.memory \in Int /\ SizeOf[r] \in Nat /\ ShardMemory \in Nat
  BY <1>1, SizeAssumption DEF ShardTypeOK
<1>6. ASSUME NEW m \in 0..Len(s.list)
      PROVE  /\ KeysFrom(s, m) \in SUBSET DOMAIN s.map
             /\ IsFiniteSet(KeysFrom(s, m))
             /\ SizesFrom(s, m) \in Int
  <2>1. KeysFrom(s, m) \in SUBSET DOMAIN s.map
    BY <1>1, <1>4 DEF KeysFrom, ShardListed, IsListOf
  <2>2. IsFiniteSet(KeysFrom(s, m))
    BY <1>1, <2>1, SizesSummable, FS_Subset
  <2>3. \A x \in KeysFrom(s, m) : Sizes(s)[x] \in Int
    BY <1>1, <2>1, SizesSummable
  <2> QED BY <2>1, <2>2, <2>3, TotalSplit DEF SizesFrom
<1>7. n.memory <= ShardMemory \/ DOMAIN n.map = {k}
  <2>1. CASE l = 0
    <3>1. DOMAIN s.map \subseteq KeysFrom(s, 0)
      BY <1>1, <1>4 DEF KeysFrom, ShardListed, IsListOf
    <3> QED BY <1>2, <1>3, <2>1, <3>1
  <2>2. CASE Fits(s, l, SizeOf[r])
    BY <1>2, <1>3, <1>5, <2>2 DEF Fits
  <2> QED BY <1>4, <2>1, <2>2
<1>8. ASSUME gone # {}
      PROVE  \E g \in gone : n.memory + s.map[g].size > ShardMemory
  <2>1. l + 1 \in 1..Len(s.list)
    <3>1. KeysFrom(s, l) # {}
      BY <1>2, <1>3, <1>8
    <3> QED BY <1>4, <3>1 DEF KeysFrom
  <2> DEFINE g == s.list[l + 1]
  <2>2. g \in KeysFrom(s, l) /\ g \in DOMAIN s.map
    BY <1>1, <1>4, <2>1 DEF KeysFrom, ShardListed, IsListOf
  <2>3. KeysFrom(s, l) \ {g} = KeysFrom(s, l + 1)
    <3>1. ASSUME NEW i \in l + 2 .. Len(s.list) PROVE s.list[i] # g
      BY <1>1, <1>4, <2>1 DEF ShardListed, IsListOf
    <3>2. l + 1 .. Len(s.list) = {l + 1} \cup (l + 2 .. Len(s.list)) /\ (l + 1) + 1 = l + 2
      BY <1>4, <2>1
    <3> QED BY <3>1, <3>2 DEF KeysFrom
  <2> HIDE DEF g, l, n, e, gone
  <2>4. g \in gone
    BY <1>2, <1>3, <2>2 DEF gone
  <2>5. SizesFrom(s, l) = s.map[g].size + SizesFrom(s, l + 1) /\ s.map[g].size \in Nat
    <3>1. \A x \in DOMAIN s.map : Sizes(s)[x] = s.map[x].size /\ s.map[x].size \in Nat
      BY <1>1, SizesSummable
    <3>2. IsFiniteSet(KeysFrom(s, l)) /\ \A x \in KeysFrom(s, l) : Sizes(s)[x] \in Int
      BY <1>4, <1>6, <3>1
    <3> QED BY <2>2, <2>3, <3>1, <3>2, TotalSplit DEF SizesFrom
  <2>6. ~ Fits(s, l + 1, SizeOf[r]) /\ SizesFrom(s, l + 1) \in Int
    BY <1>4, <1>6, <2>1
  <2>7. n.memory + s.map[g].size > ShardMemory
    BY <1>2, <1>3, <1>5, <2>5, <2>6 DEF Fits
  <2> QED BY <2>4, <2>7
<1> QED BY <1>7, <1>8
=============================================================================
