----------------------------- MODULE CacheShard -----------------------------
(***************************************************************************)
(* CacheShard (cache.h): one shard of the result cache, a hash map with a  *)
(* recency list, a memory budget and a time to live per kind of entry.     *)
(*                                                                         *)
(* get and put hold the shard's mutex exclusively from their first         *)
(* statement to their return, so each is one function from the old shard   *)
(* to the new one.  A shard is a record; IPCache and the lookup services   *)
(* keep shards in their state and apply these functions to them.           *)
(***************************************************************************)
EXTENDS LRUList, Sums

CONSTANTS
    Keys,           \* cache keys: IP or MAC address strings
    Results,        \* lookup results
    SizeOf,         \* [Results -> Nat]: estimate_entry_size of the entry
    ShardMemory,    \* max_memory_bytes_ of a shard
    TTL             \* [DataTypes -> Nat]: ttl_for_type

DataTypes == {"IP_GEOLOCATION", "MAC_OUI", "NEGATIVE"}

ASSUME SizeAssumption == SizeOf \in [Results -> Nat] /\ ShardMemory \in Nat
ASSUME TTLAssumption  == TTL \in [DataTypes -> Nat]

Entry == [result : Results, timestamp : Nat, size : Nat, type : DataTypes]

(* CacheStats                                                              *)
Counters == {"lookups", "hits", "misses", "evictions", "expired"}

NoStats == [c \in Counters |-> 0]

EmptyShard == [map |-> [k \in {} |-> {}], list |-> <<>>, memory |-> 0, stats |-> NoStats]

-----------------------------------------------------------------------------
(* The entry of k is older than its time to live at time t.                *)
IsStale(s, k, t) == t - s.map[k].timestamp > TTL[s.map[k].type]

IsHit(s, k, t) == k \in DOMAIN s.map /\ ~ IsStale(s, k, t)

Without(s, k) == [x \in DOMAIN s.map \ {k} |-> s.map[x]]

(* The counters of C go up by one.                                         *)
Counted(st, C) == [c \in Counters |-> IF c \in C THEN st[c] + 1 ELSE st[c]]

(* Seeded error: a lookup that finds nothing is not counted as a miss.     *)
NotMissed(s) == [s EXCEPT !.stats = Counted(@, {"lookups"})]

(* get of a key that is not cached.                                        *)
Missed(s) == [s EXCEPT !.stats = Counted(@, {"lookups", "misses"})]

(* Seeded error: the list node of a removed entry stays.                   *)
RemovedFromMap(s, k) == [s EXCEPT !.map = Without(s, k), !.memory = @ - s.map[k].size]

Removed(s, k) ==
    [map    |-> Without(s, k),
     list   |-> Erase(s.list, k),
     memory |-> s.memory - s.map[k].size,
     stats  |-> s.stats]

(* get of a key whose entry has outlived its time to live: erase it.       *)
Expired(s, k) == [Removed(s, k) EXCEPT !.stats = Counted(@, {"lookups", "misses", "expired"})]

(* get of a live entry: it becomes the most recently used.                 *)
Touched(s, k) ==
    [s EXCEPT !.list = MoveToFront(@, k), !.stats = Counted(@, {"lookups", "hits"})]

(* The shard after get(k) at time t; on a hit get returns s.map[k].result. *)
AfterGet(s, k, t) ==
    IF IsHit(s, k, t) THEN Touched(s, k)
    ELSE IF k \in DOMAIN s.map THEN Expired(s, k) ELSE Missed(s)

-----------------------------------------------------------------------------
NewEntry(r, type, t) == [result |-> r, timestamp |-> t, size |-> SizeOf[r], type |-> type]

WithEntry(s, k, e) ==
    [x \in DOMAIN s.map \cup {k} |-> IF x = k THEN e ELSE s.map[x]]

(* Seeded error: the size of the old result is not given back.             *)
OverwrittenTwiceCounted(s, k, r, type, t) ==
    [s EXCEPT !.map[k] = NewEntry(r, type, t), !.list = MoveToFront(@, k),
              !.memory = @ + SizeOf[r]]

(* put of a cached key: replaced in place, no eviction.                    *)
Overwritten(s, k, r, type, t) ==
    [map    |-> WithEntry(s, k, NewEntry(r, type, t)),
     list   |-> MoveToFront(s.list, k),
     memory |-> s.memory - s.map[k].size + SizeOf[r],
     stats  |-> s.stats]

(* evict_if_needed: entries leave from the back of the list until the new  *)
(* one fits or none is left.  SizesFrom(s, n) is what the entries behind   *)
(* the n-th occupy.                                                        *)
Sizes(s) == [k \in DOMAIN s.map |-> s.map[k].size]

KeysFrom(s, n) == {s.list[i] : i \in n + 1 .. Len(s.list)}

SizesFrom(s, n) == Total(Sizes(s), KeysFrom(s, n))

(* Seeded error: the new entry is not counted.                             *)
FitsBefore(s, n, size) == s.memory - SizesFrom(s, n) <= ShardMemory

Fits(s, n, size) == s.memory - SizesFrom(s, n) + size <= ShardMemory

KeptLength(s, size) ==
    LET stops == {n \in 0..Len(s.list) : n = 0 \/ Fits(s, n, size)}
    IN  CHOOSE n \in stops : \A m \in stops : m <= n

evict_if_needed(s, size) ==
    LET n == KeptLength(s, size)
    IN  [map    |-> [k \in DOMAIN s.map \ KeysFrom(s, n) |-> s.map[k]],
         list   |-> SubSeq(s.list, 1, n),
         memory |-> s.memory - SizesFrom(s, n),
         stats  |-> [s.stats EXCEPT !.evictions = @ + Len(s.list) - n]]

(* put of a new key: make room, then insert at the front.                  *)
Inserted(s, k, r, type, t) ==
    LET e == evict_if_needed(s, SizeOf[r])
    IN  [map    |-> WithEntry(e, k, NewEntry(r, type, t)),
         list   |-> PushFront(e.list, k),
         memory |-> e.memory + SizeOf[r],
         stats  |-> e.stats]

AfterPut(s, k, r, type, t) ==
    IF k \in DOMAIN s.map THEN Overwritten(s, k, r, type, t) ELSE Inserted(s, k, r, type, t)

(* The shard with its counters at zero, for modules that do not observe    *)
(* the statistics.                                                         *)
Uncounted(s) == [s EXCEPT !.stats = NoStats]

-----------------------------------------------------------------------------
StatsType == [Counters -> Nat]

(* The members of a shard for keys of the set K, and their types.          *)
ShardTypeOK(s, K) ==
    /\ s = [map |-> s.map, list |-> s.list, memory |-> s.memory, stats |-> s.stats]
    /\ DOMAIN s.map \subseteq K
    /\ s.map \in [DOMAIN s.map -> Entry]
    /\ s.list \in Seq(K)
    /\ s.memory \in Int
    /\ s.stats \in StatsType

(* What keeps a shard usable: the map and the list hold the same keys.     *)
ShardListed(s) == IsListOf(s.list, DOMAIN s.map)

(* memory_usage_bytes_ is the sum of the sizes of the entries; in          *)
(* particular the unsigned counter never wraps below zero.                 *)
ShardMemoryExact(s) == s.memory = Total(Sizes(s), DOMAIN s.map)

(* Every lookup was counted once as a hit or as a miss, and every expired  *)
(* entry was found by a missing lookup.                                    *)
StatsBalanced(st) == st.hits + st.misses = st.lookups /\ st.expired <= st.misses
=============================================================================
