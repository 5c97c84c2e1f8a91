------------------------------ MODULE IPCache ------------------------------
(***************************************************************************)
(* IPCache (cache.h): the keys are spread over shards by their hash, each  *)
(* shard with its own lock.  get and put are atomic on one shard.          *)
(* get_stats, called by the /health handler while lookups go on, walks the *)
(* shards and takes the lock of each twice, once for the counters and once *)
(* for the memory, so it is a sequence of steps.                           *)
(*                                                                         *)
(* Time is system_clock::now(), which may be set back.                     *)
(***************************************************************************)
EXTENDS CacheShard

CONSTANTS
    ShardCount,     \* shard_count_
    ShardOf,        \* [Keys -> 1..ShardCount]: hash(key) % shard_count_
    Puts,           \* [Keys -> SUBSET (Results \X DataTypes)]: what callers cache
    MaxTime,        \* bound on the clock
    MaxOps          \* bound on the calls of get and put

ASSUME ShardAssumption == ShardCount \in Nat \ {0} /\ ShardOf \in [Keys -> 1..ShardCount]
ASSUME PutsAssumption  == Puts \in [Keys -> SUBSET (Results \X DataTypes)]
ASSUME BoundAssumption == MaxTime \in Nat /\ MaxOps \in Nat

VARIABLES
    shards,         \* shards_
    now,            \* system_clock::now()
    reader,         \* a get_stats() call: its position and its running total
    \* History, read by no action:
    ops,            \* calls of get and put so far
    used            \* key -> number of the last call that hit or put it

vars == <<shards, now, reader, ops, used>>

Shard == 1..ShardCount

Idle == [phase |-> "idle", at |-> 0, total |-> NoStats, memory |-> 0, since |-> 0]

Init ==
    /\ shards = [i \in Shard |-> EmptyShard]
    /\ now = 0
    /\ reader = Idle
    /\ ops = 0
    /\ used = [k \in Keys |-> 0]

(* Lookups counted by each shard so far, and by all of them.               *)
Lookups == [i \in Shard |-> shards[i].stats.lookups]

AllLookups == Total(Lookups, Shard)

Call(k) ==
    /\ ops < MaxOps
    /\ ops' = ops + 1
    /\ UNCHANGED <<now, reader>>

get(k) ==
    LET i == ShardOf[k]
    IN  /\ Call(k)
        /\ shards' = [shards EXCEPT ![i] = AfterGet(@, k, now)]
        /\ used' = IF IsHit(shards[i], k, now) THEN [used EXCEPT ![k] = ops'] ELSE used

put(k, r, type) ==
    /\ Call(k)
    /\ shards' = [shards EXCEPT ![ShardOf[k]] = AfterPut(@, k, r, type, now)]
    /\ used' = [used EXCEPT ![k] = ops']

(* get_stats: combined starts from zero ...                                *)
StatsBegin ==
    /\ reader.phase = "idle"
    /\ reader' = [Idle EXCEPT !.phase = "stats", !.at = 1, !.since = AllLookups]
    /\ UNCHANGED <<shards, now, ops, used>>

Plus(a, b) == [f \in DOMAIN a |-> a[f] + b[f]]

(* ... adds the counters of a shard (get_local_stats) ...                  *)
StatsAddLocal ==
    /\ reader.phase = "stats"
    /\ reader' = [reader EXCEPT !.phase = "memory", !.total = Plus(@, shards[reader.at].stats)]
    /\ UNCHANGED <<shards, now, ops, used>>

(* Seeded error: the loop goes one shard too far.                          *)
BeyondLastShard == reader.at > ShardCount

LastShard == reader.at = ShardCount

(* ... then its memory (memory_usage), and goes to the next shard.         *)
StatsAddMemory ==
    /\ reader.phase = "memory"
    /\ reader' = [reader EXCEPT !.phase = IF LastShard THEN "done" ELSE "stats",
                                !.at = IF LastShard THEN @ ELSE @ + 1,
                                !.memory = @ + shards[reader.at].memory]
    /\ UNCHANGED <<shards, now, ops, used>>

StatsReturn ==
    /\ reader.phase = "done"
    /\ reader' = Idle
    /\ UNCHANGED <<shards, now, ops, used>>

(* The wall clock moves, forwards or back.                                 *)
SetClock ==
    /\ now' \in 0..MaxTime \ {now}
    /\ UNCHANGED <<shards, reader, ops, used>>

Next ==
    \/ \E k \in Keys :
          \/ get(k)
          \/ \E p \in Puts[k] : put(k, p[1], p[2])
    \/ StatsBegin \/ StatsAddLocal \/ StatsAddMemory \/ StatsReturn
    \/ SetClock

Spec == Init /\ [][Next]_vars

-----------------------------------------------------------------------------
KeysOf(i) == {k \in Keys : ShardOf[k] = i}

Reader == [phase : {"idle", "stats", "memory", "done"}, at : 0..ShardCount,
           total : StatsType, memory : Int, since : Nat]

(* The types of the variables; while get_stats runs it stands at a shard.  *)
TypeOK ==
    /\ shards = [i \in Shard |-> shards[i]]
    /\ \A i \in Shard : ShardTypeOK(shards[i], KeysOf(i))
    /\ now \in 0..MaxTime
    /\ ops \in 0..MaxOps
    /\ used \in [Keys -> Nat]
    /\ reader \in Reader
    /\ reader.phase # "idle" => reader.at \in Shard

(* Map and list of every shard agree, so that the eviction loop always     *)
(* finds the map entry of the key at the back of the list, which it        *)
(* dereferences without a check (evict_if_needed).                         *)
ListsMatchMaps == \A i \in Shard : ShardListed(shards[i])

(* Every shard lists its keys in order of use, so eviction takes the least *)
(* recently used ones.                                                     *)
ListsInOrderOfUse == \A i \in Shard : InOrderOfUse(shards[i].list, used)

(* The memory counter of every shard is exact after any mix of inserts,    *)
(* overwrites, expiries and evictions.                                     *)
MemoryExact == \A i \in Shard : ShardMemoryExact(shards[i])

(* Whatever lookups run between its steps, the totals of get_stats are     *)
(* consistent (the hit rate of /health is at most 100 percent), and count  *)
(* at least the lookups finished before it began and at most those made by *)
(* the time it ends.                                                       *)
StatsConsistent ==
    /\ \A i \in Shard : StatsBalanced(shards[i].stats)
    /\ StatsBalanced(reader.total)
    /\ reader.phase = "done" =>
          reader.since <= reader.total.lookups /\ reader.total.lookups <= AllLookups

(* What an insert may evict: afterwards the shard is within its budget, or *)
(* the new entry is alone, and one of the evicted entries would not have   *)
(* fitted beside those kept.                                               *)
EvictedJustEnough(before, after) ==
    LET gone == DOMAIN before.map \ DOMAIN after.map
    IN  \A k \in DOMAIN after.map \ DOMAIN before.map :
            /\ after.memory <= ShardMemory \/ DOMAIN after.map = {k}
            /\ gone # {} => \E g \in gone : after.memory + before.map[g].size > ShardMemory

(* "Sharded LRU cache bounded by total memory": inserting a key evicts     *)
(* just enough, even if an overwrite had taken the shard beyond its budget *)
(* (evict_if_needed).                                                      *)
InsertEvictsJustEnough ==
    [][\A i \in Shard : EvictedJustEnough(shards[i], shards'[i])]_vars
=============================================================================
