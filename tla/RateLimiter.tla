---------------------------- MODULE RateLimiter ----------------------------
(***************************************************************************)
(* RateLimiter (rate_limiter.h, rate_limiter.cpp): a sliding-window limit  *)
(* on the requests of each client IP, with at most max_ip_records_ IPs     *)
(* remembered, the least recently seen one being forgotten to make room.   *)
(*                                                                         *)
(* Request threads call is_allowed and get_remaining, the cleanup thread   *)
(* of the HTTP server calls cleanup.  Every call holds mutex_ from its     *)
(* first statement to its return, so a call is one action; cleanup, whose  *)
(* second loop unlinks one record at a time, is one action per iteration   *)
(* and keeps the mutex (sweep) until the last one.                         *)
(*                                                                         *)
(* Time is steady_clock::now() in units of the model.  A call reads it     *)
(* more than once (is_allowed reads it, then cleanup_old_timestamps reads  *)
(* it again), and up to Delay units may pass between two readings.         *)
(***************************************************************************)
EXTENDS LRUList, FiniteSets

CONSTANTS
    IPs,            \* client addresses
    MaxRequests,    \* max_requests_
    Window,         \* window_
    MaxIPRecords,   \* max_ip_records_
    Delay,          \* most time between two clock readings of one call
    MaxTime,        \* bound on the clock
    MaxGrants       \* bound on the granted requests of one IP

ASSUME IPsFinite        == IsFiniteSet(IPs)
ASSUME LimitsAssumption == MaxRequests \in Int /\ MaxIPRecords \in Nat
ASSUME TimeAssumption   == Window \in Nat /\ Delay \in Nat /\ MaxTime \in Nat
ASSUME GrantsAssumption == MaxGrants \in Nat

VARIABLES
    ip_records,     \* IP -> timestamps_ of its record, oldest first
    lru_list,       \* lru_list_
    sweep,          \* records a running cleanup() has still to unlink
    now,            \* steady_clock::now()
    \* History, read by no action:
    granted,        \* IP -> times of all the requests allowed so far
    seen,           \* IP -> time of its last is_allowed call
    evicted,        \* IPs whose record was ever evicted
    answer          \* the last value returned to a caller

vars == <<ip_records, lru_list, sweep, now, granted, seen, evicted, answer>>

NoAnswer == [op |-> "none"]

Init ==
    /\ ip_records = [ip \in {} |-> <<>>]
    /\ lru_list = <<>>
    /\ sweep = {}
    /\ now = 0
    /\ granted = [ip \in IPs |-> <<>>]
    /\ seen = [ip \in IPs |-> 0]
    /\ evicted = {}
    /\ answer = NoAnswer

-----------------------------------------------------------------------------
(* Seeded error: a timestamp as old as the window is dropped (>= for >).   *)
FirstYounger(ts, t) ==
    LET live == {k \in 1..Len(ts) + 1 : k <= Len(ts) => t - ts[k] < Window}
    IN  CHOOSE k \in live : \A j \in live : k <= j

(* cleanup_old_timestamps: pop from the front while the front is older     *)
(* than the window at time t.                                              *)
FirstLive(ts, t) ==
    LET live == {k \in 1..Len(ts) + 1 : k <= Len(ts) => t - ts[k] <= Window}
    IN  CHOOSE k \in live : \A j \in live : k <= j

(* Seeded error: old timestamps stay.                                      *)
Unpruned(ts, t) == ts

cleanup_old_timestamps(ts, t) == SubSeq(ts, FirstLive(ts, t), Len(ts))

(* scoped_lock lock(mutex_)                                                *)
MutexFree == sweep = {}

(* The caller is told that its request, timestamped t, is allowed.         *)
Grant(ip, t) ==
    /\ Len(granted[ip]) < MaxGrants
    /\ granted' = [granted EXCEPT ![ip] = Append(@, t)]
    /\ seen' = [seen EXCEPT ![ip] = t]
    /\ answer' = [op |-> "allowed", ip |-> ip, at |-> t]

(* is_allowed of a limiter that allows nothing.                            *)
RefuseAll(ip) ==
    /\ MutexFree
    /\ answer' = [op |-> "refused", ip |-> ip, at |-> now]
    /\ UNCHANGED <<ip_records, lru_list, sweep, now, granted, seen, evicted>>

KeepAll == [list |-> lru_list, ips |-> DOMAIN ip_records, gone |-> {}]

(* Seeded error: the node is popped and the record stays.                  *)
PopsNodeOnly == [KeepAll EXCEPT !.list = PopBack(lru_list)]

(* evict_lru: what the list and the set of recorded IPs become.            *)
evict_lru ==
    IF lru_list = <<>> THEN KeepAll
    ELSE [list |-> PopBack(lru_list), ips |-> DOMAIN ip_records \ {Back(lru_list)},
          gone |-> {Back(lru_list)}]

(* Seeded error: > for >=.                                                 *)
RoomTooLate == IF Cardinality(DOMAIN ip_records) > MaxIPRecords THEN evict_lru ELSE KeepAll

RoomForOne == IF Cardinality(DOMAIN ip_records) >= MaxIPRecords THEN evict_lru ELSE KeepAll

(* is_allowed of an IP without a record: make room, record it, allow it.   *)
AdmitNew(ip) ==
    /\ MutexFree
    /\ ip \notin DOMAIN ip_records
    /\ lru_list' = PushFront(RoomForOne.list, ip)
    /\ ip_records' = [x \in RoomForOne.ips \cup {ip} |->
                         IF x = ip THEN <<now>> ELSE ip_records[x]]
    /\ evicted' = evicted \cup RoomForOne.gone
    /\ Grant(ip, now)
    /\ UNCHANGED <<sweep, now>>

(* is_allowed of a recorded IP.  The timestamp it would get is read before *)
(* the old ones are dropped, which reads the clock again.                  *)
DecideKnown(ip) ==
    /\ MutexFree
    /\ ip \in DOMAIN ip_records
    /\ now' \in now .. now + Delay
    /\ now' <= MaxTime
    /\ lru_list' = MoveToFront(lru_list, ip)
    /\ LET kept == cleanup_old_timestamps(ip_records[ip], now')
       IN  \/ /\ Len(kept) < MaxRequests
              /\ ip_records' = [ip_records EXCEPT ![ip] = Append(kept, now)]
              /\ Grant(ip, now)
           \/ /\ Len(kept) >= MaxRequests
              /\ ip_records' = [ip_records EXCEPT ![ip] = kept]
              /\ seen' = [seen EXCEPT ![ip] = now]
              /\ answer' = [op |-> "refused", ip |-> ip, at |-> now']
              /\ UNCHANGED granted
    /\ UNCHANGED <<sweep, evicted>>

is_allowed(ip) ==
    IF MaxRequests <= 0 THEN RefuseAll(ip) ELSE AdmitNew(ip) \/ DecideKnown(ip)

(* get_remaining: the requests the IP has left now.  Prunes the record but *)
(* leaves its place in the list alone.                                     *)
NotNegative(n) == IF n < 0 THEN 0 ELSE n

get_remaining(ip) ==
    /\ MutexFree
    /\ \/ /\ ip \notin DOMAIN ip_records
          /\ answer' = [op |-> "remaining", ip |-> ip, at |-> now, left |-> MaxRequests]
          /\ UNCHANGED ip_records
       \/ /\ ip \in DOMAIN ip_records
          /\ LET kept == cleanup_old_timestamps(ip_records[ip], now)
             IN  /\ ip_records' = [ip_records EXCEPT ![ip] = kept]
                 /\ answer' = [op |-> "remaining", ip |-> ip, at |-> now,
                               left |-> NotNegative(MaxRequests - Len(kept))]
    /\ UNCHANGED <<lru_list, sweep, now, granted, seen, evicted>>

(* Seeded error: every record is marked for removal.                       *)
AllOf(records) == DOMAIN records

Emptied(records) == {ip \in DOMAIN records : records[ip] = <<>>}

(* cleanup, first loop: prune every record, each at its own clock reading; *)
(* the records left empty are the ones the second loop will unlink.        *)
CleanupPrune ==
    /\ MutexFree
    /\ now' \in now .. now + Delay
    /\ now' <= MaxTime
    /\ \E at \in [DOMAIN ip_records -> now .. now'] :
          ip_records' = [ip \in DOMAIN ip_records |->
                            cleanup_old_timestamps(ip_records[ip], at[ip])]
    /\ sweep' = Emptied(ip_records')
    /\ UNCHANGED <<lru_list, granted, seen, evicted, answer>>

(* Seeded error: an unlinked record stays on the list of those to unlink.  *)
SweepKept(ip) == sweep

SweepAfter(ip) == sweep \ {ip}

(* cleanup, second loop: unlink one empty record.  The mutex is released   *)
(* with the last one.                                                      *)
CleanupErase(ip) ==
    /\ ip \in sweep
    /\ lru_list' = Erase(lru_list, ip)
    /\ ip_records' = [x \in DOMAIN ip_records \ {ip} |-> ip_records[x]]
    /\ sweep' = SweepAfter(ip)
    /\ UNCHANGED <<now, granted, seen, evicted, answer>>

Tick ==
    /\ now < MaxTime
    /\ now' = now + 1
    /\ UNCHANGED <<ip_records, lru_list, sweep, granted, seen, evicted, answer>>

Next ==
    \/ \E ip \in IPs : is_allowed(ip) \/ get_remaining(ip) \/ CleanupErase(ip)
    \/ CleanupPrune
    \/ Tick

Spec == Init /\ [][Next]_vars

-----------------------------------------------------------------------------
(* The types of the variables.                                             *)
TypeOK ==
    /\ DOMAIN ip_records \subseteq IPs
    /\ ip_records \in [DOMAIN ip_records -> Seq(Nat)]
    /\ lru_list \in Seq(IPs)
    /\ sweep \subseteq DOMAIN ip_records
    /\ now \in 0..MaxTime
    /\ granted \in [IPs -> Seq(Nat)]
    /\ seen \in [IPs -> Nat]
    /\ evicted \subseteq IPs
    /\ answer.op = "none" \/ (answer.ip \in IPs /\ answer.at \in 0..MaxTime)

(* The map and the recency list hold the same IPs, each once: no record    *)
(* has a dangling iterator, and eviction always finds the record of the    *)
(* node it pops (rate_limiter.cpp: is_allowed, evict_lru, cleanup).        *)
ListMatchesRecords == IsListOf(lru_list, DOMAIN ip_records)

(* The list is in order of last use, whatever mix of splices, evictions    *)
(* and cleanups produced it, so the IP that evict_lru forgets is one that  *)
(* has been silent for at least as long as every other recorded IP.        *)
ListInOrderOfUse == InOrderOfUse(lru_list, seen)

(* The table never holds more than max_ip_records_ IPs (one, if that is    *)
(* zero: is_allowed evicts before it inserts).                             *)
RecordsBounded ==
    Cardinality(DOMAIN ip_records) <= IF MaxIPRecords = 0 THEN 1 ELSE MaxIPRecords

(* Any max_requests_ + 1 consecutive granted requests of one IP span more  *)
(* than the window, less the time between the two clock readings of        *)
(* is_allowed.                                                             *)
Spread(g) ==
    \A i \in 1..Len(g) :
        i + MaxRequests <= Len(g) => g[i + MaxRequests] - g[i] > Window - Delay

(* The limit: no IP whose record was not evicted gets more than            *)
(* max_requests_ requests through in any window, although its record is    *)
(* pruned, emptied, unlinked and created again meanwhile.                  *)
WindowQuota == \A ip \in IPs \ evicted : Spread(granted[ip])

(* The record of an IP is a suffix of its grants, never longer than the    *)
(* limit, and (unless the IP was evicted) every grant that is no longer    *)
(* recorded has left the window: cleanup_old_timestamps, called from three *)
(* places at different clock readings, only ever forgets what cannot count *)
(* any more.                                                               *)
Recorded(ip) == IF ip \in DOMAIN ip_records THEN ip_records[ip] ELSE <<>>

RecordOf(ts, g) ==
    /\ Len(ts) <= NotNegative(MaxRequests)
    /\ Len(ts) <= Len(g)
    /\ \A i \in 1..Len(ts) : ts[i] = g[Len(g) - Len(ts) + i]

ForgetsOnlyOld(ts, g, t) == \A i \in 1..Len(g) - Len(ts) : t - g[i] > Window

RecordsMatchGrants ==
    \A ip \in IPs :
        /\ RecordOf(Recorded(ip), granted[ip])
        /\ ip \notin evicted => ForgetsOnlyOld(Recorded(ip), granted[ip], now)

(* Grants and calls are recorded in order of time, and none in the future. *)
InOrder(g, t) ==
    \A i \in 1..Len(g) : g[i] <= t /\ \A j \in 1..i : g[j] <= g[i]

HistoryInOrder ==
    \A ip \in IPs :
        /\ seen[ip] <= now
        /\ InOrder(granted[ip], now)
        /\ MaxRequests <= 0 => granted[ip] = <<>>

(* Only empty records are unlinked by a running cleanup.                   *)
SweptAreEmpty == \A ip \in sweep : ip_records[ip] = <<>>

(* The limit as the option max-requests-per-minute states it, "Maximum    *)
(* requests per IP per minute": for every IP.                              *)
QuotaForEveryIP == \A ip \in IPs : Spread(granted[ip])

(* A request is refused only when max_requests_ requests of the same IP    *)
(* were granted in the window that ends at the refusal: evictions,         *)
(* cleanups and stale timestamps never make the limiter too strict.        *)
RefusalJustified ==
    answer.op = "refused" /\ MaxRequests > 0 =>
        LET g == granted[answer.ip]
        IN  /\ Len(g) >= MaxRequests
            /\ answer.at - g[Len(g) - MaxRequests + 1] <= Window

(* get_remaining tells the truth about an IP that was never evicted: the   *)
(* requests it counts as spent are exactly the granted ones still in the   *)
(* window.                                                                 *)
RemainingExact ==
    answer.op = "remaining" /\ MaxRequests > 0 /\ answer.ip \notin evicted =>
        LET g == granted[answer.ip]
        IN  answer.left = MaxRequests - Cardinality({i \in 1..Len(g) : answer.at - g[i] <= Window})

(* The inductive invariant that RateLimiterProofs rests on.                *)
IInv ==
    /\ TypeOK
    /\ ListMatchesRecords
    /\ ListInOrderOfUse
    /\ RecordsBounded
    /\ SweptAreEmpty
    /\ HistoryInOrder
    /\ RecordsMatchGrants
    /\ WindowQuota
    /\ RefusalJustified
    /\ RemainingExact
=============================================================================
