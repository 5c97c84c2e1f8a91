------------------------- MODULE RateLimiterProofs -------------------------
(***************************************************************************)
(* The rate limiter keeps its limit for every number of IPs, every limit,  *)
(* window, table size and delay.  Its callers use it as its specification  *)
(* says, so that what is proved of it holds behind them; and the number in *)
(* a 429 response is bounded by what time has given back since the         *)
(* refusal, although the two come from two critical sections.              *)
(***************************************************************************)
EXTENDS RequestGate, DataProofs

(* cleanup_old_timestamps drops a prefix, all of it older than the window, *)
(* and what is left starts with a timestamp inside the window.             *)
LEMMA PruneProperties ==
    ASSUME NEW ts \in Seq(Nat), NEW t \in Nat
    PROVE  \E k \in 0..Len(ts) :
              /\ cleanup_old_timestamps(ts, t) \in Seq(Nat)
              /\ Len(cleanup_old_timestamps(ts, t)) = Len(ts) - k
              /\ \A i \in 1..Len(ts) - k : cleanup_old_timestamps(ts, t)[i] = ts[i + k]
              /\ \A i \in 1..k : t - ts[i] > Window
              /\ k < Len(ts) => t - ts[k + 1] <= Window
<1> DEFINE live == {k \in 1..Len(ts) + 1 : k <= Len(ts) => t - ts[k] <= Window}
           f == FirstLive(ts, t)
<1>1. Len(ts) \in Nat /\ \A i \in 1..Len(ts) : ts[i] \in Nat
  OBVIOUS
<1>2. live \subseteq Nat /\ Len(ts) + 1 \in live
  BY <1>1
<1>3. \E k \in live : \A j \in live : k <= j
  <2> HIDE DEF live
  <2> QED BY <1>2, LeastNatural
<1>4. f \in live /\ \A j \in live : f <= j
  BY <1>3 DEF FirstLive
<1> HIDE DEF f
<1>5. f \in 1..Len(ts) + 1 /\ (f <= Len(ts) => t - ts[f] <= Window)
  BY <1>4
<1>6. \A i \in 1..f - 1 : t - ts[i] > Window
  <2> SUFFICES ASSUME NEW i \in 1..f - 1, ~ (t - ts[i] > Window) PROVE FALSE
    OBVIOUS
  <2>1. i \in 1..Len(ts) + 1 /\ i < f /\ i <= Len(ts)
    BY <1>1, <1>5
  <2>2. t - ts[i] <= Window
    BY <1>1, <2>1, TimeAssumption
  <2>3. i \in live
    BY <2>1, <2>2
  <2> QED BY <1>1, <1>4, <1>5, <2>1, <2>3
<1> DEFINE c == SubSeq(ts, f, Len(ts))
<1>7. c \in Seq(Nat) /\ Len(c) = Len(ts) - (f - 1)
      /\ \A i \in 1..Len(ts) - (f - 1) : c[i] = ts[i + (f - 1)]
  BY <1>1, <1>5
<1>8. cleanup_old_timestamps(ts, t) = c
  BY DEF cleanup_old_timestamps, f
<1> HIDE DEF c, live
<1>9. f - 1 \in 0..Len(ts)
  BY <1>1, <1>5
<1> USE <1>9
<1> WITNESS f - 1 \in 0..Len(ts)
<1> QED BY <1>1, <1>5, <1>6, <1>7, <1>8

-----------------------------------------------------------------------------
(* Pruning at a clock reading t that is not later than u forgets only what *)
(* has left the window by u.                                               *)
LEMMA PruneRecord ==
    ASSUME NEW ts \in Seq(Nat), NEW g \in Seq(Nat), NEW n \in Nat, NEW t \in Nat,
           NEW u \in Nat, n <= u, t <= u, RecordOf(ts, g)
    PROVE  /\ RecordOf(cleanup_old_timestamps(ts, t), g)
           /\ ForgetsOnlyOld(ts, g, n) => ForgetsOnlyOld(cleanup_old_timestamps(ts, t), g, u)
<1> DEFINE c == cleanup_old_timestamps(ts, t)
           k == Len(g) - Len(ts)
<1>1. PICK d \in 0..Len(ts) :
         /\ c \in Seq(Nat)
         /\ Len(c) = Len(ts) - d
         /\ \A i \in 1..Len(ts) - d : c[i] = ts[i + d]
         /\ \A i \in 1..d : t - ts[i] > Window
  BY PruneProperties
<1> HIDE DEF c
<1>2. Len(ts) \in Nat /\ Len(g) \in Nat /\ \A i \in 1..Len(g) : g[i] \in Nat
  OBVIOUS
<1>3. /\ Len(ts) <= NotNegative(MaxRequests) /\ NotNegative(MaxRequests) \in Nat
      /\ k \in Nat /\ Len(g) = k + Len(ts)
      /\ \A i \in 1..Len(ts) : ts[i] = g[k + i]
  BY LimitsAssumption DEF RecordOf, NotNegative
<1>4. Len(c) <= NotNegative(MaxRequests) /\ Len(c) <= Len(g) /\ Len(g) - Len(c) = k + d
  BY <1>1, <1>2, <1>3
<1>5. \A i \in 1..Len(c) : c[i] = g[k + d + i]
  <2> SUFFICES ASSUME NEW i \in 1..Len(c) PROVE c[i] = g[k + d + i]
    OBVIOUS
  <2> HIDE DEF k
  <2>1. i + d \in 1..Len(ts) /\ c[i] = ts[i + d] /\ k + (i + d) = k + d + i
    BY <1>1, <1>2, <1>3
  <2> QED BY <2>1, <1>3
<1>6. RecordOf(c, g)
  BY <1>4, <1>5 DEF RecordOf
<1>7. ASSUME ForgetsOnlyOld(ts, g, n) PROVE ForgetsOnlyOld(c, g, u)
  <2>1. \A i \in 1..k : n - g[i] > Window
    BY <1>7 DEF ForgetsOnlyOld
  <2>2. SUFFICES ASSUME NEW i \in 1..k + d PROVE u - g[i] > Window
    BY <1>4 DEF ForgetsOnlyOld
  <2> HIDE DEF k
  <2>3. i \in 1..Len(g) /\ g[i] \in Nat
    BY <1>1, <1>2, <1>3
  <2>4. CASE i <= k
    BY <2>1, <2>3, <2>4, <1>3, TimeAssumption
  <2>5. CASE i > k
    <3>1. PICK j \in Nat : j = i - k
      BY <1>3, <2>5
    <3>2. j \in 1..d /\ j \in 1..Len(ts) /\ k + j = i
      BY <1>1, <1>2, <1>3, <2>5, <3>1
    <3>3. t - ts[j] > Window /\ ts[j] = g[i]
      BY <3>2, <1>1, <1>3
    <3> QED BY <2>3, <3>3, TimeAssumption
  <2> QED BY <1>3, <2>4, <2>5
<1> QED BY <1>6, <1>7 DEF c

(* What is old stays old.                                                  *)
LEMMA LaterStillOld ==
    ASSUME NEW ts \in Seq(Nat), NEW g \in Seq(Nat), NEW n \in Nat, NEW u \in Nat, n <= u,
           Len(ts) <= Len(g), ForgetsOnlyOld(ts, g, n)
    PROVE  ForgetsOnlyOld(ts, g, u)
<1>1. Len(ts) \in Nat /\ Len(g) \in Nat /\ \A i \in 1..Len(g) : g[i] \in Nat
  OBVIOUS
<1> SUFFICES ASSUME NEW i \in 1..Len(g) - Len(ts) PROVE u - g[i] > Window
  BY DEF ForgetsOnlyOld
<1>2. i \in 1..Len(g) /\ g[i] \in Nat /\ n - g[i] > Window
  BY <1>1 DEF ForgetsOnlyOld
<1> QED BY <1>2, TimeAssumption

(* Recording a granted request keeps record and grants in step.            *)
LEMMA AppendRecord ==
    ASSUME NEW ts \in Seq(Nat), NEW g \in Seq(Nat), NEW n \in Nat, NEW u \in Nat,
           RecordOf(ts, g), Len(ts) < MaxRequests
    PROVE  /\ RecordOf(Append(ts, n), Append(g, n))
           /\ ForgetsOnlyOld(ts, g, u) => ForgetsOnlyOld(Append(ts, n), Append(g, n), u)
<1> DEFINE k == Len(g) - Len(ts)
           tt == Append(ts, n)
           gg == Append(g, n)
<1>1. Len(ts) \in Nat /\ Len(g) \in Nat
  OBVIOUS
<1>2. /\ k \in Nat /\ Len(g) = k + Len(ts)
      /\ \A i \in 1..Len(ts) : ts[i] = g[k + i]
  BY DEF RecordOf
<1>3. /\ Len(tt) = Len(ts) + 1 /\ Len(gg) = Len(g) + 1
      /\ tt[Len(ts) + 1] = n /\ gg[Len(g) + 1] = n
      /\ \A i \in 1..Len(ts) : tt[i] = ts[i]
      /\ \A i \in 1..Len(g) : gg[i] = g[i]
  OBVIOUS
<1> HIDE DEF tt, gg
<1>4. Len(tt) <= NotNegative(MaxRequests) /\ Len(tt) <= Len(gg) /\ Len(gg) - Len(tt) = k
  BY <1>1, <1>2, <1>3, LimitsAssumption DEF NotNegative
<1> HIDE DEF k
<1>5. \A i \in 1..Len(tt) : tt[i] = gg[k + i]
  <2> SUFFICES ASSUME NEW i \in 1..Len(tt) PROVE tt[i] = gg[k + i]
    OBVIOUS
  <2>1. CASE i = Len(ts) + 1
    BY <2>1, <1>1, <1>2, <1>3
  <2>2. CASE i \in 1..Len(ts)
    <3>1. k + i \in 1..Len(g)
      BY <2>2, <1>1, <1>2
    <3> QED BY <2>2, <3>1, <1>2, <1>3
  <2> QED BY <2>1, <2>2, <1>1, <1>3
<1>6. RecordOf(tt, gg)
  BY <1>4, <1>5 DEF RecordOf
<1>7. ASSUME ForgetsOnlyOld(ts, g, u) PROVE ForgetsOnlyOld(tt, gg, u)
  <2> SUFFICES ASSUME NEW i \in 1..k PROVE u - gg[i] > Window
    BY <1>4 DEF ForgetsOnlyOld
  <2>1. i \in 1..Len(g) /\ gg[i] = g[i]
    BY <1>1, <1>2, <1>3
  <2>2. u - g[i] > Window
    BY <1>7 DEF ForgetsOnlyOld, k
  <2> QED BY <2>1, <2>2
<1> QED BY <1>6, <1>7 DEF tt, gg

(* A request granted at n while fewer than max_requests_ were live at a    *)
(* later reading u keeps the grants spread out.                            *)
LEMMA AppendSpread ==
    ASSUME NEW ts \in Seq(Nat), NEW g \in Seq(Nat), NEW n \in Nat, NEW u \in Nat,
           u <= n + Delay, Len(ts) <= Len(g), ForgetsOnlyOld(ts, g, u),
           Len(ts) < MaxRequests, Spread(g)
    PROVE  Spread(Append(g, n))
<1> USE TimeAssumption, LimitsAssumption
<1> DEFINE gg == Append(g, n)
<1>1. Len(ts) \in Nat /\ Len(g) \in Nat /\ \A i \in 1..Len(g) : g[i] \in Nat
  OBVIOUS
<1>2. Len(gg) = Len(g) + 1 /\ gg[Len(g) + 1] = n /\ \A i \in 1..Len(g) : gg[i] = g[i]
  OBVIOUS
<1>3. MaxRequests \in Nat /\ MaxRequests > 0
  BY <1>1
<1> HIDE DEF gg
<1>4. ASSUME NEW i \in 1..Len(gg), i + MaxRequests <= Len(gg)
      PROVE  gg[i + MaxRequests] - gg[i] > Window - Delay
  <2>1. i \in 1..Len(g)
    BY <1>1, <1>2, <1>3, <1>4
  <2>2. CASE i + MaxRequests <= Len(g)
    BY <1>1, <1>2, <1>3, <2>1, <2>2 DEF Spread
  <2>3. CASE ~ (i + MaxRequests <= Len(g))
    <3>1. i + MaxRequests = Len(g) + 1
      <4>1. i \in Nat /\ Len(g) \in Nat /\ i + MaxRequests <= Len(g) + 1
        BY <1>1, <1>2, <1>4, <2>1
      <4>2. \A a, b, c \in Nat : a + b <= c + 1 /\ ~ (a + b <= c) => a + b = c + 1
        OBVIOUS
      <4> QED BY <1>3, <2>3, <4>1, <4>2
    <3>2. i \in 1..Len(g) - Len(ts)
      BY <1>1, <1>3, <2>1, <3>1
    <3>3. u - g[i] > Window
      BY <3>2 DEF ForgetsOnlyOld
    <3>4. gg[i + MaxRequests] = n /\ gg[i] = g[i] /\ g[i] \in Nat
      BY <1>1, <1>2, <2>1, <3>1
    <3> QED BY <3>3, <3>4
  <2> QED BY <2>2, <2>3
<1> QED BY <1>4 DEF Spread, gg

(* A record pruned at u holds exactly the grants still in the window.      *)
LEMMA LiveCount ==
    ASSUME NEW ts \in Seq(Nat), NEW g \in Seq(Nat), NEW u \in Nat, RecordOf(ts, g),
           ForgetsOnlyOld(ts, g, u), InOrder(g, u), ts # <<>> => u - ts[1] <= Window
    PROVE  Cardinality({i \in 1..Len(g) : u - g[i] <= Window}) = Len(ts)
<1> DEFINE k == Len(g) - Len(ts)
<1>1. Len(ts) \in Nat /\ Len(g) \in Nat /\ \A i \in 1..Len(g) : g[i] \in Nat
  OBVIOUS
<1>2. /\ k \in Nat /\ Len(g) = k + Len(ts)
      /\ \A i \in 1..Len(ts) : ts[i] = g[k + i]
      /\ \A i \in 1..k : u - g[i] > Window
  BY DEF RecordOf, ForgetsOnlyOld
<1> HIDE DEF k
<1>3. ASSUME NEW i \in k + 1..Len(g) PROVE u - g[i] <= Window
  <2>1. ts # <<>> /\ 1 \in 1..Len(ts) /\ i \in 1..Len(g) /\ k + 1 \in 1..i
    BY <1>1, <1>2, <1>3
  <2>2. u - g[k + 1] <= Window
    BY <1>2, <2>1
  <2>3. g[k + 1] <= g[i]
    BY <2>1 DEF InOrder
  <2>4. g[k + 1] \in Nat /\ g[i] \in Nat
    BY <1>1, <1>2, <2>1
  <2> QED BY <2>2, <2>3, <2>4, TimeAssumption
<1>4. {i \in 1..Len(g) : u - g[i] <= Window} = k + 1..Len(g)
  <2>1. ASSUME NEW i \in 1..Len(g), u - g[i] <= Window PROVE i \in k + 1..Len(g)
    <3>1. ~ (i \in 1..k)
      BY <1>1, <1>2, <2>1, TimeAssumption
    <3> QED BY <1>1, <1>2, <3>1
  <2>2. \A i \in k + 1..Len(g) : i \in 1..Len(g)
    BY <1>1, <1>2
  <2> QED BY <1>3, <2>1, <2>2
<1>5. Cardinality(k + 1..Len(g)) = Len(ts)
  <2>1. k + 1 \in Int /\ Len(g) \in Int
    BY <1>1, <1>2
  <2>2. Cardinality(k + 1..Len(g)) = IF k + 1 > Len(g) THEN 0 ELSE Len(g) - (k + 1) + 1
    BY <2>1, FS_Interval
  <2> QED BY <1>1, <1>2, <2>2
<1> QED BY <1>4, <1>5

-----------------------------------------------------------------------------
(* A fresh limiter satisfies the invariant.                                *)
LEMMA InitInv == Init => IInv
<1> SUFFICES ASSUME Init PROVE IInv
  OBVIOUS
<1> USE DEF Init
<1>1. DOMAIN ip_records = {} /\ Cardinality(DOMAIN ip_records) = 0
  BY FS_EmptySet
<1>2. TypeOK
  BY <1>1, TimeAssumption DEF TypeOK, NoAnswer
<1>3. ListMatchesRecords /\ ListInOrderOfUse
  BY <1>1 DEF ListMatchesRecords, ListInOrderOfUse, IsListOf, InOrderOfUse
<1>4. RecordsBounded
  BY <1>1, LimitsAssumption DEF RecordsBounded
<1>5. SweptAreEmpty /\ HistoryInOrder
  BY DEF SweptAreEmpty, HistoryInOrder, InOrder
<1>6. RecordsMatchGrants
  BY <1>1, LimitsAssumption
  DEF RecordsMatchGrants, Recorded, RecordOf, ForgetsOnlyOld, NotNegative
<1>7. WindowQuota
  BY DEF WindowQuota, Spread
<1>8. RefusalJustified /\ RemainingExact
  BY DEF RefusalJustified, RemainingExact, NoAnswer
<1> QED BY <1>2, <1>3, <1>4, <1>5, <1>6, <1>7, <1>8 DEF IInv

(* The passage of time makes more grants old and changes nothing else.     *)
LEMMA TickInv == IInv /\ (Tick \/ UNCHANGED vars) => IInv'
<1> SUFFICES ASSUME IInv, Tick \/ UNCHANGED vars PROVE IInv'
  OBVIOUS
<1>1. /\ UNCHANGED <<ip_records, lru_list, sweep, granted, seen, evicted, answer>>
      /\ now \in Nat /\ now' \in Nat /\ now <= now' /\ now' <= MaxTime
  BY TimeAssumption DEF Tick, vars, IInv, TypeOK
<1>2. TypeOK'
  BY <1>1, TimeAssumption DEF IInv, TypeOK
<1>3. (ListMatchesRecords /\ ListInOrderOfUse /\ RecordsBounded /\ SweptAreEmpty)'
  BY <1>1 DEF IInv, ListMatchesRecords, ListInOrderOfUse, RecordsBounded, SweptAreEmpty
<1>4. (WindowQuota /\ RefusalJustified /\ RemainingExact)'
  BY <1>1 DEF IInv, WindowQuota, RefusalJustified, RemainingExact
<1>5. HistoryInOrder'
  <2> SUFFICES ASSUME NEW x \in IPs
               PROVE  seen[x] <= now' /\ InOrder(granted[x], now')
    BY <1>1 DEF IInv, HistoryInOrder
  <2>1. seen[x] \in Nat /\ granted[x] \in Seq(Nat)
    BY DEF IInv, TypeOK
  <2>2. seen[x] <= now /\ InOrder(granted[x], now)
    BY DEF IInv, HistoryInOrder
  <2> QED BY <1>1, <2>1, <2>2 DEF InOrder
<1>6. RecordsMatchGrants'
  <2> SUFFICES ASSUME NEW x \in IPs
               PROVE  /\ RecordOf(Recorded(x), granted[x])
                      /\ x \notin evicted => ForgetsOnlyOld(Recorded(x), granted[x], now')
    BY <1>1 DEF RecordsMatchGrants, Recorded
  <2>1. Recorded(x) \in Seq(Nat) /\ granted[x] \in Seq(Nat)
    BY DEF IInv, TypeOK, Recorded
  <2>2. RecordOf(Recorded(x), granted[x])
        /\ (x \notin evicted => ForgetsOnlyOld(Recorded(x), granted[x], now))
    BY DEF IInv, RecordsMatchGrants
  <2>3. Len(Recorded(x)) <= Len(granted[x])
    BY <2>2 DEF RecordOf
  <2> QED BY <1>1, <2>1, <2>2, <2>3, LaterStillOld
<1> QED BY <1>2, <1>3, <1>4, <1>5, <1>6 DEF IInv

(* A limiter that allows nothing answers and changes nothing.              *)
LEMMA RefuseAllInv == ASSUME IInv, NEW ip \in IPs, MaxRequests <= 0, RefuseAll(ip) PROVE IInv'
<1> USE DEF RefuseAll
<1>1. MaxRequests <= 0 /\ ~ (MaxRequests > 0)
  BY LimitsAssumption
<1>2. TypeOK'
  BY TimeAssumption DEF IInv, TypeOK
<1>3. (ListMatchesRecords /\ ListInOrderOfUse /\ RecordsBounded /\ SweptAreEmpty)'
  BY DEF IInv, ListMatchesRecords, ListInOrderOfUse, RecordsBounded, SweptAreEmpty
<1>4. (HistoryInOrder /\ RecordsMatchGrants /\ WindowQuota)'
  BY DEF IInv, HistoryInOrder, RecordsMatchGrants, Recorded, WindowQuota
<1>5. (RefusalJustified /\ RemainingExact)'
  BY <1>1 DEF RefusalJustified, RemainingExact
<1> QED BY <1>2, <1>3, <1>4, <1>5 DEF IInv

(* Unlinking an empty record forgets no grant that still counts.           *)
LEMMA CleanupEraseInv == ASSUME IInv, NEW ip \in IPs, CleanupErase(ip) PROVE IInv'
<1> DEFINE D == DOMAIN ip_records
<1>1. /\ ip \in D /\ ip_records[ip] = <<>>
      /\ lru_list \in Seq(IPs) /\ IsListOf(lru_list, D) /\ IsFiniteSet(D)
  BY IPsFinite, FS_Subset DEF IInv, TypeOK, SweptAreEmpty, ListMatchesRecords, CleanupErase
<1>2. /\ DOMAIN ip_records' = D \ {ip}
      /\ \A x \in D \ {ip} : ip_records'[x] = ip_records[x]
      /\ lru_list' = Erase(lru_list, ip)
      /\ sweep' = sweep \ {ip}
      /\ UNCHANGED <<now, granted, seen, evicted, answer>>
  BY DEF CleanupErase, SweepAfter
<1>3. lru_list' \in Seq(IPs) /\ IsListOf(lru_list', D \ {ip})
  BY <1>1, <1>2, EraseLists
<1>4. TypeOK'
  <2>1. ip_records' \in [D \ {ip} -> Seq(Nat)]
    BY DEF CleanupErase, IInv, TypeOK
  <2> QED BY <1>2, <1>3, <2>1 DEF IInv, TypeOK
<1>5. ListMatchesRecords' /\ ListInOrderOfUse'
  BY <1>1, <1>2, <1>3, EraseInOrder DEF ListMatchesRecords, ListInOrderOfUse, IInv
<1>6. RecordsBounded'
  <2>1. Cardinality(D \ {ip}) = Cardinality(D) - 1 /\ Cardinality(D) \in Nat
    BY <1>1, FS_RemoveElement, FS_CardinalityType
  <2> QED BY <1>2, <2>1, LimitsAssumption DEF RecordsBounded, IInv
<1>7. (SweptAreEmpty /\ HistoryInOrder)'
  BY <1>2 DEF IInv, SweptAreEmpty, HistoryInOrder, TypeOK
<1>8. RecordsMatchGrants'
  <2>1. \A x \in IPs : Recorded(x)' = Recorded(x)
    BY <1>1, <1>2 DEF Recorded
  <2> QED BY <1>2, <2>1 DEF IInv, RecordsMatchGrants
<1>9. (WindowQuota /\ RefusalJustified /\ RemainingExact)'
  BY <1>2 DEF IInv, WindowQuota, RefusalJustified, RemainingExact
<1> QED BY <1>4, <1>5, <1>6, <1>7, <1>8, <1>9 DEF IInv

(* A history in order stays so as time passes.                             *)
LEMMA LaterInOrder ==
    ASSUME NEW g \in Seq(Nat), NEW t \in Nat, NEW u \in Nat, t <= u, InOrder(g, t)
    PROVE  InOrder(g, u)
<1>1. Len(g) \in Nat /\ \A i \in 1..Len(g) : g[i] \in Nat
  OBVIOUS
<1> QED BY <1>1 DEF InOrder

(* The facts about one IP that the steps below use.                        *)
LEMMA RecordFacts ==
    ASSUME IInv, NEW x \in IPs
    PROVE  /\ Recorded(x) \in Seq(Nat) /\ granted[x] \in Seq(Nat)
           /\ RecordOf(Recorded(x), granted[x])
           /\ x \notin evicted => ForgetsOnlyOld(Recorded(x), granted[x], now)
           /\ InOrder(granted[x], now) /\ seen[x] \in Nat /\ seen[x] <= now
           /\ now \in Nat /\ now <= MaxTime
  BY TimeAssumption DEF IInv, TypeOK, Recorded, RecordsMatchGrants, HistoryInOrder

(* A record pruned at the present instant holds the live grants.           *)
LEMMA PrunedCount ==
    ASSUME NEW ts \in Seq(Nat), NEW g \in Seq(Nat), NEW t \in Nat, RecordOf(ts, g),
           ForgetsOnlyOld(ts, g, t), InOrder(g, t)
    PROVE  Len(cleanup_old_timestamps(ts, t)) =
              Cardinality({i \in 1..Len(g) : t - g[i] <= Window})
<1> DEFINE c == cleanup_old_timestamps(ts, t)
<1>1. PICK k \in 0..Len(ts) :
         /\ c \in Seq(Nat)
         /\ Len(c) = Len(ts) - k
         /\ \A i \in 1..Len(ts) - k : c[i] = ts[i + k]
         /\ k < Len(ts) => t - ts[k + 1] <= Window
  BY PruneProperties
<1>2. RecordOf(c, g) /\ ForgetsOnlyOld(c, g, t)
  BY PruneRecord
<1> HIDE DEF c
<1>3. ASSUME c # <<>> PROVE t - c[1] <= Window
  <2>1. Len(c) \in Nat /\ Len(c) > 0 /\ Len(ts) \in Nat
    BY <1>1, <1>3
  <2>2. k < Len(ts) /\ 1 \in 1..Len(ts) - k /\ c[1] = ts[1 + k] /\ 1 + k = k + 1
    BY <1>1, <2>1
  <2> QED BY <1>1, <2>2
<1> QED BY <1>1, <1>2, <1>3, LiveCount DEF c

(* get_remaining prunes one record and counts it.                          *)
LEMMA GetRemainingInv == ASSUME IInv, NEW ip \in IPs, get_remaining(ip) PROVE IInv'
<1> DEFINE D == DOMAIN ip_records
           g == granted[ip]
           spent == Cardinality({i \in 1..Len(g) : now - g[i] <= Window})
<1>1. UNCHANGED <<lru_list, sweep, now, granted, seen, evicted>> /\ sweep = {}
  BY DEF get_remaining, MutexFree
<1>2. DOMAIN ip_records' = D /\ ip_records' \in [D -> Seq(Nat)]
  <2>1. ip \in D => cleanup_old_timestamps(ip_records[ip], now) \in Seq(Nat)
    BY TimeAssumption, PruneProperties DEF IInv, TypeOK
  <2> QED BY <2>1 DEF get_remaining, IInv, TypeOK
<1>3. TypeOK'
  <2>1. answer'.ip \in IPs /\ answer'.at = now
    BY DEF get_remaining
  <2> QED BY <1>1, <1>2, <2>1 DEF IInv, TypeOK
<1>4. (ListMatchesRecords /\ ListInOrderOfUse /\ RecordsBounded /\ SweptAreEmpty)'
  BY <1>1, <1>2
  DEF IInv, ListMatchesRecords, ListInOrderOfUse, RecordsBounded, SweptAreEmpty
<1>5. (HistoryInOrder /\ WindowQuota)'
  BY <1>1 DEF IInv, HistoryInOrder, WindowQuota
<1>6. RecordsMatchGrants'
  <2> SUFFICES ASSUME NEW x \in IPs
               PROVE  /\ RecordOf(Recorded(x)', granted[x])
                      /\ x \notin evicted => ForgetsOnlyOld(Recorded(x)', granted[x], now)
    BY <1>1 DEF RecordsMatchGrants
  <2>1. CASE x # ip \/ x \notin D
    <3>1. Recorded(x)' = Recorded(x)
      BY <1>2, <2>1 DEF Recorded, get_remaining, IInv, TypeOK
    <3> QED BY <3>1, RecordFacts
  <2>2. CASE x = ip /\ x \in D
    <3>1. Recorded(x)' = cleanup_old_timestamps(Recorded(x), now)
      BY <1>2, <2>2 DEF Recorded, get_remaining, IInv, TypeOK
    <3>2. now \in Nat /\ now <= now
      BY RecordFacts
    <3> QED BY <3>1, <3>2, RecordFacts, PruneRecord
  <2> QED BY <2>1, <2>2
<1>7. RefusalJustified'
  BY DEF get_remaining, RefusalJustified
<1>8. RemainingExact'
  <2>0. answer'.ip = ip /\ answer'.at = now
    BY DEF get_remaining
  <2> SUFFICES ASSUME MaxRequests > 0, ip \notin evicted
               PROVE  answer'.left = MaxRequests - spent
    BY <1>1, <2>0, Zenon DEF RemainingExact
  <2>1. /\ Recorded(ip) \in Seq(Nat) /\ g \in Seq(Nat) /\ now \in Nat
        /\ RecordOf(Recorded(ip), g) /\ ForgetsOnlyOld(Recorded(ip), g, now) /\ InOrder(g, now)
    BY RecordFacts
  <2> HIDE DEF g
  <2>2. CASE ip \notin D
    <3>1. Recorded(ip) = <<>> /\ answer'.left = MaxRequests
      BY <2>2 DEF Recorded, get_remaining
    <3>2. spent = Len(Recorded(ip))
      BY <2>1, <3>1, LiveCount
    <3>3. Len(Recorded(ip)) = 0
      BY <3>1
    <3> QED BY <3>1, <3>2, <3>3, LimitsAssumption
  <2>3. CASE ip \in D
    <3> DEFINE c == cleanup_old_timestamps(Recorded(ip), now)
    <3>1. answer'.left = NotNegative(MaxRequests - Len(c))
      BY <2>3 DEF Recorded, get_remaining
    <3>2. Len(c) = spent
      BY <2>1, PrunedCount
    <3>3. RecordOf(c, g) /\ c \in Seq(Nat)
      <4>1. c \in Seq(Nat)
        BY <2>1, PruneProperties
      <4>2. now <= now
        BY <2>1
      <4> QED BY <2>1, <4>1, <4>2, PruneRecord
    <3> HIDE DEF c, spent
    <3>4. Len(c) \in Nat /\ Len(c) <= NotNegative(MaxRequests)
      BY <3>3 DEF RecordOf
    <3> QED BY <3>1, <3>2, <3>4, LimitsAssumption DEF NotNegative
  <2> QED BY <2>2, <2>3
<1> QED BY <1>3, <1>4, <1>5, <1>6, <1>7, <1>8 DEF IInv

(* The first loop of cleanup prunes every record, each at its own reading  *)
(* of the clock.                                                           *)
LEMMA CleanupPruneInv == IInv /\ CleanupPrune => IInv'
<1> SUFFICES ASSUME IInv, CleanupPrune PROVE IInv'
  OBVIOUS
<1> DEFINE D == DOMAIN ip_records
<1>1. /\ UNCHANGED <<lru_list, granted, seen, evicted, answer>>
      /\ now \in Nat /\ now' \in Nat /\ now <= now' /\ now' <= MaxTime
      /\ sweep' = {x \in D : ip_records'[x] = <<>>}
  BY TimeAssumption DEF CleanupPrune, Emptied, IInv, TypeOK
<1>2. PICK at \in [D -> now .. now'] :
         ip_records' = [x \in D |-> cleanup_old_timestamps(ip_records[x], at[x])]
  BY DEF CleanupPrune
<1>3. \A x \in D : at[x] \in Nat /\ at[x] <= now' /\ ip_records[x] \in Seq(Nat)
  BY <1>1 DEF IInv, TypeOK
<1>4. \A x \in D : cleanup_old_timestamps(ip_records[x], at[x]) \in Seq(Nat)
  BY <1>3, PruneProperties
<1>5. DOMAIN ip_records' = D /\ ip_records' \in [D -> Seq(Nat)]
  BY <1>2, <1>4
<1>6. TypeOK'
  BY <1>1, <1>5, TimeAssumption DEF IInv, TypeOK
<1>7. (ListMatchesRecords /\ ListInOrderOfUse /\ RecordsBounded /\ SweptAreEmpty)'
  BY <1>1, <1>5
  DEF IInv, ListMatchesRecords, ListInOrderOfUse, RecordsBounded, SweptAreEmpty
<1>8. HistoryInOrder'
  <2> SUFFICES ASSUME NEW x \in IPs
               PROVE  seen[x] <= now' /\ InOrder(granted[x], now')
    BY <1>1 DEF IInv, HistoryInOrder
  <2>1. seen[x] \in Nat /\ seen[x] <= now /\ granted[x] \in Seq(Nat) /\ InOrder(granted[x], now)
    BY RecordFacts
  <2> QED BY <1>1, <2>1, LaterInOrder
<1>9. RecordsMatchGrants'
  <2> SUFFICES ASSUME NEW x \in IPs
               PROVE  /\ RecordOf(Recorded(x)', granted[x])
                      /\ x \notin evicted => ForgetsOnlyOld(Recorded(x)', granted[x], now')
    BY <1>1 DEF RecordsMatchGrants
  <2>1. CASE x \notin D
    <3>1. Recorded(x)' = Recorded(x)
      BY <1>5, <2>1 DEF Recorded
    <3>2. Len(Recorded(x)) <= Len(granted[x])
      BY RecordFacts DEF RecordOf
    <3> QED BY <1>1, <3>1, <3>2, RecordFacts, LaterStillOld
  <2>2. CASE x \in D
    <3>1. Recorded(x)' = cleanup_old_timestamps(Recorded(x), at[x])
      BY <1>2, <2>2 DEF Recorded
    <3> QED BY <1>1, <1>3, <2>2, <3>1, RecordFacts, PruneRecord
  <2> QED BY <2>1, <2>2
<1>10. (WindowQuota /\ RefusalJustified /\ RemainingExact)'
  BY <1>1 DEF IInv, WindowQuota, RefusalJustified, RemainingExact
<1> QED BY <1>6, <1>7, <1>8, <1>9, <1>10 DEF IInv

-----------------------------------------------------------------------------
(* A new grant is the latest.                                              *)
LEMMA AppendInOrder ==
    ASSUME NEW g \in Seq(Nat), NEW n \in Nat, NEW u \in Nat, n <= u, InOrder(g, n)
    PROVE  InOrder(Append(g, n), u)
<1> DEFINE gg == Append(g, n)
<1>1. Len(g) \in Nat /\ \A i \in 1..Len(g) : g[i] \in Nat
  OBVIOUS
<1>2. Len(gg) = Len(g) + 1 /\ gg[Len(g) + 1] = n /\ \A i \in 1..Len(g) : gg[i] = g[i]
  OBVIOUS
<1>3. \A i \in 1..Len(g) : g[i] <= n /\ \A j \in 1..i : g[j] <= g[i]
  BY DEF InOrder
<1> HIDE DEF gg
<1>4. ASSUME NEW i \in 1..Len(gg) PROVE gg[i] <= u /\ \A j \in 1..i : gg[j] <= gg[i]
  <2>1. \A j \in 1..i : j \in 1..Len(g) + 1
    BY <1>1, <1>2
  <2>2. CASE i = Len(g) + 1
    BY <1>1, <1>2, <1>3, <2>1, <2>2
  <2>3. CASE i \in 1..Len(g)
    <3>1. \A j \in 1..i : j \in 1..Len(g) /\ gg[j] = g[j]
      BY <1>1, <1>2, <2>3
    <3>2. gg[i] = g[i] /\ g[i] \in Nat /\ g[i] <= n
      BY <1>1, <1>2, <1>3, <2>3
    <3> QED BY <1>3, <2>3, <3>1, <3>2
  <2> QED BY <1>1, <1>2, <2>2, <2>3
<1> QED BY <1>4 DEF InOrder, gg

(* What a grant does to the history of an IP and of the others.            *)
LEMMA GrantHistory ==
    ASSUME IInv, NEW ip \in IPs, Grant(ip, now), MaxRequests > 0,
           now' \in Nat, now <= now', now' <= MaxTime
    PROVE  /\ granted' \in [IPs -> Seq(Nat)] /\ seen' \in [IPs -> Nat]
           /\ granted'[ip] = Append(granted[ip], now)
           /\ \A x \in IPs : x # ip => granted'[x] = granted[x]
           /\ seen' = [seen EXCEPT ![ip] = now]
           /\ answer'.ip \in IPs /\ answer'.at \in 0..MaxTime
           /\ HistoryInOrder' /\ RefusalJustified' /\ RemainingExact'
<1>1. now \in Nat /\ now <= MaxTime
  BY RecordFacts
<1>2. /\ granted' \in [IPs -> Seq(Nat)] /\ seen' \in [IPs -> Nat]
      /\ granted'[ip] = Append(granted[ip], now)
      /\ \A x \in IPs : x # ip => granted'[x] = granted[x]
      /\ seen' = [seen EXCEPT ![ip] = now]
  BY <1>1 DEF Grant, IInv, TypeOK
<1>3. answer'.op = "allowed" /\ answer'.ip = ip /\ answer'.at = now
  BY DEF Grant
<1>4. RefusalJustified' /\ RemainingExact'
  BY <1>3 DEF RefusalJustified, RemainingExact
<1>5. HistoryInOrder'
  <2> SUFFICES ASSUME NEW x \in IPs
               PROVE  seen'[x] <= now' /\ InOrder(granted'[x], now')
    BY LimitsAssumption DEF HistoryInOrder
  <2>1. CASE x = ip
    <3>1. seen'[x] = now
      BY <2>1 DEF Grant, IInv, TypeOK
    <3>2. granted[ip] \in Seq(Nat) /\ InOrder(granted[ip], now)
      BY RecordFacts
    <3>3. InOrder(Append(granted[ip], now), now')
      BY <1>1, <3>2, AppendInOrder
    <3> QED BY <1>1, <1>2, <2>1, <3>1, <3>3, TimeAssumption
  <2>2. CASE x # ip
    <3>1. seen'[x] = seen[x] /\ granted'[x] = granted[x]
      BY <1>2, <2>2 DEF Grant, IInv, TypeOK
    <3>2. seen[x] \in Nat /\ seen[x] <= now /\ granted[x] \in Seq(Nat) /\ InOrder(granted[x], now)
      BY RecordFacts
    <3>3. InOrder(granted[x], now')
      BY <1>1, <3>2, LaterInOrder
    <3> QED BY <1>1, <3>1, <3>2, <3>3
  <2> QED BY <2>1, <2>2
<1> QED BY <1>1, <1>2, <1>3, <1>4, <1>5, TimeAssumption

(* Making room leaves a list and a set of IPs that agree, with space for   *)
(* one more, and gives up at most the IP that was silent longest.          *)
LEMMA RoomFacts ==
    ASSUME IInv
    PROVE  /\ RoomForOne.list \in Seq(IPs)
           /\ RoomForOne.ips \subseteq DOMAIN ip_records
           /\ RoomForOne.gone = DOMAIN ip_records \ RoomForOne.ips
           /\ IsListOf(RoomForOne.list, RoomForOne.ips)
           /\ InOrderOfUse(RoomForOne.list, seen)
           /\ IsFiniteSet(RoomForOne.ips)
           /\ Cardinality(RoomForOne.ips) + 1 <= IF MaxIPRecords = 0 THEN 1 ELSE MaxIPRecords
<1> DEFINE D == DOMAIN ip_records
           b == Back(lru_list)
<1>1. lru_list \in Seq(IPs) /\ IsListOf(lru_list, D) /\ InOrderOfUse(lru_list, seen)
  BY DEF IInv, TypeOK, ListMatchesRecords, ListInOrderOfUse
<1>2. IsFiniteSet(D) /\ Cardinality(D) \in Nat
  BY IPsFinite, FS_Subset, FS_CardinalityType DEF IInv, TypeOK
<1>3. Cardinality(D) <= IF MaxIPRecords = 0 THEN 1 ELSE MaxIPRecords
  BY DEF IInv, RecordsBounded
<1>4. CASE ~ (Cardinality(D) >= MaxIPRecords)
  <2>1. RoomForOne.list = lru_list /\ RoomForOne.ips = D /\ RoomForOne.gone = {}
    BY <1>4 DEF RoomForOne, KeepAll
  <2> QED BY <1>1, <1>2, <1>4, <2>1, LimitsAssumption
<1>5. CASE Cardinality(D) >= MaxIPRecords /\ lru_list = <<>>
  <2>1. RoomForOne.list = lru_list /\ RoomForOne.ips = D /\ RoomForOne.gone = {}
    BY <1>5 DEF RoomForOne, evict_lru, KeepAll
  <2>2. D = {}
    BY <1>1, <1>5 DEF IsListOf
  <2>3. Cardinality(D) = 0
    BY <2>2, FS_EmptySet
  <2> QED BY <1>1, <1>2, <2>1, <2>3, LimitsAssumption
<1>6. CASE Cardinality(D) >= MaxIPRecords /\ lru_list # <<>>
  <2>1. RoomForOne.list = PopBack(lru_list) /\ RoomForOne.ips = D \ {b} /\ RoomForOne.gone = {b}
    BY <1>6 DEF RoomForOne, evict_lru
  <2>2. b \in D /\ PopBack(lru_list) \in Seq(IPs) /\ IsListOf(PopBack(lru_list), D \ {b})
    BY <1>1, <1>6, PopBackLists
  <2>3. InOrderOfUse(PopBack(lru_list), seen)
    BY <1>1, <1>6, PopBackInOrder
  <2>4. IsFiniteSet(D \ {b}) /\ Cardinality(D \ {b}) = Cardinality(D) - 1
    BY <1>2, <2>2, FS_RemoveElement
  <2>5. Cardinality(D \ {b}) + 1 <= IF MaxIPRecords = 0 THEN 1 ELSE MaxIPRecords
    BY <1>2, <1>3, <2>4, LimitsAssumption
  <2> HIDE DEF b
  <2> QED BY <2>1, <2>2, <2>3, <2>4, <2>5
<1> QED BY <1>4, <1>5, <1>6

(* is_allowed of an IP without a record.                                   *)
LEMMA AdmitNewInv == ASSUME IInv, NEW ip \in IPs, MaxRequests > 0, AdmitNew(ip) PROVE IInv'
<1> DEFINE D == DOMAIN ip_records
           room == RoomForOne
<1>1. /\ sweep = {} /\ sweep' = {} /\ now' = now /\ MaxRequests > 0 /\ ip \notin D
      /\ lru_list' = PushFront(room.list, ip)
      /\ ip_records' = [x \in room.ips \cup {ip} |-> IF x = ip THEN <<now>> ELSE ip_records[x]]
      /\ evicted' = evicted \cup room.gone
      /\ Grant(ip, now)
  BY DEF AdmitNew, MutexFree
<1>2. /\ room.list \in Seq(IPs) /\ room.ips \subseteq D /\ room.gone = D \ room.ips
      /\ IsListOf(room.list, room.ips) /\ InOrderOfUse(room.list, seen)
      /\ IsFiniteSet(room.ips)
      /\ Cardinality(room.ips) + 1 <= IF MaxIPRecords = 0 THEN 1 ELSE MaxIPRecords
  BY RoomFacts
<1> HIDE DEF room
<1>3. now \in Nat /\ now <= MaxTime /\ now' \in Nat /\ now <= now' /\ now' <= MaxTime
  BY <1>1, RecordFacts, TimeAssumption
<1>4. /\ granted' \in [IPs -> Seq(Nat)] /\ seen' \in [IPs -> Nat]
      /\ granted'[ip] = Append(granted[ip], now)
      /\ \A x \in IPs : x # ip => granted'[x] = granted[x]
      /\ seen' = [seen EXCEPT ![ip] = now]
      /\ answer'.ip \in IPs /\ answer'.at \in 0..MaxTime
      /\ HistoryInOrder' /\ RefusalJustified' /\ RemainingExact'
  BY <1>1, <1>3, GrantHistory
<1>5. /\ DOMAIN ip_records' = room.ips \cup {ip}
      /\ ip_records'[ip] = <<now>>
      /\ \A x \in room.ips : ip_records'[x] = ip_records[x]
  BY <1>1, <1>2
<1>6. D \subseteq IPs /\ evicted \subseteq IPs /\ \A x \in D : ip_records[x] \in Seq(Nat)
  BY DEF IInv, TypeOK
<1>7. lru_list' \in Seq(IPs) /\ IsListOf(lru_list', room.ips \cup {ip})
  BY <1>1, <1>2, PushFrontLists
<1>8. TypeOK'
  <2>1. <<now>> \in Seq(Nat)
    BY <1>3
  <2>2. ip_records' \in [room.ips \cup {ip} -> Seq(Nat)]
    BY <1>1, <1>2, <1>6, <2>1
  <2> QED BY <1>1, <1>2, <1>3, <1>4, <1>5, <1>6, <1>7, <2>2 DEF TypeOK
<1>9. ListMatchesRecords'
  BY <1>5, <1>7 DEF ListMatchesRecords
<1>10. ListInOrderOfUse'
  <2>1. seen \in [IPs -> Nat] /\ \A x \in IPs : seen[x] <= now
    BY RecordFacts DEF IInv, TypeOK
  <2>2. InOrderOfUse(PushFront(room.list, ip), [seen EXCEPT ![ip] = now])
    BY <1>1, <1>2, <1>3, <2>1, PushFrontInOrder
  <2> QED BY <1>1, <1>4, <2>2 DEF ListInOrderOfUse
<1>11. RecordsBounded'
  <2>1. Cardinality(room.ips \cup {ip}) = Cardinality(room.ips) + 1
    BY <1>1, <1>2, FS_AddElement
  <2> QED BY <1>2, <1>5, <2>1 DEF RecordsBounded
<1>12. SweptAreEmpty'
  BY <1>1 DEF SweptAreEmpty
<1>13. /\ RecordOf(Recorded(ip)', granted'[ip])
       /\ ip \notin evicted => /\ ForgetsOnlyOld(Recorded(ip)', granted'[ip], now')
                               /\ Spread(granted'[ip])
  <2> DEFINE e == Recorded(ip)
  <2>1. e \in Seq(Nat) /\ Len(e) = 0 /\ Recorded(ip)' = Append(e, now)
    <3>1. e = <<>> /\ Recorded(ip)' = <<now>>
      BY <1>1, <1>5 DEF Recorded
    <3> HIDE DEF e
    <3>2. Append(<<>>, now) = <<now>>
      OBVIOUS
    <3>3. e \in Seq(Nat) /\ Len(e) = 0
      BY <3>1
    <3> QED BY <3>1, <3>2, <3>3, Zenon
  <2>2. /\ granted[ip] \in Seq(Nat) /\ RecordOf(e, granted[ip]) /\ Len(e) <= Len(granted[ip])
        /\ ip \notin evicted => ForgetsOnlyOld(e, granted[ip], now)
    BY RecordFacts DEF RecordOf
  <2> HIDE DEF e
  <2>3. Len(e) < MaxRequests
    BY <1>1, <2>1
  <2>4. /\ RecordOf(Append(e, now), Append(granted[ip], now))
        /\ ForgetsOnlyOld(e, granted[ip], now) =>
              ForgetsOnlyOld(Append(e, now), Append(granted[ip], now), now)
    BY <1>3, <2>1, <2>2, <2>3, AppendRecord
  <2>5. ASSUME ip \notin evicted PROVE Spread(Append(granted[ip], now))
    <3>1. Spread(granted[ip])
      BY <2>5 DEF IInv, WindowQuota
    <3>2. now <= now + Delay
      BY <1>3, TimeAssumption
    <3> QED BY <1>3, <2>1, <2>2, <2>3, <2>5, <3>1, <3>2, AppendSpread
  <2> QED BY <1>1, <1>4, <2>1, <2>2, <2>4, <2>5
<1>14. RecordsMatchGrants'
  <2> SUFFICES ASSUME NEW x \in IPs
               PROVE  /\ RecordOf(Recorded(x)', granted'[x])
                      /\ x \notin evicted' => ForgetsOnlyOld(Recorded(x)', granted'[x], now')
    BY DEF RecordsMatchGrants
  <2>1. CASE x = ip
    BY <1>1, <1>13, <2>1
  <2>2. CASE x # ip /\ x \notin room.gone
    <3>1. Recorded(x)' = Recorded(x)
      BY <1>2, <1>5, <2>2 DEF Recorded
    <3> QED BY <1>1, <1>4, <2>2, <3>1, RecordFacts
  <2>3. CASE x # ip /\ x \in room.gone
    <3>1. Recorded(x)' = <<>> /\ x \in evicted'
      BY <1>1, <1>2, <1>5, <2>3 DEF Recorded
    <3>2. granted'[x] \in Seq(Nat)
      BY <1>4
    <3>3. RecordOf(<<>>, granted'[x])
      BY <3>2, LimitsAssumption DEF RecordOf, NotNegative
    <3> QED BY <3>1, <3>3
  <2> QED BY <2>1, <2>2, <2>3
<1>15. WindowQuota'
  <2> SUFFICES ASSUME NEW x \in IPs, x \notin evicted' PROVE Spread(granted'[x])
    BY DEF WindowQuota
  <2>1. x \notin evicted
    BY <1>1
  <2> QED BY <1>4, <1>13, <2>1 DEF IInv, WindowQuota
<1> QED BY <1>4, <1>8, <1>9, <1>10, <1>11, <1>12, <1>14, <1>15 DEF IInv

(* is_allowed of a recorded IP: the record is pruned at now', and a grant  *)
(* is timestamped with the earlier reading now.                            *)
LEMMA DecideKnownInv == ASSUME IInv, NEW ip \in IPs, MaxRequests > 0, DecideKnown(ip) PROVE IInv'
<1> DEFINE D == DOMAIN ip_records
           c == cleanup_old_timestamps(ip_records[ip], now')
           g == granted[ip]
<1>1. /\ sweep = {} /\ sweep' = {} /\ MaxRequests > 0 /\ ip \in D
      /\ now' \in now .. now + Delay /\ now' <= MaxTime
      /\ lru_list' = MoveToFront(lru_list, ip) /\ evicted' = evicted
  BY DEF DecideKnown, MutexFree
<1>2. now \in Nat /\ now' \in Nat /\ now <= now' /\ now' <= now + Delay
  BY <1>1, RecordFacts, TimeAssumption
<1>3. /\ D \subseteq IPs /\ ip_records \in [D -> Seq(Nat)] /\ lru_list \in Seq(IPs)
      /\ IsListOf(lru_list, D) /\ InOrderOfUse(lru_list, seen)
  BY DEF IInv, TypeOK, ListMatchesRecords, ListInOrderOfUse
<1>4. /\ Recorded(ip) = ip_records[ip] /\ ip_records[ip] \in Seq(Nat) /\ g \in Seq(Nat)
      /\ RecordOf(ip_records[ip], g)
      /\ ip \notin evicted => ForgetsOnlyOld(ip_records[ip], g, now)
  BY <1>1, RecordFacts DEF Recorded
<1>5. c \in Seq(Nat) /\ Len(c) \in Nat /\ (c # <<>> => now' - c[1] <= Window)
  <2>1. PICK k \in 0..Len(ip_records[ip]) :
           /\ c \in Seq(Nat)
           /\ Len(c) = Len(ip_records[ip]) - k
           /\ \A i \in 1..Len(ip_records[ip]) - k : c[i] = ip_records[ip][i + k]
           /\ k < Len(ip_records[ip]) => now' - ip_records[ip][k + 1] <= Window
    BY <1>2, <1>4, PruneProperties
  <2> HIDE DEF c
  <2>2. ASSUME c # <<>> PROVE now' - c[1] <= Window
    <3>1. Len(c) \in Nat /\ Len(c) > 0 /\ Len(ip_records[ip]) \in Nat
      BY <1>4, <2>1, <2>2
    <3>2. k \in Int /\ k < Len(ip_records[ip]) /\ 1 \in 1..Len(ip_records[ip]) - k /\ 1 + k = k + 1
      BY <2>1, <3>1
    <3>3. c[1] = ip_records[ip][1 + k]
      BY <2>1, <3>2
    <3> QED BY <2>1, <3>2, <3>3
  <2> QED BY <2>1, <2>2
<1>6. /\ RecordOf(c, g)
      /\ ip \notin evicted => ForgetsOnlyOld(c, g, now')
  BY <1>2, <1>4, PruneRecord
<1> HIDE DEF c
<1>7. \/ /\ Len(c) < MaxRequests
         /\ ip_records' = [ip_records EXCEPT ![ip] = Append(c, now)]
         /\ Grant(ip, now)
      \/ /\ Len(c) >= MaxRequests
         /\ ip_records' = [ip_records EXCEPT ![ip] = c]
         /\ seen' = [seen EXCEPT ![ip] = now]
         /\ answer' = [op |-> "refused", ip |-> ip, at |-> now']
         /\ UNCHANGED granted
  BY DEF DecideKnown, c
<1>8. lru_list' \in Seq(IPs) /\ IsListOf(lru_list', D)
  BY <1>1, <1>3, MoveToFrontLists
<1>9. DOMAIN ip_records' = D /\ ip_records' \in [D -> Seq(Nat)]
      /\ \A x \in D : x # ip => ip_records'[x] = ip_records[x]
  <2>1. PICK r \in Seq(Nat) : ip_records' = [ip_records EXCEPT ![ip] = r]
    <3>1. Append(c, now) \in Seq(Nat)
      BY <1>2, <1>5
    <3> QED BY <1>5, <1>7, <3>1
  <2> QED BY <1>1, <1>3, <2>1
<1>10. ListInOrderOfUse'
  <2>1. seen \in [IPs -> Nat] /\ \A x \in IPs : seen[x] <= now
    BY RecordFacts DEF IInv, TypeOK
  <2>2. InOrderOfUse(MoveToFront(lru_list, ip), [seen EXCEPT ![ip] = now])
    BY <1>1, <1>2, <1>3, <2>1, MoveToFrontInOrder
  <2>3. seen' = [seen EXCEPT ![ip] = now]
    BY <1>7 DEF Grant
  <2> QED BY <1>1, <2>2, <2>3 DEF ListInOrderOfUse
<1>11. (ListMatchesRecords /\ RecordsBounded /\ SweptAreEmpty)'
  BY <1>1, <1>8, <1>9 DEF IInv, ListMatchesRecords, RecordsBounded, SweptAreEmpty
<1>12. ASSUME NEW x \in IPs, x # ip
       PROVE  /\ Recorded(x)' = Recorded(x)
              /\ RecordOf(Recorded(x), granted[x])
              /\ x \notin evicted => ForgetsOnlyOld(Recorded(x), granted[x], now')
  <2>1. Recorded(x)' = Recorded(x)
    BY <1>9, <1>12 DEF Recorded
  <2>2. Len(Recorded(x)) <= Len(granted[x])
    BY RecordFacts DEF RecordOf
  <2> QED BY <1>2, <2>1, <2>2, RecordFacts, LaterStillOld
<1>13. CASE /\ Len(c) < MaxRequests
            /\ ip_records' = [ip_records EXCEPT ![ip] = Append(c, now)]
            /\ Grant(ip, now)
  <2>1. /\ granted' \in [IPs -> Seq(Nat)] /\ seen' \in [IPs -> Nat]
        /\ granted'[ip] = Append(g, now)
        /\ \A x \in IPs : x # ip => granted'[x] = granted[x]
        /\ answer'.ip \in IPs /\ answer'.at \in 0..MaxTime
        /\ HistoryInOrder' /\ RefusalJustified' /\ RemainingExact'
    BY <1>1, <1>2, <1>13, GrantHistory
  <2>2. TypeOK'
    <3>1. now' \in 0..MaxTime
      BY <1>1, <1>2, TimeAssumption
    <3>2. evicted \subseteq IPs
      BY DEF TypeOK, IInv
    <3> QED BY <1>1, <1>3, <1>8, <1>9, <2>1, <3>1, <3>2, Zenon DEF TypeOK
  <2>3. Recorded(ip)' = Append(c, now)
    BY <1>1, <1>3, <1>9, <1>13 DEF Recorded
  <2>4. /\ RecordOf(Append(c, now), Append(g, now))
        /\ ForgetsOnlyOld(c, g, now') => ForgetsOnlyOld(Append(c, now), Append(g, now), now')
    BY <1>2, <1>4, <1>5, <1>6, <1>13, AppendRecord
  <2>5. RecordsMatchGrants'
    BY <1>1, <1>6, <1>12, <2>1, <2>3, <2>4 DEF RecordsMatchGrants
  <2>6. ASSUME ip \notin evicted PROVE Spread(Append(g, now))
    <3>1. Spread(g) /\ ForgetsOnlyOld(c, g, now')
      BY <1>6, <2>6 DEF IInv, WindowQuota
    <3>2. Len(c) <= Len(g)
      BY <1>6 DEF RecordOf
    <3> QED BY <1>2, <1>4, <1>5, <1>13, <3>1, <3>2, AppendSpread
  <2>7. WindowQuota'
    BY <1>1, <2>1, <2>6 DEF IInv, WindowQuota
  <2> QED BY <1>10, <1>11, <2>1, <2>2, <2>5, <2>7 DEF IInv
<1>14. CASE /\ Len(c) >= MaxRequests
            /\ ip_records' = [ip_records EXCEPT ![ip] = c]
            /\ seen' = [seen EXCEPT ![ip] = now]
            /\ answer' = [op |-> "refused", ip |-> ip, at |-> now']
            /\ UNCHANGED granted
  <2>1. TypeOK'
    <3>1. now' \in 0..MaxTime
      BY <1>1, <1>2, TimeAssumption
    <3>2. evicted \subseteq IPs /\ seen' \in [IPs -> Nat] /\ granted \in [IPs -> Seq(Nat)]
      BY <1>2, <1>14 DEF TypeOK, IInv
    <3>3. answer'.ip \in IPs /\ answer'.at \in 0..MaxTime
      BY <1>14, <3>1
    <3> QED BY <1>1, <1>3, <1>8, <1>9, <1>14, <3>1, <3>2, <3>3, Zenon DEF TypeOK
  <2>2. Recorded(ip)' = c
    BY <1>1, <1>3, <1>9, <1>14 DEF Recorded
  <2>3. RecordsMatchGrants'
    BY <1>1, <1>6, <1>12, <1>14, <2>2 DEF RecordsMatchGrants
  <2>4. WindowQuota'
    BY <1>1, <1>14 DEF IInv, WindowQuota
  <2>5. HistoryInOrder'
    <3> SUFFICES ASSUME NEW x \in IPs
                 PROVE  seen'[x] <= now' /\ InOrder(granted[x], now')
      BY <1>1, <1>14, LimitsAssumption DEF HistoryInOrder
    <3>1. seen'[x] = now \/ seen'[x] = seen[x]
      BY <1>14 DEF IInv, TypeOK
    <3>2. seen'[x] <= now'
      BY <1>2, <3>1, RecordFacts
    <3>3. granted[x] \in Seq(Nat) /\ InOrder(granted[x], now)
      BY RecordFacts
    <3>4. InOrder(granted[x], now')
      BY <1>2, <3>3, LaterInOrder
    <3> QED BY <3>2, <3>4
  <2>6. RefusalJustified'
    <3>1. Len(c) = MaxRequests /\ MaxRequests \in Nat /\ Len(g) \in Nat /\ Len(c) <= Len(g)
      BY <1>1, <1>4, <1>5, <1>6, <1>14, LimitsAssumption DEF RecordOf, NotNegative
    <3>2. c # <<>> /\ 1 \in 1..Len(c)
      BY <1>1, <1>5, <3>1
    <3>3. c[1] = g[Len(g) - MaxRequests + 1] /\ now' - c[1] <= Window
      BY <1>5, <1>6, <3>1, <3>2 DEF RecordOf
    <3>4. Len(g) >= MaxRequests /\ now' - g[Len(g) - MaxRequests + 1] <= Window
      BY <3>1, <3>3
    <3> QED BY <1>14, <3>4 DEF RefusalJustified
  <2>7. RemainingExact'
    BY <1>14 DEF RemainingExact
  <2> QED BY <1>10, <1>11, <2>1, <2>3, <2>4, <2>5, <2>6, <2>7 DEF IInv
<1> QED BY <1>7, <1>13, <1>14

-----------------------------------------------------------------------------
(* Every step keeps the invariant.                                         *)
LEMMA StepInv == IInv /\ [Next]_vars => IInv'
<1> SUFFICES ASSUME IInv, [Next]_vars PROVE IInv'
  OBVIOUS
<1>1. ASSUME NEW ip \in IPs, is_allowed(ip) PROVE IInv'
  BY <1>1, RefuseAllInv, AdmitNewInv, DecideKnownInv, LimitsAssumption DEF is_allowed
<1>2. ASSUME NEW ip \in IPs, get_remaining(ip) PROVE IInv'
  BY <1>2, GetRemainingInv
<1>3. ASSUME NEW ip \in IPs, CleanupErase(ip) PROVE IInv'
  BY <1>3, CleanupEraseInv
<1>4. CASE CleanupPrune
  BY <1>4, CleanupPruneInv
<1>5. CASE Tick \/ UNCHANGED vars
  BY <1>5, TickInv
<1> QED BY <1>1, <1>2, <1>3, <1>4, <1>5 DEF Next

(* The invariant holds in every behaviour of the limiter.                  *)
THEOREM Invariance == Spec => []IInv
  BY InitInv, StepInv, PTL DEF Spec

(* Type correctness of the limiter.                                        *)
THEOREM TypeCorrect == Spec => []TypeOK
<1>1. IInv => TypeOK
  BY DEF IInv
<1> QED BY <1>1, Invariance, PTL

(* The record map and the recency list always agree: is_allowed, evict_lru *)
(* and cleanup update both.                                                *)
THEOREM TableConsistent == Spec => []ListMatchesRecords
<1>1. IInv => ListMatchesRecords
  BY DEF IInv
<1> QED BY <1>1, Invariance, PTL

(* The list is in order of last use, so evict_lru forgets an IP that has   *)
(* been silent for longest.                                                *)
THEOREM EvictionInOrder == Spec => []ListInOrderOfUse
<1>1. IInv => ListInOrderOfUse
  BY DEF IInv
<1> QED BY <1>1, Invariance, PTL

(* is_allowed never lets the table outgrow max_ip_records_.                *)
THEOREM TableBounded == Spec => []RecordsBounded
<1>1. IInv => RecordsBounded
  BY DEF IInv
<1> QED BY <1>1, Invariance, PTL

(* cleanup_old_timestamps, wherever it is called from, forgets only grants *)
(* that have left the window.                                              *)
THEOREM RecordsFaithful == Spec => []RecordsMatchGrants
<1>1. IInv => RecordsMatchGrants
  BY DEF IInv
<1> QED BY <1>1, Invariance, PTL

(* is_allowed enforces the limit on every IP that was not evicted.         *)
THEOREM QuotaEnforced == Spec => []WindowQuota
<1>1. IInv => WindowQuota
  BY DEF IInv
<1> QED BY <1>1, Invariance, PTL

(* is_allowed refuses nobody who has not used up the limit.                *)
THEOREM RefusalsJustified == Spec => []RefusalJustified
<1>1. IInv => RefusalJustified
  BY DEF IInv
<1> QED BY <1>1, Invariance, PTL

(* get_remaining reports exactly what is left of the limit.                *)
THEOREM RemainingTruthful == Spec => []RemainingExact
<1>1. IInv => RemainingExact
  BY DEF IInv
<1> QED BY <1>1, Invariance, PTL

(* With room for every client, is_allowed never evicts ...                 *)
LEMMA NoEviction ==
    ASSUME Cardinality(IPs) <= MaxIPRecords, IInv, evicted = {}, [Next]_vars
    PROVE  evicted' = {}
<1>1. ASSUME NEW ip \in IPs, AdmitNew(ip) PROVE RoomForOne.gone = {}
  <2> DEFINE D == DOMAIN ip_records
  <2>1. D \subseteq IPs /\ ip \notin D
    BY <1>1 DEF AdmitNew, IInv, TypeOK
  <2>2. /\ Cardinality(D) <= Cardinality(IPs) /\ Cardinality(IPs) # Cardinality(D)
        /\ Cardinality(D) \in Nat /\ Cardinality(IPs) \in Nat
    BY <2>1, IPsFinite, FS_Subset, FS_CardinalityType
  <2>3. ~ (Cardinality(D) >= MaxIPRecords)
    BY <2>2, LimitsAssumption
  <2> QED BY <2>3 DEF RoomForOne, KeepAll
<1>2. ASSUME NEW ip \in IPs, is_allowed(ip) PROVE evicted' = {}
  BY <1>1, <1>2 DEF is_allowed, RefuseAll, AdmitNew, DecideKnown
<1> QED BY <1>2 DEF Next, vars, get_remaining, CleanupErase, CleanupPrune, Tick

(* ... and the limit holds for every IP, as the option promises.           *)
THEOREM QuotaWhenTableFits ==
    Cardinality(IPs) <= MaxIPRecords => (Spec => []QuotaForEveryIP)
<1> SUFFICES ASSUME Cardinality(IPs) <= MaxIPRecords PROVE Spec => []QuotaForEveryIP
  OBVIOUS
<1>1. Init => evicted = {}
  BY DEF Init
<1>2. IInv /\ evicted = {} /\ [Next]_vars => (evicted = {})'
  BY NoEviction
<1>3. IInv /\ evicted = {} => QuotaForEveryIP
  BY DEF IInv, WindowQuota, QuotaForEveryIP
<1> QED BY <1>1, <1>2, <1>3, Invariance, PTL DEF Spec
-----------------------------------------------------------------------------
(* MaxRequests consecutive grants of history g, all of them in the window  *)
(* at time u.  They stay where they are while the history grows.           *)
Exhausted(g, u) ==
    \E k \in 1..Len(g) : k + MaxRequests - 1 <= Len(g) /\ u - g[k] <= Window

(* What a refusal that awaits get_remaining rests on, given the history h. *)
Backed(r, h) ==
    /\ r.ip \in IPs
    /\ r.at \in Nat
    /\ MaxRequests > 0 => Exhausted(h[r.ip], r.at)

RefusalsBacked ==
    /\ refused = [t \in Threads |-> refused[t]]
    /\ \A t \in Threads : refused[t] # NoRefusal => Backed(refused[t], granted)

GInv == IInv /\ RefusalsBacked

-----------------------------------------------------------------------------
(* A step of the gate is a step of the limiter.                            *)
LEMMA GateStep == GInv /\ [GateNext]_gate => [Next]_vars
<1> SUFFICES ASSUME GInv, [GateNext]_gate PROVE [Next]_vars
  OBVIOUS
<1>1. ASSUME NEW t \in Threads, TellRemaining(t) PROVE Next
  <2>1. refused[t].ip \in IPs
    BY <1>1 DEF GInv, RefusalsBacked, Backed, TellRemaining
  <2> QED BY <1>1, <2>1 DEF TellRemaining, Next
<1>2. ASSUME NEW t \in Threads, NEW ip \in IPs, Ask(t, ip) PROVE Next
  BY <1>2 DEF Ask, Next
<1>3. CASE CleanupPrune \/ Tick \/ \E ip \in IPs : CleanupErase(ip)
  BY <1>3 DEF Next
<1>4. CASE UNCHANGED gate
  BY <1>4 DEF gate
<1> QED BY <1>1, <1>2, <1>3, <1>4 DEF GateNext

(* The history of an IP only grows.                                        *)
LEMMA HistoryGrows ==
    ASSUME IInv, [Next]_vars, NEW ip \in IPs
    PROVE  /\ granted[ip] \in Seq(Nat)
           /\ granted'[ip] = granted[ip] \/ granted'[ip] = Append(granted[ip], now)
<1>1. granted \in [IPs -> Seq(Nat)]
  BY DEF IInv, TypeOK
<1>2. ASSUME NEW x \in IPs, is_allowed(x)
      PROVE  granted' = granted \/ granted' = [granted EXCEPT ![x] = Append(@, now)]
  BY <1>2 DEF is_allowed, RefuseAll, AdmitNew, DecideKnown, Grant
<1>3. \/ granted' = granted
      \/ \E x \in IPs : granted' = [granted EXCEPT ![x] = Append(@, now)]
  BY <1>2 DEF Next, vars, get_remaining, CleanupErase, CleanupPrune, Tick
<1> QED BY <1>1, <1>3

(* A refusal that rests on the history of its IP keeps resting on it.      *)
LEMMA StaysExhausted ==
    ASSUME NEW g \in Seq(Nat), NEW n \in Nat, NEW u \in Nat, MaxRequests > 0, Exhausted(g, u)
    PROVE  Exhausted(Append(g, n), u)
<1> PICK k \in 1..Len(g) : k + MaxRequests - 1 <= Len(g) /\ u - g[k] <= Window
  BY DEF Exhausted
<1>1. Len(Append(g, n)) = Len(g) + 1 /\ Append(g, n)[k] = g[k] /\ Len(g) \in Nat
  OBVIOUS
<1>2. k \in 1..Len(Append(g, n)) /\ k + MaxRequests - 1 <= Len(Append(g, n))
  BY <1>1, LimitsAssumption
<1> QED BY <1>1, <1>2 DEF Exhausted

LEMMA StaysBacked ==
    ASSUME IInv, [Next]_vars, NEW r, Backed(r, granted)
    PROVE  Backed(r, granted')
<1>1. now \in Nat
  BY TimeAssumption DEF IInv, TypeOK
<1>2. ASSUME MaxRequests > 0 PROVE Exhausted(granted'[r.ip], r.at)
  BY <1>1, <1>2, HistoryGrows, StaysExhausted DEF Backed
<1> QED BY <1>2 DEF Backed

(* What the limiter has just refused rests on the history of the IP.       *)
LEMMA RefusedIsBacked ==
    ASSUME IInv', NEW ip \in IPs, is_allowed(ip), answer'.op # "allowed"
    PROVE  Backed([ip |-> ip, at |-> answer'.at], granted')
<1> DEFINE g == granted'[ip]
<1>1. answer'.op = "refused" /\ answer'.ip = ip
  BY DEF is_allowed, RefuseAll, AdmitNew, DecideKnown, Grant
<1>2. answer'.at \in Nat /\ g \in Seq(Nat)
  BY <1>1, TimeAssumption DEF IInv, TypeOK
<1>3. ASSUME MaxRequests > 0 PROVE Exhausted(g, answer'.at)
  <2>1. Len(g) >= MaxRequests /\ answer'.at - g[Len(g) - MaxRequests + 1] <= Window
    BY <1>1, <1>3 DEF IInv, RefusalJustified
  <2>2. Len(g) - MaxRequests + 1 \in 1..Len(g) /\ Len(g) - MaxRequests + 1 + MaxRequests - 1 <= Len(g)
    BY <1>2, <1>3, <2>1, LimitsAssumption
  <2> QED BY <2>1, <2>2 DEF Exhausted
<1> QED BY <1>2, <1>3 DEF Backed

-----------------------------------------------------------------------------
LEMMA InitGInv == GateInit => GInv
BY InitInv DEF GateInit, GInv, RefusalsBacked

(* Every step keeps refusals backed, the one of another thread between the *)
(* two calls of this one included.                                         *)
LEMMA StepGInv == GInv /\ [GateNext]_gate => GInv'
<1> SUFFICES ASSUME GInv, [GateNext]_gate PROVE GInv'
  OBVIOUS
<1>1. IInv' /\ [Next]_vars
  BY GateStep, StepInv DEF GInv
<1>2. ASSUME NEW s \in Threads, refused[s] # NoRefusal PROVE Backed(refused[s], granted')
  BY <1>1, <1>2, StaysBacked DEF GInv, RefusalsBacked
<1>3. ASSUME NEW t \in Threads, NEW ip \in IPs, Ask(t, ip) PROVE RefusalsBacked'
  <2>1. CASE answer'.op = "allowed"
    BY <1>2, <1>3, <2>1 DEF Ask, GInv, RefusalsBacked
  <2>2. CASE answer'.op # "allowed"
    <3>1. Backed([ip |-> ip, at |-> answer'.at], granted')
      BY <1>1, <1>3, <2>2, RefusedIsBacked DEF Ask
    <3>2. refused' = [refused EXCEPT ![t] = [ip |-> ip, at |-> answer'.at]]
      BY <1>3, <2>2 DEF Ask
    <3> QED BY <1>2, <3>1, <3>2 DEF GInv, RefusalsBacked
  <2> QED BY <2>1, <2>2
<1>4. ASSUME NEW t \in Threads, TellRemaining(t) PROVE RefusalsBacked'
  <2>1. refused' = [refused EXCEPT ![t] = NoRefusal]
    BY <1>4 DEF TellRemaining
  <2> QED BY <1>2, <2>1 DEF GInv, RefusalsBacked
<1>5. CASE UNCHANGED refused
  <2>1. RefusalsBacked
    BY DEF GInv
  <2>2. ASSUME NEW s \in Threads, refused'[s] # NoRefusal PROVE Backed(refused'[s], granted')
    BY <1>2, <1>5, <2>2
  <2>3. RefusalsBacked'
    BY <1>5, <2>1, <2>2, Zenon DEF RefusalsBacked
  <2> QED BY <1>1, <2>3 DEF GInv
<1> QED BY <1>1, <1>3, <1>4, <1>5 DEF GInv, GateNext, gate

(* Behind the gate, every refusal that awaits get_remaining rests on       *)
(* grants of its IP, and the limiter keeps its invariant.                  *)
THEOREM GateInvariance == GateSpec => []GInv
BY InitGInv, StepGInv, PTL DEF GateSpec

(* prepare_request uses the limiter as RateLimiter specifies it: every     *)
(* theorem about the limiter holds behind the gate.                        *)
THEOREM GateUsesLimiter == GateSpec => Spec
<1>1. GateInit => Init
  BY DEF GateInit
<1> QED BY <1>1, GateStep, GateInvariance, PTL DEF GateSpec, Spec

-----------------------------------------------------------------------------
(* The grants of an exhausted history that counted at u and do not count   *)
(* at n make up for what is left at n.                                     *)
LEMMA LeftWasFreed ==
    ASSUME NEW g \in Seq(Nat), NEW u \in Nat, NEW n \in Nat, InOrder(g, n), MaxRequests > 0,
           Exhausted(g, u)
    PROVE  MaxRequests - Cardinality({i \in 1..Len(g) : n - g[i] <= Window}) <=
               Cardinality({i \in DOMAIN g : u - g[i] <= Window /\ n - g[i] > Window})
<1> DEFINE Live  == {i \in 1..Len(g) : n - g[i] <= Window}
           Gone  == {i \in DOMAIN g : u - g[i] <= Window /\ n - g[i] > Window}
<1> PICK k \in 1..Len(g) : k + MaxRequests - 1 <= Len(g) /\ u - g[k] <= Window
  BY DEF Exhausted
<1> DEFINE Spent == k .. k + MaxRequests - 1
<1>1. Len(g) \in Nat /\ DOMAIN g = 1..Len(g) /\ \A i \in 1..Len(g) : g[i] \in Nat
  OBVIOUS
<1>2. k \in Int /\ k + MaxRequests - 1 \in Int /\ IsFiniteSet(Spent) /\ Cardinality(Spent) = MaxRequests
  <2>1. k \in Int /\ k + MaxRequests - 1 \in Int
    BY <1>1, LimitsAssumption
  <2>2. IsFiniteSet(Spent) /\ Cardinality(Spent) =
            IF k > k + MaxRequests - 1 THEN 0 ELSE (k + MaxRequests - 1) - k + 1
    BY <2>1, FS_Interval
  <2> QED BY <2>1, <2>2, LimitsAssumption
<1>3. IsFiniteSet(1..Len(g))
  BY <1>1, FS_Interval
<1>4. IsFiniteSet(Live) /\ IsFiniteSet(Gone)
  BY <1>1, <1>3, FS_Subset
<1>5. ASSUME NEW i \in Spent PROVE i \in Gone \cup Live
  <2>1. i \in 1..Len(g) /\ k \in 1..i
    BY <1>1, LimitsAssumption
  <2>2. g[k] <= g[i]
    BY <2>1 DEF InOrder
  <2>3. u - g[i] <= Window
    BY <1>1, <2>1, <2>2, TimeAssumption
  <2> QED BY <1>1, <2>1, <2>3, TimeAssumption
<1>6. /\ IsFiniteSet(Gone \cup Live)
      /\ Cardinality(Gone \cup Live) = Cardinality(Gone) + Cardinality(Live) - Cardinality(Gone \cap Live)
  BY <1>4, FS_Union
<1>7. Cardinality(Spent) <= Cardinality(Gone \cup Live)
  BY <1>5, <1>6, FS_Subset
<1>8. IsFiniteSet(Gone \cap Live)
  BY <1>4, FS_Subset
<1>9. Cardinality(Gone) \in Nat /\ Cardinality(Live) \in Nat /\ Cardinality(Gone \cap Live) \in Nat
  BY <1>4, <1>8, FS_CardinalityType
<1> HIDE DEF Spent, Gone, Live
<1>10. MaxRequests - Cardinality(Live) <= Cardinality(Gone)
  BY <1>2, <1>6, <1>7, <1>9, LimitsAssumption
<1> QED BY <1>10 DEF Gone, Live

(* A 429 response never promises more than time has given back since the   *)
(* refusal (is_allowed and get_remaining in prepare_request).              *)
THEOREM RemainingBoundedByFreed == GateSpec => RemainingIsFreed
<1>1. ASSUME GInv, GInv', NEW t \in Threads, TellRemaining(t), refused[t].ip \notin evicted
      PROVE  answer'.left <= Cardinality(Freed(refused[t]))
  <2> DEFINE r == refused[t]
             g == granted[r.ip]
  <2>1. Backed(r, granted)
    BY <1>1 DEF GInv, RefusalsBacked, TellRemaining
  <2>2. /\ answer'.op = "remaining" /\ answer'.ip = r.ip /\ answer'.at = now
        /\ granted' = granted /\ evicted' = evicted
    BY <1>1 DEF TellRemaining, get_remaining
  <2>3. now \in Nat /\ r.ip \in IPs /\ r.at \in Nat /\ g \in Seq(Nat) /\ InOrder(g, now)
    BY <1>1, <2>1, RecordFacts DEF GInv, Backed
  <2>4. CASE MaxRequests > 0
    <3>1. answer'.left = MaxRequests - Cardinality({i \in 1..Len(g) : now - g[i] <= Window})
      BY <1>1, <2>2, <2>4 DEF GInv, IInv, RemainingExact
    <3>2. Exhausted(g, r.at)
      BY <2>1, <2>4 DEF Backed
    <3> QED BY <2>3, <2>4, <3>1, <3>2, LeftWasFreed DEF Freed
  <2>5. CASE MaxRequests <= 0
    <3>1. answer'.left \in Int /\ answer'.left <= 0
      <4>1. CASE r.ip \notin DOMAIN ip_records
        BY <1>1, <2>5, <4>1, LimitsAssumption DEF TellRemaining, get_remaining
      <4>2. CASE r.ip \in DOMAIN ip_records
        <5> DEFINE kept == cleanup_old_timestamps(ip_records[r.ip], now)
        <5>1. answer'.left = NotNegative(MaxRequests - Len(kept))
          BY <1>1, <4>2 DEF TellRemaining, get_remaining
        <5>2. ip_records[r.ip] \in Seq(Nat)
          BY <1>1, <4>2 DEF GInv, IInv, TypeOK
        <5>3. kept \in Seq(Nat)
          BY <2>3, <5>2, PruneProperties
        <5>4. Len(kept) \in Nat
          BY <5>3
        <5> QED BY <2>5, <5>1, <5>4, LimitsAssumption DEF NotNegative
      <4> QED BY <4>1, <4>2
    <3>2. Freed(r) \subseteq 1..Len(g) /\ Len(g) \in Int
      BY <2>3 DEF Freed
    <3>3. Cardinality(Freed(r)) \in Nat
      <4>1. IsFiniteSet(1..Len(g))
        BY <3>2, FS_Interval
      <4>2. IsFiniteSet(Freed(r))
        BY <3>2, <4>1, FS_Subset
      <4> QED BY <4>2, FS_CardinalityType
    <3> QED BY <3>1, <3>3
  <2> QED BY <2>4, <2>5, LimitsAssumption
<1>2. GInv /\ GInv' => [\A t \in Threads : TellRemaining(t) /\ refused[t].ip \notin evicted =>
                           answer'.left <= Cardinality(Freed(refused[t]))]_gate
  BY <1>1
<1> QED BY <1>2, GateInvariance, PTL DEF RemainingIsFreed
=============================================================================
