------------------------------- MODULE Metrics -------------------------------
(***************************************************************************)
(* Metrics (metrics.cpp): request threads record latencies and errors, a   *)
(* health request reads them.  The counters are atomics outside mutex_, so *)
(* record_request is two steps (count, then the section under the mutex)   *)
(* and get_stats is four (two loads and two sections under the mutex).     *)
(***************************************************************************)
EXTENDS Naturals, Sequences, Functions, FiniteSets

CONSTANTS
    Threads,            \* request threads
    Latencies,          \* the latencies they measure
    MaxLatencies,       \* MAX_LATENCIES
    Window,             \* the 60 s of record_request
    MaxRecords,         \* bound on the requests recorded
    MaxErrors,          \* bound on the errors recorded
    MaxTime             \* bound on the clock

ASSUME MetricsAssumption ==
    /\ Latencies \subseteq Nat
    /\ MaxLatencies \in Nat \ {0}
    /\ {Window, MaxRecords, MaxErrors, MaxTime} \subseteq Nat

VARIABLES
    total_requests, total_errors,
    latencies,          \* deque of latencies
    request_timestamps, \* deque of times
    pending,            \* thread -> the latency it has counted but not stored, as a set
    health,             \* the reader: where it is and the Stats it has filled in
    now,                \* steady_clock::now()
    log                 \* history: latency and time of each record, in the order of the mutex

counters    == <<total_requests, total_errors>>
deques      == <<latencies, request_timestamps, log>>
metricsVars == <<counters, deques, pending, health, now>>

NoStats == [requests |-> 0, errors |-> 0, percentiles |-> <<0, 0, 0>>, qps |-> <<0, 1>>,
            seen |-> <<>>]

MetricsInit ==
    /\ total_requests = 0
    /\ total_errors = 0
    /\ latencies = <<>>
    /\ request_timestamps = <<>>
    /\ pending = [t \in Threads |-> {}]
    /\ health = [at |-> "idle", stats |-> NoStats]
    /\ now = 0
    /\ log = <<>>

-----------------------------------------------------------------------------
(* Seeded error: the count is taken from what has been stored.             *)
CountOfStored == Len(log) + 1

Counted == total_requests + 1

(* record_request, first step: total_requests_++.                          *)
CountRequest(t, latency) ==
    /\ pending[t] = {}
    /\ total_requests < MaxRecords
    /\ total_requests' = Counted
    /\ pending' = [pending EXCEPT ![t] = {latency}]
    /\ UNCHANGED <<total_errors, deques, health, now>>

(* Seeded error: >= for >.                                                 *)
CappedEarly(s) == IF Len(s) >= MaxLatencies THEN Tail(s) ELSE s

Capped(s) == IF Len(s) > MaxLatencies THEN Tail(s) ELSE s

(* Seeded error: a time as old as the window is dropped.                   *)
YoungerThanWindow(age) == age < Window

InWindow(age) == age <= Window

(* The times not older than the window, from the first such one on.        *)
Recent(s, t) ==
    LET recent == {i \in DOMAIN s : InWindow(t - s[i])}
    IN  IF recent = {} THEN <<>>
        ELSE SubSeq(s, CHOOSE i \in recent : \A j \in recent : i <= j, Len(s))

(* Second step, under the mutex: the latency is stored, the clock read and *)
(* the time stored; what is too much or too old leaves from the front.     *)
StoreRequest(t) ==
    \E latency \in pending[t] :
        /\ latencies' = Capped(Append(latencies, latency))
        /\ request_timestamps' = Recent(Append(request_timestamps, now), now)
        /\ log' = Append(log, [latency |-> latency, time |-> now])
        /\ pending' = [pending EXCEPT ![t] = {}]
        /\ UNCHANGED <<counters, health, now>>

record_error ==
    /\ total_errors < MaxErrors
    /\ total_errors' = total_errors + 1
    /\ UNCHANGED <<total_requests, deques, pending, health, now>>

-----------------------------------------------------------------------------
(* std::ranges::sort: the elements in ascending order.                     *)
IsAscending(s) == \A i \in DOMAIN s : \A j \in DOMAIN s : i <= j => s[i] <= s[j]

Arranged(s, p) == [i \in DOMAIN s |-> s[p[i]]]

Sorted(s) ==
    Arranged(s, CHOOSE p \in Bijection(DOMAIN s, DOMAIN s) : IsAscending(Arranged(s, p)))

(* Seeded error: the index is taken of the size, not of the last index.    *)
PercentileOfSize(s, percentile) ==
    Sorted(s)[(percentile * Len(s)) \div 100 + 1]

(* The element of rank percentile of the sorted latencies; the index of    *)
(* the code counts from 0.                                                 *)
calculate_percentile(s, percentile) ==
    Sorted(s)[(percentile * (Len(s) - 1)) \div 100 + 1]

(* Requests and milliseconds between the first and the last of the window. *)
calculate_qps(times) ==
    IF Len(times) < 2 \/ times[Len(times)] = times[1] THEN <<0, 1>>
    ELSE <<Len(times) - 1, times[Len(times)] - times[1]>>

LoadRequests ==
    /\ health.at = "idle"
    /\ health' = [at |-> "errors", stats |-> [NoStats EXCEPT !.requests = total_requests]]
    /\ UNCHANGED <<counters, deques, pending, now>>

LoadErrors ==
    /\ health.at = "errors"
    /\ health' = [health EXCEPT !.at = "latencies", !.stats.errors = total_errors]
    /\ UNCHANGED <<counters, deques, pending, now>>

ReadLatencies ==
    /\ health.at = "latencies"
    /\ health' = [health EXCEPT !.at = "qps", !.stats.seen = latencies,
                     !.stats.percentiles =
                         IF latencies = <<>> THEN @
                         ELSE <<calculate_percentile(latencies, 50),
                                calculate_percentile(latencies, 95),
                                calculate_percentile(latencies, 99)>>]
    /\ UNCHANGED <<counters, deques, pending, now>>

ReadQps ==
    /\ health.at = "qps"
    /\ health' = [health EXCEPT !.at = "idle", !.stats.qps = calculate_qps(request_timestamps)]
    /\ UNCHANGED <<counters, deques, pending, now>>

Tick ==
    /\ now < MaxTime
    /\ now' = now + 1
    /\ UNCHANGED <<counters, deques, pending, health>>

MetricsNext ==
    \/ \E t \in Threads : StoreRequest(t) \/ \E l \in Latencies : CountRequest(t, l)
    \/ record_error
    \/ LoadRequests \/ LoadErrors \/ ReadLatencies \/ ReadQps
    \/ Tick

MetricsSpec == MetricsInit /\ [][MetricsNext]_metricsVars

-----------------------------------------------------------------------------
InFlight == Cardinality({t \in Threads : pending[t] # {}})

(* The counter outside the mutex is exactly ahead of the deques by the     *)
(* requests that are between the two steps of record_request: none is lost *)
(* or counted twice when threads interleave.                               *)
CountsEveryRequest == total_requests = Len(log) + InFlight

(* latencies_ holds the latest latencies, as many as there are up to       *)
(* MAX_LATENCIES, in the order in which they were recorded.                *)
LatenciesAreLatest ==
    LET n == Len(latencies)
    IN  /\ n = IF Len(log) <= MaxLatencies THEN Len(log) ELSE MaxLatencies
        /\ \A i \in 1..n : latencies[i] = log[Len(log) - n + i].latency

(* request_timestamps_ holds exactly the requests of the window that ends  *)
(* with the last record, oldest first: what calculate_qps divides is a     *)
(* count of requests by a time that is at most the window and not negative. *)
TimestampsSpanWindow ==
    LET n    == Len(request_timestamps)
        last == log[Len(log)].time
    IN  log # <<>> =>
            /\ n = Cardinality({i \in DOMAIN log : last - log[i].time <= Window})
            /\ \A i \in 1..n : request_timestamps[i] = log[Len(log) - n + i].time
            /\ \A i \in 1..n : \A j \in i..n : request_timestamps[i] <= request_timestamps[j]

(* Each percentile of a health report is a latency with the rank its name  *)
(* says among the latencies the report was computed from, which are the    *)
(* same ones for all three.                                                *)
PercentilesHaveRank ==
    LET seen == health.stats.seen
        n    == Len(seen)
        Has(v, p) ==
            /\ 100 * Cardinality({i \in 1..n : seen[i] <= v}) > p * (n - 1)
            /\ 100 * Cardinality({i \in 1..n : seen[i] >= v}) >= (100 - p) * (n - 1) + 100
    IN  seen # <<>> =>
            /\ Has(health.stats.percentiles[1], 50)
            /\ Has(health.stats.percentiles[2], 95)
            /\ Has(health.stats.percentiles[3], 99)
==============================================================================
