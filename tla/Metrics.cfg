\* Four requests, more than MaxLatencies and spread over more than a window.
SPECIFICATION MetricsSpec
CONSTANTS
    Threads = {t1, t2}
    Latencies = {1, 2, 3}
    MaxLatencies = 3
    Window = 1
    MaxRecords = 4
    MaxErrors = 1
    MaxTime = 2
INVARIANTS
    CountsEveryRequest
    LatenciesAreLatest
    TimestampsSpanWindow
    PercentilesHaveRank
