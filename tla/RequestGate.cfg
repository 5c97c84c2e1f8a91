\* Three IPs compete for two records; two threads ask.
SPECIFICATION GateSpec
CONSTANTS
    Threads = {t1, t2}
    IPs = {a, b, c}
    MaxRequests = 2
    Window = 2
    MaxIPRecords = 2
    Delay = 1
    MaxTime = 3
    MaxGrants = 3
SYMMETRY Symmetry
INVARIANTS
    TypeOK
    ListMatchesRecords
    ListInOrderOfUse
    RecordsBounded
    RecordsMatchGrants
    WindowQuota
    RefusalJustified
    RemainingExact
PROPERTIES
    RemainingIsFreed
