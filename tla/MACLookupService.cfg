\* Two threads, room for two entries.
SPECIFICATION Spec
CONSTANTS
    Keys <- MCKeys
    Threads = {t1, t2}
    Upper <- MCUpper
    MacDigits = 2
    OuiDigits = 1
    Registry <- MCRegistry
    Results <- MCResults
    SizeOf <- MCSizeOf
    ShardMemory = 2
    TTL <- MCTTL
    MayFail = TRUE
    MaxTime = 1
INVARIANTS
    CacheHoldsTruth
    StatementExclusive
PROPERTIES
    ImplementsLookup
