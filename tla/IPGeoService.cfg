\* Two threads; a shard of 4 holds two found answers, or one and a negative one.
SPECIFICATION Spec
CONSTANTS
    i1 = i1
    i2 = i2
    i3 = i3
    i4 = i4
    Keys = {i1, i2, i3, i4}
    Threads = {t1, t2}
    CityDB <- MCCityDB
    ASNDB <- MCASNDB
    Results <- MCResults
    SizeOf <- MCSizeOf
    ShardMemory = 4
    TTL <- MCTTL
    MayThrow = TRUE
    MaxTime = 2
INVARIANTS
    CacheHoldsFileRecords
PROPERTIES
    ImplementsLookup
