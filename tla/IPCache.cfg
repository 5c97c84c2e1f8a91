\* Two shards; any result may be cached under any key.
SPECIFICATION Spec
CONSTANTS
    a = a
    b = b
    c = c
    d = d
    small = small
    big = big
    Keys = {a, b, c, d}
    Results = {small, big}
    SizeOf <- MCSizeOf
    TTL <- MCTTL
    ShardMemory = 3
    ShardCount = 2
    ShardOf <- MCShardOf
    Puts <- MCPuts
    MaxTime = 2
    MaxOps = 4
SYMMETRY KeySymmetry
INVARIANTS
    TypeOK
    ListsMatchMaps
    ListsInOrderOfUse
    MemoryExact
    StatsConsistent
PROPERTIES
    InsertEvictsJustEnough
