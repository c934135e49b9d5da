CONSTANTS
    p1 = p1
    p2 = p2
    p3 = p3
    Procs = {p1, p2, p3}
    MaxCalls = 2
    PoolProcs = {0, 1, 2}
    NContexts = 2
    GroupOf <- MCGroupOf
    NElements = 2
    PoolCalls = 1
    NProcs = 3
    NDesc = 2
    Programs <- MCPrograms
    Modulus = 8
    startSize = 2
    growBy = 0
    shrinkBy = 0
    RecordRanges <- AllRanges
    EraseRanges <- AllRanges
SPECIFICATION OnHostSpec
CHECK_DEADLOCK FALSE
INVARIANTS PoolElementsSafe ReadsItsOwnCall ReducesEachOnce QueriesAgree
PROPERTIES ImplementsBarrier ImplementsSet AllReleased CallsReturn
