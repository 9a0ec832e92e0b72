SPECIFICATION StoresSpec
CONSTANTS
    c1 = c1
    x = x
    y = y
    Procs = {p1, p2}
    NoProc = NoProc
    NoTime = NoTime
    Clocks <- MCClocks
    Payloads <- MCPayloads
    Events <- MCEvents
    HoldSets <- MCHoldSets
    MaxRecords = 2
    SequenceLimit = 3
    Shard = "local"
    Shards = {"local", "remote"}
    Values = {v1, v2}
    Capacity = 2
    IndexMax = 2
    GenerationMax = 1
    LogCapacity = 3
    Filters <- MCFilters
    Budgets <- MCBudgets
    KnownClock = 2
    ValidClock = 1
    Times <- MCTimes
    Arrivals <- MCArrivals
SYMMETRY Symmetry
INVARIANTS
    AckedReadable
    ResumesSequence
    RetireKeepsHeldAndUnsealed
    NoSlotLeaks
    PresentIsLastRecorded
    PagesAreOneScan
PROPERTIES
    IsEntityMap
    KnowledgeSettles
CHECK_DEADLOCK FALSE
