SPECIFICATION ServicesSpec
CONSTANTS
    Batches <- MCBatches
    Filters <- MCFilters
    Budgets <- MCBudgets
    Bits <- MCBits
    FrameOverhead = 1
    SegmentOverhead = 2
    MaxEvents = 3
    MaxFailures = 1
    Partitions = {0, 1}
    Routers <- MCRouters
    ShardEvents <- MCShardEvents
    MaxAppended = 3
    Workers = {w1, w2}
    Limits = {0, 10}
    Depths = {0, 5, 7}
    Classes = {2, 4}
    MaxTask = 2
    MaxSegment = 2
    Sizes = {1, 2}
    HotBytes = 2
    WarmBytes = 2
    MaxSteps = 3
    StoredEvents <- MCStored
    ScanRequests <- MCScans
    TraceRequests <- MCTraces
    MaxDepth = 4
    MaxRows = 2
    MaxStored = 2
    Exprs <- MCDoubtful
    Rows <- MCRows
    MaxIterations = 4
    Propositions <- MCPropositions
    Kinds = {"claim"}
    Confidences = {80}
    MaxKnowledge = 3
    MaxPredictions = 1
    LastTime = 2
    Domains = {"codec"}
    Configs <- MCConfigs
    Metrics <- MCMetrics
    IsolationBudgets <- MCIsolation
    CpuLimit = 1
    MemoryLimit = 1
    Yields = {1}
    MaxCandidates = 2
    MaxPriors = 1
    MaxCalls = 4
    MaxPushed = 2
    Peers = {p1, p2}
    MaxStarts = 2
INVARIANT
    OptimizedIsEquivalent
CHECK_DEADLOCK FALSE
