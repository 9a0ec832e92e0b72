SPECIFICATION RetireFaultSpec
CONSTANTS
    c1 = c1
    x = x
    y = y
    Procs = {p1}
    NoProc = NoProc
    NoTime = NoTime
    Clocks <- MCClocks
    Payloads <- MCPayloads
    Events <- MCEvents
    HoldSets <- MCHoldSets
    MaxRecords = 2
    SequenceLimit = 3
INVARIANT
    ResumesSequence
CHECK_DEADLOCK FALSE
