SPECIFICATION Spec
CONSTANTS
    a = a
    b = b
    Conns = {k1}
    Classes <- MCClasses
    Requests <- MCRequests
    Capacity = 1
    MaxBatch = 1
    MaxEvents = 2
    MaxSubs = 1
INVARIANT
    LiveWithoutGaps
CHECK_DEADLOCK FALSE
