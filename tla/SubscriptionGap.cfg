SPECIFICATION Spec
CONSTANTS
    a = a
    b = b
    Conns = {k1}
    Classes <- MCClasses
    Requests <- MCRequests
    Capacity = 3
    MaxBatch = 1
    MaxEvents = 2
    MaxSubs = 1
INVARIANT
    NoGaps
CHECK_DEADLOCK FALSE
