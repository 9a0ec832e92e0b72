SPECIFICATION Spec
CONSTANTS
    a = a
    b = b
    Conns = {k1, k2}
    Classes <- MCClasses
    Requests <- MCRequests
    Capacity = 1
    MaxBatch = 1
    MaxEvents = 2
    MaxSubs = 2
INVARIANTS
    InOrderOnce
    CompleteWhenUndisturbed
PROPERTIES
    QueuedIsSent
    AppendReturns
    DeadSubscriptionsRemoved
CHECK_DEADLOCK FALSE
