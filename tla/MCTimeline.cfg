SPECIFICATION Spec
CONSTANTS
    c1 = c1
    c2 = c2
    x = x
    y = y
    Procs = {p1, p2}
    NoProc = NoProc
    NoTime = NoTime
    Clocks <- MCClocks
    Payloads <- MCPayloads
    Events <- MCEvents
    MaxRecords = 2
    SequenceLimit = 4
    Managers = {m1, m2}
    ForkAs = {"Candidate"}
    SetTo = {"Retired"}
    MaxBranch = 2
    Subjects = {1}
    MaxLocal = 2
    MaxTotal = 3
    e1 = e1
    e2 = e2
    s1 = s1
    unknown = unknown
    Schemas = {s1}
    EventsIn <- MCEventsIn
    Valid <- MCValid
    ScanBudget = 2
    MaxLog = 4
    MaxEvent = 4
    Reregister = FALSE
    FieldLists <- MCFieldLists
    MutationsIn <- MCMutations
    Versions = {0, 1}
    NoiseCells = {0, 1, 5, 9}
    MaxFields = 2
    MaxText = 2
    MaxPayload = 20
    MaxDamage = 1
    Cadences = {"Fast", "Slow"}
    Stamped <- MCStamped
    Modes = {"LegacyOnly", "TemnionOnly"}
    MirrorCapacity = 2
    MaxTick = 2
    MaxEnqueued = 3
    MaxAppends = 2
    MaxBackups = 2
INVARIANTS
    AckedDurable
    SingleWriter
    MemoryMatchesFile
    AlwaysRecoverable
    TimelinesAgree
    InheritedPastIsFixed
    ReplayIsExact
    CausesAndEffectsAgree
    SortIsTopological
    PayloadsAreCanonical
    MirrorAccountsForAll
    ActionsTrace
    RestoredIsComplete
PROPERTY
    ImplementsDurableLog
SYMMETRY Symmetry
CHECK_DEADLOCK FALSE
