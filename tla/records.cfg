CONSTANTS
    MaxEntries = 2
    NSame = 1
    NCross = 1
    Horizons = {1}
    Keys <- KeysMC
    StockDays <- StockDaysMC
    BenchDays <- BenchDaysMC
    Procs = {p1, p2}
    Operators = {p2}
    HoldDays = 1
    ResolveLimit = 2
    Checkpoints = TRUE
    PriorLog <- PriorLogMC
    FirstDay = 2
    LastDay = 3
    MaxRuns = 2
    MaxFaults = 1
SPECIFICATION FairSpec
CHECK_DEADLOCK FALSE
INVARIANTS
    LogWellFormed
    ContextIsLatest
    LoggedIsRecorded
    PointsMatchSnapshots
PROPERTIES
    PendingSurvives
    SnapshotsFixed
    EventuallyMeasured
