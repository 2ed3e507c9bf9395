\* Two services on one job database, one worker thread each; two jobs without
\* keys, one stop.
CONSTANTS
    Services = {s1, s2}
    Threads = {t1}
    Keys = {}
    NoKey = NoKey
    Requests = {r1}
    MaxPending = 2
    MaxTerminal = 1
    MaxJobs = 2
    MaxStops = 1
    MaxFaults = 0
SPECIFICATION FairSpec
CHECK_DEADLOCK FALSE
INVARIANTS
    RunsBounded
PROPERTIES
    TerminalFinal
    ImplementsLedger
    EveryJobEnds
