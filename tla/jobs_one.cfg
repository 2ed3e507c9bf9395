\* One service with two worker threads; one key or none, two payloads, three jobs,
\* a queue of two, one ended row kept, one stop, one store error.
CONSTANTS
    Services = {s1}
    Threads = {t1, t2}
    Keys = {k1}
    NoKey = NoKey
    Requests = {r1, r2}
    MaxPending = 2
    MaxTerminal = 1
    MaxJobs = 3
    MaxStops = 1
    MaxFaults = 1
SPECIFICATION Spec
SYMMETRY Symmetry
CHECK_DEADLOCK FALSE
INVARIANTS
    TypeOK
    PendingBound
    UniqueLiveKey
    ReplyNamesRequest
    NothingStranded
    NoJobLost
