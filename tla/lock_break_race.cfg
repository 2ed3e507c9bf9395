\* Two processes, one crash: breaking a stale lock races.
CONSTANTS
    Procs = {p1, p2}
    Timeout = 1
    StaleAfter = 2
    MaxCrashes = 1
SPECIFICATION Spec
INVARIANTS
    Mutex
