\* Three processes, holders of any slowness, two crashes.
CONSTANTS
    Procs = {p1, p2, p3}
    Timeout = 1
    StaleAfter = 2
    MaxCrashes = 2
SPECIFICATION FairSpec
INVARIANTS
    MutexUntilCrash
    OneRightfulHolder
PROPERTIES
    AbandonedFileGoes
