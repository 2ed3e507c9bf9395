\* One process with both controls, one with the limiter, one with the budget; a
\* clock reading may be a second old when its lock is free; midnights at 2 and 4.
CONSTANTS
    Procs = {p1, p2, p3}
    Limited = {p1, p2}
    Budgeted = {p2, p3}
    MaxRuns = 1
    Window = 2
    Limit = 2
    Amounts = {1, 2}
    DayLength = 2
    MaxWait = 1
    MaxTime = 4
    MaxAdmits = 3
    MaxFaults = 1
SPECIFICATION Spec
CHECK_DEADLOCK FALSE
INVARIANTS
    RateHoldsUpToWait
    RefusalsLeaveNoSlot
    BudgetHoldsUntilLate
