\* Two processes with a budget; the date may be a second old, midnight at 2.
CONSTANTS
    Procs = {p1, p2}
    Limited = {}
    Budgeted = {p1, p2}
    MaxRuns = 1
    Window = 1
    Limit = 2
    Amounts = {1, 2}
    DayLength = 2
    MaxWait = 1
    MaxTime = 3
    MaxAdmits = 0
    MaxFaults = 0
SPECIFICATION Spec
CHECK_DEADLOCK FALSE
INVARIANTS
    BudgetHolds
