\* One check at a time, no fault, one disclosure per request, two reachable.
CONSTANTS
    Checkers = {c1}
    Tickers = {t1}
    Company <- SharedCompany
    Issuer <- OneIssuer
    PublishedOn <- OneEachDay
    Score <- AllImportant
    MinScore = 80
    MaxPerTicker = 1
    SeenLimit = 2
    HistoryLimit = 1
    Lookback = 1
    LastDay = 2
    Explicit = {}
    MaxFaults = 0
SPECIFICATION Spec
CHECK_DEADLOCK FALSE
INVARIANT DuplicatesPrevented
