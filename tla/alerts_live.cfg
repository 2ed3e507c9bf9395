\* One checker, two share classes, any watchlist, one disclosure per request, two
\* reachable at a time over three days, one fault.
CONSTANTS
    Checkers = {c1}
    Tickers = {t1, t2}
    Company <- SharedCompany
    Issuer <- OneIssuer
    PublishedOn <- OneEachDay
    Score <- AllImportant
    MinScore = 80
    MaxPerTicker = 1
    SeenLimit = 2
    HistoryLimit = 1
    Lookback = 1
    LastDay = 2
    Explicit = {}
    MaxFaults = 1
SPECIFICATION FairSpec
CHECK_DEADLOCK FALSE
INVARIANTS
    NothingLost
PROPERTIES
    EventuallyClaimed
