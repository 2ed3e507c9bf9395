\* Two overlapping checks, two share classes of one company, three disclosures
\* over three days, a seen list of two, a history of one, no fault.
CONSTANTS
    Checkers = {c1, c2}
    Tickers = {t1, t2}
    Company <- SharedCompany
    Issuer <- OneIssuer
    PublishedOn <- FirstTwoTogether
    Score <- SecondMinor
    MinScore = 80
    MaxPerTicker = 2
    SeenLimit = 2
    HistoryLimit = 1
    Lookback = 1
    LastDay = 2
    Explicit = {{t1}}
    MaxFaults = 0
SPECIFICATION Spec
SYMMETRY Symmetry
CHECK_DEADLOCK FALSE
INVARIANTS
    NothingLost
    OnceWhileHistoryLasts
    TwiceOnlyIfPassedOver
