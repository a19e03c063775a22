SPECIFICATION AccessSpec
CONSTANTS
    People = {p1}
    NoOne = none
    Tasks = {t1}
    CacheTTL = 1
    HandlerTime = 1
    MaxWrites = 2
INVARIANTS AccessTypeOK StaleIsExplained
PROPERTY VerdictsInTime
