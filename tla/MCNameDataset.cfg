SPECIFICATION MCSpec
CONSTANTS
    c1 = c1
    c2 = c2
    Callers <- MCCallers
    Sizes <- MCSizes
    RefreshAfter = 4
    RetryAfter = 3
    MaxAge = 5
    FetchTimeout = 2
    Forever = 8
    MaxEnt = 3
    MinSdn = 2
    MinAlt = 1
    MaxReduction = 34
    MaxOrphans = 34
INVARIANTS
    IInv
PROPERTIES
    ListInDate
    RefreshDiscipline
    RefusalsEnd
    PairIsWhole
