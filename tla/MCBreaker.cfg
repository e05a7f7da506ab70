SPECIFICATION FairSpec
CONSTANTS
    c1 = c1
    c2 = c2
    c3 = c3
    Callers <- MCCallers
    TTL = 2
    Timeout = 1
    Cooldown = 3
    Threshold = 3
    Forever = 4
INVARIANTS
    IInv
PROPERTIES
    NoHammering
    AnswersAreRecent
    ChangesNoticed
