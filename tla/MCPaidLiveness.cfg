SPECIFICATION FairSpec
CONSTANTS
    c1 = c1
    c2 = c2
    Clients <- MCOneClient
    RateMax = 1
    LastVersion = 2
PROPERTIES
    PaidIsAnswered
