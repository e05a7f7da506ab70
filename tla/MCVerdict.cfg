SPECIFICATION FairSpec
CONSTANTS
    MaxFound = 5
    MaxToScreen = 4
    Concurrency = 3
    LastVersion = 2
INVARIANTS
    WorkIsCounted
    DecisionIsEarned
PROPERTIES
    Concludes
