SPECIFICATION KeySpec
CONSTANTS
    Keys = {k1, k2, k3}
    FirstKey = k1
    Times <- MCTimes
    LastTime = 2
    Skew = 1
    None = None
CHECK_DEADLOCK FALSE
SYMMETRY LaterKeys
INVARIANTS
    UsableUnlessCondemnedEarly
    AttestationsStand
    VerifiersAgree
