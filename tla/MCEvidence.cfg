SPECIFICATION MCSpec
CONSTANTS
    Nodes = {n1, n2, n3, n4}
    Times <- MCTimes
    Terms <- MCTerms
    Effects <- MCEffects
    MaxRecords = 8
    Digests = {d1, d2}
    Cap <- MCCap
    None = None
    Dids = {p1, p2}
    Expires = 1
    ClaimBy = 1
    RefundAfter = 2
    MaxTime = 2
    MaxRead = 5
    NoContract = NoContract
CHECK_DEADLOCK FALSE
INVARIANTS
    WalkIsRight
    AcceptedHangsTogether
PROPERTIES
    Ends
    TranscriptIsSaid
