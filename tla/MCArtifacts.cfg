SPECIFICATION MCSpec
CONSTANTS
    k1 = k1
    k2 = k2
    k3 = k3
    k4 = k4
    k5 = k5
    us = us
    them = them
    s1 = s1
    Keys = {k1, k2, k3, k4, k5}
    Signers = {k1, k2}
    Times <- MCTimes
    Skew = 1
    None = None
    Payloads <- MCPayloads
    Held <- MCHeld
    Policies <- MCPolicies
    MaxNow = 3
    MaxPasses = 1
    MaxSigned = 2
    Issuers = {i1, i2}
    Makers = {k4, k5}
    Statements = {s1, s2}
    Expected = None
    Contracts = {"claim", "receipt", "other"}
    MaxTime = 2
    MaxSignedArtifacts = 2
    MaxAltered = 2
SYMMETRY MakerSymmetry
CHECK_DEADLOCK FALSE
INVARIANTS
    VerdictIsBacked
    ArtifactIsSpoken
PROPERTIES
    VerdictFollowsTrust
    ArtifactLasts
