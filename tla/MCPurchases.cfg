SPECIFICATION MCSpec
CONSTANTS
    Clients = {c1, c2}
    Attestations = {a1, a2}
    Calls = {c1, c2}
    LastVersion = 2
INVARIANTS
    ChainAgrees
    CallsAreSound
PROPERTIES
    KeepsLedger
    AnchoringEnds
    McpPurchasesEnd
