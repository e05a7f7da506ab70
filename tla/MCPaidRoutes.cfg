SPECIFICATION Spec
CONSTANTS
    c1 = c1
    c2 = c2
    Clients <- MCClients
    RateMax = 1
    LastVersion = 2
SYMMETRY MCSymmetry
INVARIANTS
    EstablishedBeforePayment
    ResultsAreMeant
PROPERTIES
    KeepsLedger
