SPECIFICATION Spec
CONSTANTS
    None = None
    Issuance = Issuance
    Holders = {h1, h2}
    RawAmounts = {3}
    Multipliers = {2, 6}
    Wad = 4
    MaxRaw = 100
    MaxProduct = 10000
    Total = 7
    MaxFacts = 3
    MaxDeliveries = 4
    MaxMistakes = 1
SYMMETRY MCSymmetry
INVARIANTS
    LedgerFollowsChain
    ValueIsWhole
    RoutesReconcile
PROPERTIES
    PastIsFixed
CHECK_DEADLOCK FALSE
