SPECIFICATION FairSpec
CONSTANTS
    None = None
    Seed = 1
    Values = {2}
    MaxBlock = 3
    MaxHashes = 4
    Unseen = FALSE
    Lookback = 2
    MaxWidth = 2
    GuardWindow = 1
    FlawSets <- MCFlawSets
INVARIANTS
    DerivedFollowsChain
    ReferenceAgrees
    VerifiedIsComplete
PROPERTIES
    WindowIsHeld
    CatchesUp
