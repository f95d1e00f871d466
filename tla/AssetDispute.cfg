SPECIFICATION FairSpec
CONSTANTS
    Absent = Absent
    None = None
    good = good
    foreign = foreign
    other = other
    Token = Token
    Workers = {"w1"}
    Wrappers = {good, foreign}
    AssetOf <- MCAssetOf
    ChainViews <- MCChainViews
    ApiViews <- MCApiViews
    Horizon = 0
    MaxResolutions = 1
    FailureSets = {{}, {"activation"}}
    GuardBefore = 0
    GuardAfter = 0
PROPERTIES
    DisagreementIsReviewed
    DisputeSettles
