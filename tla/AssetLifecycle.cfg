SPECIFICATION Spec
CONSTANTS
    Absent = Absent
    None = None
    good = good
    foreign = foreign
    other = other
    Token = Token
    Workers = {"w1","w2"}
    Wrappers = {good}
    AssetOf <- MCAssetOf
    ChainViews <- MCPending
    ApiViews <- MCEarlyOrLate
    Horizon = 1
    MaxResolutions = 1
    FailureSets = {{}, {"activation"}}
    GuardBefore = 0
    GuardAfter = 0
INVARIANT
    ReviewIsRecorded
PROPERTIES
    RecoveryIsObserved
    AllowIsCurrent
