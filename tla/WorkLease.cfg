SPECIFICATION LeaseFairSpec
CONSTANTS
    Workers = {w1, w2}
    TTL = 1
    MaxGrants = 3
    Nothing = Nothing
INVARIANT
    FencingInv
PROPERTIES
    OnlyNewestActs
    LeaseRecovers
