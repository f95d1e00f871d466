SPECIFICATION FairSpec
CONSTANTS
    r1 = r1
    r2 = r2
    a1 = a1
    a2 = a2
    b1 = b1
    None = None
    Receipts = {r1, r2}
    Logs = {a1, a2, b1}
    ReceiptOf <- MCReceiptOf
    Depth = 1
    Deployment = 2
    MaxRange = 1
    MaxHeight = 4
    MaxBranches = 2
    MaxFailures = 1
    Relocation = FALSE
    TornReads = FALSE
INVARIANTS
    FollowsChain
    RebuildInventsNothing
PROPERTY
    CatchesUp
