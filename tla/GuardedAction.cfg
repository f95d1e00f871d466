SPECIFICATION Spec
CONSTANTS
    alice = alice
    Vault = Vault
    None = None
    Absent = Absent
    key = key
    r1 = r1
    Accounts = {alice}
    FaucetLimit = 0
    InitialBalance = 2
    HolderAmounts = {}
    ReceiptIds = {r1}
    Signers = {key}
    ApiSigner = key
    Operations <- MCOperations
    GuardWindows <- MCGuardWindows
    DeployedWindow <- MCDeployedWindow
    MaxAdmin = 0
    Horizon = 3
    MaxNonce = 2
    ApiMaxAge = 2
    ChainMaxAge = 2
    FutureSlack = 0
    FailureSets <- MCFailureSets
    FreeIntents = FALSE
    GuardBefore = 2
    GuardAfter = 1
    Lifetime = 2
    Skew = 1
INVARIANTS
    IInv
    MatchIsARealState
    EpochSafety
PROPERTY
    ImplementsAuthorization
