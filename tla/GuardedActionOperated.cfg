SPECIFICATION Spec
CONSTANTS
    alice = alice
    Vault = Vault
    None = None
    Absent = Absent
    key = key
    r1 = r1
    Accounts = {alice}
    FaucetLimit = 1
    InitialBalance = 1
    HolderAmounts = {1}
    ReceiptIds = {r1}
    Signers = {key}
    ApiSigner = key
    Operations <- MCOperations
    GuardWindows <- MCGuardWindows
    DeployedWindow <- MCDeployedWindow
    MaxAdmin = 1
    Horizon = 3
    MaxNonce = 1
    ApiMaxAge = 2
    ChainMaxAge = 2
    FutureSlack = 0
    FailureSets = {{}}
    FreeIntents = FALSE
    GuardBefore = 2
    GuardAfter = 1
    Lifetime = 2
    Skew = 0
INVARIANT
    AtMostOnce
