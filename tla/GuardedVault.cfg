SPECIFICATION Spec
CONSTANTS
    alice = alice
    bob = bob
    Vault = Vault
    k1 = k1
    k2 = k2
    r1 = r1
    r2 = r2
    Accounts = {alice, bob}
    FaucetLimit = 1
    InitialBalance = 1
    HolderAmounts = {1}
    ReceiptIds = {r1, r2}
    Signers = {k1, k2}
    Operations <- MCOperations
    GuardWindows <- MCGuardWindows
    DeployedWindow <- MCDeployedWindow
    Signable <- MCSignable
    MaxAdmin = 1
    Horizon = 2
    MaxNonce = 1
INVARIANTS
    Solvent
    OwedByReceipts
PROPERTIES
    OnlyOwnerDebited
