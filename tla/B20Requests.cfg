SPECIFICATION Spec
CONSTANTS
    None = None
    Callers = {c1, c2}
    Keys = {k1}
    Amounts = {1, 2}
    Start = 900
    Tick = 300
    MaxTime = 1500
    MaxEvents = 1
    MaxReceipts = 2
    Delays = {600, 1500}
    Confirmations = 1
    Grace = 300
    GuardWindow = 1200
    Ttl = 600
    MaxReverification = 300
    Setups <- MCSetups
SYMMETRY MCSymmetry
INVARIANTS
    AnsweredAsAsked
    OneExecution
    AllowMeansPermitted
    ExecutedOnRecentAllow
    ActivationIsFar
    OffChainAgrees
PROPERTY
    ImplementsOneOutcome
