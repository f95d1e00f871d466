SPECIFICATION FairSpec
CONSTANTS
    first = first
    retry = retry
    other = other
    elsewhere = elsewhere
    k1 = k1
    k2 = k2
    h1 = h1
    h2 = h2
    None = None
    Attempts = {first,retry,other,elsewhere}
    Key <- MCKey
    Hash <- MCHash
    PoolSize = 5
INVARIANTS
    OneAnswerPerKey
    EveryReceiptJournaled
PROPERTY
    EveryRequestEnds
    ImplementsOneOutcome
