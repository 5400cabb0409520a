SPECIFICATION FairSpec
CONSTANTS
    x1 = x1
    x2 = x2
    k1 = k1
    Withdrawals = {x1, x2}
    Toko = {k1}
    TokoOf <- OneToko
    CallbackToko = {k1}
    Workers = {w1}
    Terms <- SmallTerms
    Notes = {"fees", "empty", "malformed"}
    Amounts = {40}
    InitialSettle <- Funds
    MaxMoney = 1000
    FaultKinds = {"redis", "db", "crash"}
    MaxFaults = 1
    MaxWebhooks = 2
INVARIANTS
    TypeOK
    EscrowConserved
    CallbackTellsOutcome
PROPERTIES
    IdealEscrowLedger
    VerdictIsApplied
CHECK_DEADLOCK FALSE
