SPECIFICATION FairSpec
CONSTANTS
    k1 = k1
    k2 = k2
    c1 = c1
    c2 = c2
    r1 = r1
    r2 = r2
    NoOne = NoOne
    Toko = {k1, k2}
    Names = {n1}
    Codes = {c1, c2}
    Requests = {r1, r2}
    Amounts = {1}
    GameResults = {0, 2}
    InitialBalance <- Funds
    ResetScopes = {"single", "all", "both"}
    FaultKinds = {"upstream", "db", "crash"}
    MaxFaults = 1
    MaxStarts = 4
INVARIANTS
    TypeOK
    BalanceStaysPositive
    OnePlayerPerName
    PlayersExist
    BookedIsDone
    BalanceExplained
    NothingStranded
PROPERTY RequestEnds
CHECK_DEADLOCK FALSE
