SPECIFICATION Spec
CONSTANTS
    t1 = t1
    t2 = t2
    c1 = c1
    c2 = c2
    c3 = c3
    r1 = r1
    r2 = r2
    Words = {"blank", "en", "ana", "bo"}
    Size <- MCSize
    NameTexts <- Names
    CodeTexts <- Provider
    Numbers = {0, 1, 2}
    English <- En
    Missing = Missing
    Rejected = Rejected
    Unreachable = Unreachable
    Absent = Absent
    Malformed = Malformed
    Invalid = Invalid
    MaxMoney = 8
    Toko = {t1, t2}
    Codes = {c1, c2, c3}
    Requests = {r1, r2}
    Wallet <- Numbered
    InitialPlayers <- Old
    NewPlayers <- New
    Ttl = 2
    Groups <- LaunchOnly
    FaultKinds = {"lost", "empty", "absent", "malformed", "nameless", "broken"}
    MaxCalls = 2
    MaxEdits = 1
    MaxFaults = 1
INVARIANT LaunchAnswered
CHECK_DEADLOCK FALSE
