SPECIFICATION FairSpec
CONSTANTS
    r1 = r1
    r2 = r2
    c1 = c1
    s1 = s1
    NoCaptcha = NoCaptcha
    Scopes = {"minute", "hour"}
    Limit <- Limits
    Window <- Windows
    Routes <- Passes
    Captchas = {c1}
    Sids = {s1}
    Requests = {r1, r2}
    FaultKinds = {"redis", "crash"}
    MaxFaults = 1
INVARIANTS
    TypeOK
    WithinLimit
    OneAnswerPerCaptcha
PROPERTIES
    ClosedStaysClosed
    LockoutEnds
CHECK_DEADLOCK FALSE
