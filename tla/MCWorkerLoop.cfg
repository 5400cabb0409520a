SPECIFICATION FairLoop
CONSTANTS
    r1 = r1
    r2 = r2
    r3 = r3
    Refs = {r1, r2, r3}
    InvalidRefs = {r2}
    Workers = {w1, w2}
    FaultKinds = {"redis", "client", "crash"}
    MaxFaults = 1
    MaxPushes = 2
    NoJob = NoJob
    ListOf <- Deposit
    Poisoned = {r3}
    MaxMishaps = 1
INVARIANTS
    LoopTypeOK
    OneSender
    PostsBounded
    GaveUpAfterAllPosts
    NoSilentDrop
PROPERTIES
    NoPostAfterDelivery
    EveryJobEnds
CHECK_DEADLOCK FALSE
