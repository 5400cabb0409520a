SPECIFICATION Spec
CONSTANTS
    r1 = r1
    r2 = r2
    Refs = {r1}
    InvalidRefs = {}
    Workers = {w1}
    FaultKinds = {"redis"}
    MaxFaults = 1
    MaxPushes = 1
INVARIANT SkippedMeansDelivered
CHECK_DEADLOCK FALSE
