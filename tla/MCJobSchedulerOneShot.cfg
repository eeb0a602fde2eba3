\* A one-shot job and a stalled former leader; the clocks agree.
SPECIFICATION Spec
CONSTANTS
    MissedCap = 3
    n1 = n1
    n2 = n2
    a1 = a1
    a2 = a2
    Node = {n1, n2}
    Skew <- NoSkew
    Admin = {}
    AdminOps = {}
    Triggers <- OnceOnly
    InitTriggers <- OnceOnly
    LeaseSeconds = 1
    ReloadSeconds = 1
    MisfireThreshold = 1
    MisfireSkip = FALSE
    MaxConcurrentRuns = 1
    MaxTime = 5
    CrashBefore = 0
INVARIANTS
    AtMostOnce
