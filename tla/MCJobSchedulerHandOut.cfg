\* Two replicas and one administrator who edits, pauses and enables.
SPECIFICATION Spec
CONSTANTS
    MissedCap = 3
    n1 = n1
    n2 = n2
    a1 = a1
    a2 = a2
    Node = {n1, n2}
    Skew <- NoSkew
    Admin = {a1}
    AdminOps = {"update", "enable", "pause"}
    Triggers <- CronOnly
    InitTriggers <- CronOnly
    LeaseSeconds = 1
    ReloadSeconds = 1
    MisfireThreshold = 1
    MisfireSkip = FALSE
    MaxConcurrentRuns = 1
    MaxTime = 2
    CrashBefore = 0
SYMMETRY Nodes
PROPERTIES
    HandsOutOnce
