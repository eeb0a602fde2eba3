\* Two replicas whose clocks disagree, nobody edits the job.
SPECIFICATION Spec
CONSTANTS
    MissedCap = 3
    n1 = n1
    n2 = n2
    a1 = a1
    a2 = a2
    Node = {n1, n2}
    Skew <- Drifted
    Admin = {}
    AdminOps = {}
    Triggers <- CronOrInterval
    InitTriggers <- CronOrInterval
    LeaseSeconds = 1
    ReloadSeconds = 2
    MisfireThreshold = 1
    MisfireSkip = FALSE
    MaxConcurrentRuns = 1
    MaxTime = 4
    CrashBefore = 3
INVARIANTS
    TypeOK
    AtMostOnce
    NextIsFresh
    LeaseExcludesOthers
