\* Progress across the death of the leader and an administrator who enables
\* the job again after a panic.
SPECIFICATION FairSpec
CONSTANTS
    MissedCap = 3
    n1 = n1
    n2 = n2
    a1 = a1
    a2 = a2
    Node = {n1, n2}
    Skew <- NoSkew
    Admin = {a1}
    AdminOps = {"enable"}
    Triggers <- CronOnly
    InitTriggers <- CronOnly
    LeaseSeconds = 1
    ReloadSeconds = 1
    MisfireThreshold = 1
    MisfireSkip = FALSE
    MaxConcurrentRuns = 1
    MaxTime = 3
    CrashBefore = 1
PROPERTIES
    DueIsClaimed
