\* One replica and two administrators who edit, delete and restore.
SPECIFICATION Spec
CONSTANTS
    MissedCap = 3
    n1 = n1
    n2 = n2
    a1 = a1
    a2 = a2
    Node = {n1}
    Skew <- NoSkew
    Admin = {a1, a2}
    AdminOps = {"update", "delete", "restore"}
    Triggers <- CronOrOver
    InitTriggers <- CronOnly
    LeaseSeconds = 1
    ReloadSeconds = 1
    MisfireThreshold = 1
    MisfireSkip = FALSE
    MaxConcurrentRuns = 1
    MaxTime = 1
    CrashBefore = 0
SYMMETRY Admins
INVARIANTS
    StoppedJobIsDisarmed
PROPERTIES
    ClaimsAreNotUncounted
    DeletedStaysDeleted
