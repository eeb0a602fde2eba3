\* One process: scheduled and manual fires of two jobs, failures, a stop.
SPECIFICATION Spec
CONSTANTS
    n1 = n1
    n2 = n2
    serial = serial
    parallel = parallel
    Node <- OneNode
    Scheduling <- OneNode
    Job <- TwoJobs
    SerialSkip <- OneJob
    MaxConcurrentRuns = 2
    RetryCount = 0
    FailAlertThreshold = 1
    HeartbeatSeconds = 1
    LeaseSeconds = 3
    Events = {"manual", "enable", "stop"}
    MaxFires = 3
    MaxTime = 0
    CrashBefore = 1
    MaxRestarts = 1
INVARIANTS
    WithinCapacity
    OneRunPerNode
    AlertOnce
    OrderlyStopClosesItsRuns
