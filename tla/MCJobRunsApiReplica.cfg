\* A replica that does not schedule runs a job by hand.
SPECIFICATION Spec
CONSTANTS
    n1 = n1
    n2 = n2
    serial = serial
    parallel = parallel
    Node <- TwoNodes
    Scheduling <- OneNode
    Job <- OneJob
    SerialSkip <- OneJob
    MaxConcurrentRuns = 1
    RetryCount = 0
    FailAlertThreshold = 2
    HeartbeatSeconds = 1
    LeaseSeconds = 3
    Events = {"manual"}
    MaxFires = 1
    MaxTime = 8
    CrashBefore = 0
    MaxRestarts = 1
INVARIANTS
    ApiReplicaRunsStayOpen
