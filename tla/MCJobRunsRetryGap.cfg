\* Two leaders in turn, a fire that waits for its retry.
SPECIFICATION Spec
CONSTANTS
    n1 = n1
    n2 = n2
    serial = serial
    parallel = parallel
    Node <- TwoNodes
    Scheduling <- TwoNodes
    Job <- OneJob
    SerialSkip <- OneJob
    MaxConcurrentRuns = 1
    RetryCount = 1
    FailAlertThreshold = 3
    HeartbeatSeconds = 1
    LeaseSeconds = 3
    Events = {}
    MaxFires = 2
    MaxTime = 1
    CrashBefore = 0
    MaxRestarts = 1
PROPERTIES
    RetryingFireIsSeen
