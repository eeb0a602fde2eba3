\* A process that dies, comes back under the same name and closes what it left.
SPECIFICATION FairSpec
CONSTANTS
    n1 = n1
    n2 = n2
    serial = serial
    parallel = parallel
    Node <- OneNode
    Scheduling <- OneNode
    Job <- OneJob
    SerialSkip <- OneJob
    MaxConcurrentRuns = 1
    RetryCount = 1
    FailAlertThreshold = 2
    HeartbeatSeconds = 1
    LeaseSeconds = 3
    Events = {"crash", "kill", "timeout", "closeFails"}
    MaxFires = 1
    MaxTime = 7
    CrashBefore = 1
    MaxRestarts = 1
INVARIANTS
    TypeOK
    LiveRunIsOpen
PROPERTIES
    EveryRunCloses
