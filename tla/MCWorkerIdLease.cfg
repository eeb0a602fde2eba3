\* A configured process and one that scans, and one worker id for both.
SPECIFICATION FairSpec
CONSTANTS
    p1 = p1
    p2 = p2
    Proc = {p1, p2}
    Machine <- OneMachine
    LastSlot = 0
    Fixed <- Mixed
    LeaseTtl = 3
    Second = 2
    MaxLockConflictAttempts = 2
    MaxTime = 3
    FailBefore = 1
INVARIANTS
    TypeOK
    ExclusiveWorkerId
PROPERTIES
    ImplementsOwnership
    SuspensionEnds
CHECK_DEADLOCK FALSE
