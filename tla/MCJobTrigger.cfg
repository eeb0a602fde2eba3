SPECIFICATION Spec
CONSTANTS
    MissedCap = 3
    LastInstant = 5
CHECK_DEADLOCK FALSE
INVARIANTS
    CronNextIsFirstInWindow
    MissedCountsTheDueInstants
