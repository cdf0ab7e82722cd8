SPECIFICATION Spec
CONSTANTS
    None = None
    MaxRuns = 1
    SleepsBetweenRuns = TRUE
    RunCountCap = 1
INVARIANTS
    AcceptedRunNowIsNotDropped
CHECK_DEADLOCK FALSE
