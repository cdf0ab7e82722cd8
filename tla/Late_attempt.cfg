SPECIFICATION Spec
CONSTANTS
    None = None
    MaxRuns = None
    SleepsBetweenRuns = TRUE
    RunCountCap = 2
INVARIANTS
    NoAttemptAfterQuit
CHECK_DEADLOCK FALSE
