SPECIFICATION Spec
CONSTANTS
    None = None
    MaxRuns = 1
    SleepsBetweenRuns = TRUE
    RunCountCap = 1
PROPERTIES
    StoppedIsFinal
CHECK_DEADLOCK FALSE
