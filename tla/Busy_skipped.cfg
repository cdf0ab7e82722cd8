SPECIFICATION Spec
CONSTANTS
    None = None
    MaxRuns = None
    SleepsBetweenRuns = TRUE
    RunCountCap = 2
PROPERTIES
    BusyMeansRunning
CHECK_DEADLOCK FALSE
