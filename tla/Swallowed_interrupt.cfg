SPECIFICATION FairScheduledSpec
CONSTANTS
    None = None
    MaxRuns = None
    SleepsBetweenRuns = TRUE
    RunCountCap = 1
    SuccessPeriod = 1
    NeutralPeriod = 0
    FailurePeriod = 0
    MaxFailures = 1
    MaxEntries = 2
    Policies = {"stall"}
    JobOutcomes = {"success", "failure"}
    MaxTime = 2
    MaxFaults = 1
PROPERTIES
    InterruptStops
CHECK_DEADLOCK FALSE
