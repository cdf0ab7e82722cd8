SPECIFICATION Spec
CONSTANTS
    Process = {p1}
    Entry <- LastRunEntry
    MaxEntries = 6
    MayCrash = TRUE
    MayReset = FALSE
    None = None
    SuccessPeriod = 2
    NeutralPeriod = 1
    FailurePeriod = 1
    MaxFailures = 2
    Policies = {"stall"}
    JobOutcomes = {"success", "failure"}
    MayForce = FALSE
    MaxTime = 3
PROPERTIES
    NoEarlyRun
CHECK_DEADLOCK FALSE
