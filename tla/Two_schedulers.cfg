SPECIFICATION Spec
CONSTANTS
    Process = {p1, p2}
    Entry <- LastRunEntry
    MaxEntries = 6
    MayCrash = FALSE
    MayReset = FALSE
    None = None
    SuccessPeriod = 2
    NeutralPeriod = 1
    FailurePeriod = 1
    MaxFailures = 2
    Policies = {"stall"}
    JobOutcomes = {"success", "failure"}
    MayForce = FALSE
    MaxTime = 3
PROPERTIES
    NoEarlyRun
CHECK_DEADLOCK FALSE
