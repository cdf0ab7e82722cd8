SPECIFICATION Spec
CONSTANTS
    Process = {p1}
    Entry <- LastRunEntry
    MaxEntries = 6
    MayCrash = FALSE
    MayReset = FALSE
    None = None
    SuccessPeriod = 2
    NeutralPeriod = 1
    FailurePeriod = 0
    MaxFailures = 2
    Policies = {"stall"}
    JobOutcomes = {"success", "failure"}
    MayForce = FALSE
    MaxTime = 4
PROPERTIES
    StallsOnlyAfterMore
CHECK_DEADLOCK FALSE
