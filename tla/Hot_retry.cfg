SPECIFICATION Spec
CONSTANTS
    Process = {p1}
    Entry <- LastRunEntry
    MaxEntries = 12
    MayCrash = FALSE
    MayReset = FALSE
    None = None
    SuccessPeriod = 2
    NeutralPeriod = 1
    FailurePeriod = 1
    MaxFailures = 1
    Policies = {"success_schedule"}
    JobOutcomes = {"success", "failure"}
    MayForce = FALSE
    MaxTime = 8
PROPERTIES
    FailurePeriodKept
CHECK_DEADLOCK FALSE
