SPECIFICATION Spec
CONSTANTS
    Process = {p1}
    Entry <- LastRunEntry
    MaxEntries = 4
    MayCrash = FALSE
    MayReset = FALSE
    None = None
    SuccessPeriod = 2
    NeutralPeriod = 1
    FailurePeriod = 0
    MaxFailures = 1
    Policies = {"success_schedule"}
    JobOutcomes = {"success", "failure"}
    MayForce = FALSE
    MaxTime = 6
PROPERTIES
    SuccessScheduleKept
CHECK_DEADLOCK FALSE
