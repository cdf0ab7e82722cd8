SPECIFICATION Spec
CONSTANTS
    Process = {p1}
    Entry <- LastRunEntry
    MaxEntries = 5
    MayCrash = TRUE
    MayReset = TRUE
    None = None
    SuccessPeriod = 2
    NeutralPeriod = 1
    FailurePeriod = 0
    MaxFailures = 2
    Policies = {"ignore", "stall", "success_schedule"}
    JobOutcomes = {"success", "neutral", "failure"}
    MayForce = TRUE
    MaxTime = 3
INVARIANTS
    TypeOK
    HistoryAlternates
PROPERTIES
    DecisionFollowsTruth
CHECK_DEADLOCK FALSE
