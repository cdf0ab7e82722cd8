SPECIFICATION FairSpec
CONSTANTS
    None = None
    MaxRuns = 2
    SleepsBetweenRuns = TRUE
    RunCountCap = 2
INVARIANTS
    TypeOK
    NoLostWakeup
    JobIsVisible
    ForcedIsScoped
    MaxRunsRespected
    AtMostOneLateAttempt
PROPERTIES
    KeepsPromiseSafely
    RunNowNotDowngraded
    QuitClosesTheDoor
    MaxRunsEnd
CHECK_DEADLOCK FALSE
