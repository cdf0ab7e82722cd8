SPECIFICATION Spec
CONSTANTS
    Process = {p1, p2}
    MinimumPeriod = 1
    FileExists = FALSE
    MayPing = FALSE
    MayCrash = FALSE
    MaxTime = 2
    None = None
PROPERTIES
    ActionsAreSpaced
CHECK_DEADLOCK FALSE
