SPECIFICATION Spec
CONSTANTS
    Process = {p1, p2}
    MinimumPeriod = 2
    FileExists = FALSE
    MayPing = FALSE
    MayCrash = FALSE
    MaxTime = 2
    None = None
PROPERTIES
    DenialIsGrounded
CHECK_DEADLOCK FALSE
