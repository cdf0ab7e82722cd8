SPECIFICATION BoundarySpec
CONSTANTS
    Process = {p1, p2, p3}
    MinimumPeriod = 2
    FileExists = TRUE
    MayPing = TRUE
    MayCrash = TRUE
    MaxTime = 4
    None = None
INVARIANTS
    BoundaryTypeOK
    PostsAreFew
PROPERTIES
    ActionsAreSpaced
    DenialIsGrounded
CHECK_DEADLOCK FALSE
