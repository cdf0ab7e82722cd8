SPECIFICATION Spec
CONSTANTS
    Process = {p1, p2}
    MaxEvents = 2
    Window = 2
    PingBound = 4
    MaxTime = 5
    None = None
INVARIANTS
    TypeOK
    WindowHolds
    NothingForgotten
CHECK_DEADLOCK FALSE
