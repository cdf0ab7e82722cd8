SPECIFICATION Spec
CONSTANTS
    Process = {p, q}
    Client = {c}
    AcceptMayFail = FALSE
    None = None
INVARIANTS
    OnlyOneRuns
CHECK_DEADLOCK FALSE
