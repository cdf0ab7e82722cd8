SPECIFICATION FairSpec
CONSTANTS
    Process = {p, q}
    Client = {c}
    AcceptMayFail = TRUE
    None = None
PROPERTIES
    AcceptsUntilStopped
CHECK_DEADLOCK FALSE
