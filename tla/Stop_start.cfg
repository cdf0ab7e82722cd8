SPECIFICATION Spec
CONSTANTS
    Process = {p, q}
    Client = {c}
    AcceptMayFail = FALSE
    None = None
PROPERTIES
    UnlinksItsOwn
CHECK_DEADLOCK FALSE
