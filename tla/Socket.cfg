SPECIFICATION FairSpec
CONSTANTS
    Process = {p, q}
    Client = {c, d}
    AcceptMayFail = TRUE
    None = None
INVARIANTS
    TypeOK
    AnswersAreTrue
    ConnectionsAreKept
    RunningIsReachable
    NoSocketLeftBehind
PROPERTIES
    ConnectionsEnd
CHECK_DEADLOCK FALSE
