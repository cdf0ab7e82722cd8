SPECIFICATION HistSpec
CONSTANTS
    Process = {p1, p2, p3}
    Entry = {e1, e2}
    MaxEntries = 2
    MayCrash = TRUE
    MayReset = TRUE
    None = None
PROPERTIES
    IsLossyLog
SYMMETRY Symmetry
CHECK_DEADLOCK FALSE
