SPECIFICATION Spec
CONSTANTS
    ExitCodes = {0, 1}
    None = None
    Blank = Blank
    Text = Text
INVARIANTS
    WorkStartsConfigured
    OutcomesAreTold
CHECK_DEADLOCK FALSE
