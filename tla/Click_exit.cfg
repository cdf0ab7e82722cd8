SPECIFICATION Spec
CONSTANTS
    ExitCodes = {0, 1}
    None = None
    Blank = Blank
    Text = Text
INVARIANTS
    ClickExitsAreMapped
CHECK_DEADLOCK FALSE
