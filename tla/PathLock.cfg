SPECIFICATION FairSpec
CONSTANTS
    a1 = a1
    a2 = a2
    b1 = b1
    b2 = b2
    ProcA = ProcA
    ProcB = ProcB
    Thread <- MCThread
    Process <- MCProcess
    ProcessOf <- MCProcessOf
    Object = {o1, o2, o3}
    MaxNesting = 3
    None = None
INVARIANTS
    TypeOK
    NoSelfDeadlock
    OneObjectPerProcess
PROPERTIES
    IsMutex
    LockIsPassedOn
CHECK_DEADLOCK FALSE
