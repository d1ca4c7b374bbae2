SPECIFICATION Spec
CONSTANTS
    MaxSize = 5
    Buffer = 2
    MaxFaults = 2
    MaxResizes = 2
INVARIANTS
    TypeOK
    HelperAliveInCallback
    HelperFreed
    SuccessIsComplete
CHECK_DEADLOCK FALSE
