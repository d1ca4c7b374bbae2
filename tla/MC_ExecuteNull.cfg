SPECIFICATION Spec
CONSTANTS
    Nil = Nil
    MaxParams = 2
    Requests <- NullLists
INVARIANT
    EveryValueArrives
CHECK_DEADLOCK FALSE
