SPECIFICATION Spec
CONSTANTS
    Nil = Nil
    MaxParams = 3
    Requests <- AllLists
INVARIANTS
    TypeOK
    ParametersArrive
    RoundTrip
CHECK_DEADLOCK FALSE
