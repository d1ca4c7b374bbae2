SPECIFICATION FairSpec
CONSTANTS
    t1 = t1
    t2 = t2
    Actor = Actor
    Tasks = {t1, t2}
    Rows <- TwoRows
    Columns = 2
    Params = 1
    Binds <- BindValues
    Int32Max = 3
    MaxCalls = 3
    MaxCommands = 1
    MaxFaults = 1
INVARIANTS
    TypeOK
    ValuesOfCurrentRows
    ParametersAsGiven
PROPERTY
    MethodsReturn
CHECK_DEADLOCK FALSE
