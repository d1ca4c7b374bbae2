SPECIFICATION Spec
CONSTANTS
    r1 = r1
    r2 = r2
    main = main
    other = other
    Schemas = {main}
    DefaultSchema = main
    RowIds = {r1}
    Requests <- DataCalls
    Contents <- SmallContents
    MaxFaults = 1
    MaxOthers = 0
    Lengths = {1, 3}
    MaxRows = 1
    Threshold = 1
    Chunk = 2
INVARIANT
    FailureThrows
CHECK_DEADLOCK FALSE
