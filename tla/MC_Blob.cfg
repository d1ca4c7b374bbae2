SPECIFICATION FairSpec
CONSTANTS
    r1 = r1
    r2 = r2
    main = main
    other = other
    Schemas = {main}
    DefaultSchema = main
    RowIds = {r1, r2}
    Requests <- AllCalls
    Contents <- SmallContents
    MaxFaults = 1
    MaxOthers = 1
    Lengths = {0, 1, 3}
    MaxRows = 2
    Threshold = 1
    Chunk = 2
INVARIANTS
    TypeOK
    RowsInOrder
    ReadIsSnapshot
    UpdateThrowsForACause
    HandleIsClosed
PROPERTIES
    Returns
    UpdateSpec
    NoStepBack
CHECK_DEADLOCK FALSE
