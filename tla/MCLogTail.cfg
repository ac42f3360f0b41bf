CONSTANTS
    File = {1}
    Excluded = {}
    MaxLines = 2
    MaxTime = 1
    MaxRotations = 1
    MaxResets = 1
    MaxAsserts = 2
    MaxFailures = 1
SPECIFICATION LogSpec
INVARIANTS
    LogTypeOK
    ReadInOrder
    NothingLost
    TakenOnceByPosition
PROPERTY LinesAreRead
CHECK_DEADLOCK FALSE
