CONSTANTS
    File = {1, 2}
    Excluded = {}
    MaxLines = 2
    MaxTime = 0
    MaxRotations = 0
    MaxResets = 0
    MaxAsserts = 2
    MaxFailures = 0
SPECIFICATION LogSpec
INVARIANT NoneDropped
CHECK_DEADLOCK FALSE
