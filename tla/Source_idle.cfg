CONSTANTS
    MaxHeaders = 1
    MaxRecords = 6
    MaxAttempts = 2
SPECIFICATION SourceSpec
INVARIANT MarkedTurnsAreFinished
CHECK_DEADLOCK FALSE
