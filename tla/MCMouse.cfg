SPECIFICATION MouseSpec
CONSTANTS
    START_X = 2
    START_Y = 2
    Flags <- MCFlags
    Data <- MCData
    MaxX = 2
    MaxLost = 2
INVARIANTS Resync
PROPERTIES Follows NeverDescends
CHECK_DEADLOCK FALSE
