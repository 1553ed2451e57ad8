SPECIFICATION LiveSpec
CONSTANTS
    Workers = {w1, w2}
    MaxLives = 2
    None = None
    MaxFaults = 0
    MaxCrashes = 0
    SyncFaults = FALSE
    Closable = TRUE
PROPERTIES
    CloseReturns
CHECK_DEADLOCK FALSE
