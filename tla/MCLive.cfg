SPECIFICATION Spec
CONSTANTS
    None = None
    Workers = {w1, w2}
    MaxLives = 2
    MaxFaults = 0
    MaxCrashes = 0
    SyncFaults = FALSE
    Closable = FALSE
    Readers = {r1, r2}
    Pieces = {p1}
    Flights = {f1, f2}
    Attempts = 1
    Reads = {r1, r2}
    Closers = {c1, c2}
    MinuteTicks = 2
    Lookahead = 4
    MaxLag = 1
    MaxSets = 1
    MaxMounts = 2
PROPERTIES
    WaitsEnd
    AddSettles
CHECK_DEADLOCK FALSE
