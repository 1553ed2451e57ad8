SPECIFICATION Spec
CONSTANTS
    Workers = {w1, w2}
    MaxLives = 2
    None = None
    MaxFaults = 1
    MaxCrashes = 1
    SyncFaults = TRUE
    Closable = TRUE
SYMMETRY WorkerSymmetry
INVARIANTS
    TypeOK
    AlwaysRestorable
    SessionConsistent
PROPERTIES
    NoResurrection
    DeletedLeavesNothing
    FavoriteKept
CHECK_DEADLOCK FALSE
