SPECIFICATION Spec
CONSTANTS
    Workers = {w1, w2}
    MaxLives = 2
    None = None
    MaxFaults = 1
    MaxCrashes = 0
    SyncFaults = TRUE
    Closable = FALSE
SYMMETRY WorkerSymmetry
INVARIANTS
    StatesMirrorSidecars
