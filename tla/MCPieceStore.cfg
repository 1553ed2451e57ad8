SPECIFICATION MCSpec
CONSTANTS
    None = None
    Torrents = {t1}
    Pieces = {p1}
    NumChunks = 2
    Agents = {a1, a2, a3}
    MaxGeneration = 2
    MaxLives = 2
    MaxBusyReopened = 2
SYMMETRY AgentSymmetry
INVARIANTS
    TypeOK
    OnlyVerifiedResident
    NoZeroFillServed
    NothingAfterClose
PROPERTIES
    StaleLifetimesHarmless
