\* Every exported call, those no production code makes included: Pin
\* (reserves nothing for an absent piece) and UnpinTorrent (no eviction).
SPECIFICATION Spec
CONSTANTS
    Torrents = {t1, t2}
    Pieces = {p1, p2}
    Sizes = {1, 2, 7}
    Capacity = 8
    LegacyAPI = TRUE
SYMMETRY PieceSymmetry
INVARIANTS
    TypeOK
    AccountingExact
    HardCapacity
    PinsSound
    EvictionHasVictim
    VictimsMatchLoop
PROPERTIES
    EvictionRight
    
