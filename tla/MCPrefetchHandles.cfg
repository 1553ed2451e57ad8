SPECIFICATION MCSpec
CONSTANTS
    Readers = {r1, r2}
    Files = {1, 2}
    FileStart <- MCFileStart
    FileSize <- MCFileSize
    PieceLength = 2
    TorrentSize = 4
    Lengths = {1}
    High = 2
    Low = 1
    Locality = 1
    SeekClear = 2
    Limit = 1
    PinRoom = 2
    None = None
    MaxOpens = 2
    MaxReads = 3
    MaxEvents = 0
SYMMETRY ReaderSymmetry
INVARIANTS
    OtherOpensUndisturbed
CHECK_DEADLOCK FALSE
