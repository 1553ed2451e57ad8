SPECIFICATION MCSpec
CONSTANTS
    Readers = {r1}
    Files = {1}
    FileStart <- LongFileStart
    FileSize <- LongFileSize
    PieceLength = 1
    TorrentSize = 5
    Lengths = {1}
    High = 4
    Low = 2
    Locality = 1
    SeekClear = 8
    Limit = 4
    PinRoom = 5
    None = None
    MaxOpens = 2
    MaxReads = 3
    MaxEvents = 0
PROPERTIES
    ResumesAtLowWatermark
CHECK_DEADLOCK FALSE
