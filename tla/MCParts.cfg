SPECIFICATION Spec
CONSTANTS
    None = None
    Ops = {r1, r2}
    MaxChanges = 2
    Contents = {"a", "b"}
    WithFile = {"a"}
    Sizes = {1, 2}
    Directories = {"a", "b"}
    SingleFile = {"f"}
    Places = {1, 2}
    MaxSnapshots = 3
    Prefixes = {"root", "sub"}
    Readers = {q1, q2}
    Pieces = {p1}
    Flights = {f1, f2}
    Attempts = 2
    Reads = {h1, h2}
    Closers = {c1, c2}
    MinuteTicks = 2
    Lookahead = 8
    MaxLag = 1
    MaxSets = 1
    Torrents = {1, 2}
    CategoryNames = {"a.srt"}
    MaxFaults = 2
    MaxCrashes = 1
    Hashes = {1, 2}
    Logins = {"l1", "l2"}
    Tokens = {"t1", "t2"}
    TTL = 2
    MaxTime = 4
    MaxMounts = 2
    Processes = {x1, x2}
    PeerPrefixes = {"-A", "-B"}
    Randoms = {1, 2}
    Has <- MCHas
    Wall <- MCWall
    Settings <- MCSettings
    Name <- MCName
    Suffixed <- MCSuffixed
    Single <- MCSingle
    Sidecars <- MCSidecars
    Default <- MCDefault
SYMMETRY Symmetry
INVARIANTS
    TypeOK
    LinksFresh
    SnapshotsOwned
    ViewsOwned
    FlightsShared
    ClosedDrained
    LimitInForce
    
    MigrationKeepsAll
    TokensOwned
    ShutdownOrdered
    DirectoryOwned
PROPERTIES
    NoStalePublication
    
CHECK_DEADLOCK FALSE
