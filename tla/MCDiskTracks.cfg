CONSTANTS
    UINT32_MAX = 7
    Drives = {0, 1}
    LocalImages = {L1, L2}
    RemoteImages = {}
    Backings = {b1, b2, b3}
    Consoles = {"cli"}
    Readers = {"fdc"}
    ImageSize = 2
    Requests <- OverlappingTracks
    BufSize = 2
    QueueLen = 1
    MaxWrites = 1
    Shared = FALSE
    OutOfMemory = FALSE
    Restarts = TRUE
    NoName = NoName
    NoBacking = NoBacking
SPECIFICATION Spec
SYMMETRY Symmetry
INVARIANTS CacheCoherent
