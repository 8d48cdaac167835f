CONSTANTS
    UINT32_MAX = 7
    Drives = {0}
    LocalImages = {L1}
    RemoteImages = {R1}
    Backings = {b1, b2}
    Consoles = {"cli"}
    Readers = {"fdc"}
    ImageSize = 1
    Requests <- WholeImage
    BufSize = 2
    QueueLen = 1
    MaxWrites = 1
    Shared = FALSE
    OutOfMemory = FALSE
    Restarts = FALSE
    NoName = NoName
    NoBacking = NoBacking
SPECIFICATION Spec
SYMMETRY Symmetry
INVARIANTS WorkerSessionOpen TableMatchesBacking CacheCoherent
PROPERTIES ReadOnlyNeverWritten
