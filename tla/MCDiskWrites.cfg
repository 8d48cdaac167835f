CONSTANTS
    UINT32_MAX = 7
    Drives = {0}
    LocalImages = {}
    RemoteImages = {R1}
    Backings = {b1}
    Consoles = {}
    Readers = {"cli"}
    ImageSize = 2
    Requests <- TwoTracks
    BufSize = 2
    QueueLen = 1
    MaxWrites = 2
    Shared = FALSE
    OutOfMemory = TRUE
    Restarts = TRUE
    NoName = NoName
    NoBacking = NoBacking
SPECIFICATION Spec
SYMMETRY Symmetry
INVARIANTS TypeOK AckedWriteStays
PROPERTIES ReadSeesAckedWrites
