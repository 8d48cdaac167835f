CONSTANTS
    UINT32_MAX = 7
    Drives = {0}
    LocalImages = {}
    RemoteImages = {R1}
    Backings = {b1}
    Consoles = {"cli"}
    Readers = {}
    ImageSize = 1
    Requests <- WholeImage
    BufSize = 2
    QueueLen = 1
    MaxWrites = 0
    Shared = FALSE
    OutOfMemory = FALSE
    Restarts = TRUE
    NoName = NoName
    NoBacking = NoBacking
SPECIFICATION Spec
SYMMETRY Symmetry
INVARIANTS RemoteDownWithWifi
