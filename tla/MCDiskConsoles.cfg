CONSTANTS
    UINT32_MAX = 7
    Drives = {0}
    LocalImages = {L1}
    RemoteImages = {R1}
    Backings = {b1, b2}
    Consoles = {"cli", "telnet"}
    Readers = {}
    ImageSize = 1
    Requests <- WholeImage
    BufSize = 2
    QueueLen = 1
    MaxWrites = 0
    Shared = FALSE
    OutOfMemory = FALSE
    Restarts = TRUE
    NoName = NoName
    NoBacking = NoBacking
SPECIFICATION LiveSpec
INVARIANTS BackingOwnedOnce NotForgotten
PROPERTIES RemoteComesUp
