SPECIFICATION Spec
CONSTANTS
    KeyOrder <- MCKeyOrder
    Words <- MCWords
    Default <- MCDefault
    Absent = Absent
    Consoles = {"cli", "telnet"}
    Network = {"telnet"}
    Drives = {"drive0"}
    Images = {good, bad}
    Valid = {good}
    Torn = Torn
    NoFile = NoFile
    Batches <- MCBatches
    Files <- MCFiles
    Menus <- MCMenus
    Url = "tnfs:"
    Autoexec <- MCAutoexec
    BATCH_MAX_DEPTH = 2
    MaxRestarts = 1
INVARIANTS OwnFolder CleanIsSaved MountedOnCard BootValid BusyExact
PROPERTIES LineEnds
CHECK_DEADLOCK FALSE
