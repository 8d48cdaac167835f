SPECIFICATION Spec
CONSTANTS
    Unreliable = TRUE
    Capacity = 2
    Peers = {}
    Seqs = {}
    Requests = {}
    Slots = {1}
    FileSlots = {0}
    DirSlots = {0}
    SidLimit = 4
    Fds = {0, 1}
    CardPaths <- MCPaths
    Images = {}
    Card <- MCCard
    Dotfiles = {".h"}
    EntrySize <- MCSize
    BodyCap = 2
    Room = 4
    IoFaults = FALSE
    Retries = 2
    SeqLimit = 4
    Names <- MCNames
    OpenArgs <- MCOpens
    ReadArgs <- MCReads
    WriteArgs <- MCWrites
    ListArgs <- MCLists
    Servers <- MCServers
    Remote <- MCRemote
    MaxCalls = 3
INVARIANTS DataTrue ListingExact
PROPERTIES AtMostOnce CallReturns
CHECK_DEADLOCK FALSE
