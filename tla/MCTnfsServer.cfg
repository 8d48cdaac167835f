SPECIFICATION FairServerSpec
CONSTANTS
    Unreliable = FALSE
    Capacity = 0
    Peers = {p1}
    Seqs = {0}
    Requests <- MCRequests
    Slots = {1, 2}
    FileSlots = {0}
    DirSlots = {0}
    SidLimit = 3
    Fds = {0, 1}
    CardPaths <- MCPaths
    Images <- MCImages
    Card <- MCCard
    Dotfiles = {}
    EntrySize <- MCSize
    BodyCap = 2
    Room = 1
    IoFaults = FALSE
INVARIANTS ServerTypeOK DescriptorsOwned SidsDistinct
PROPERTIES OnlyRmdirTakesImage SlotsRecover
