SPECIFICATION MCSpec
CONSTANTS
    Conn = {c1, c2, c3}
    NoDoc = NoDoc
    MaxEvicts = 1
    Task <- LockCalls
    PodOf <- CallsAt
    Pod = {"p1", "p2"}
    NoPod = NoPod
    Fault = {"throw", "redis", "lease"}
    MaxUpdates = 2
    MaxOpens = 2
    MaxDrops = 1
    MaxClock = 2
    MaxSnags = 1
    Editor <- TwoEditors
    SocketPod <- OnePerPod
INVARIANTS
    TypesOK
    ReclaimedHasNoClient
    RegisteredRoomIsHeld
    LocksExclude
    LeasesFailAlone
    RoomsMissNothing
    CursorsConverge
PROPERTIES
    RegisteredReclaimIsSaved
    RoomEventuallyReclaimed
    CallsReturn
CHECK_DEADLOCK FALSE
