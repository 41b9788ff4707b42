SPECIFICATION Spec
CONSTANTS
    Tool = {t1, t2}
    OtherKind = {"system"}
    MaxMessages = 3
    MaxLaunches = 2
    Task = {"t1", "t2"}
    Session = {"s1", "s2"}
    MaxEntries = 8
    MaxStarts = 3
    Id = {s0, s1, s2, s3}
    Named = s0
    NoId = NoId
    MaxSpawns = 3
    Client = {c1, c2}
    MaxUpdates = 3
    MaxDrops = 1
    MaxErrors = 1
INVARIANTS
    SentInOrder
    SidechainsAreChains
    NothingIsOverwritten
    DoneIsStored
PROPERTIES
    EveryMessageIsSent
    ContinuesTheConversation
    EveryUpdateIsSettled
CHECK_DEADLOCK FALSE
