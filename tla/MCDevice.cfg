SPECIFICATION DeviceSpec
CONSTANTS
    MaxListVersion = 2
    MaxRotations = 1
    DirectoryCases <- DirectorySites
    Messages = {m1}
    Controls = {k1}
    Notices = {n1}
    MaxCores = 2
    SlowPoller = FALSE
    MaxDark = 3
    ResetThreshold = 2
    WatchFaults = {"ring", "rings", "intro", "guards", "offline", "probe"}
    Conns = {"c1", "c2", "c3"}
    Sizes = {0, 1, 3}
    MaxFrame = 3
    BudgetLimit = 2
    MaxConns = 2
    MaxFrames = 1
    Fronts = 2
    MaxAttempts = 3
    UpPieces = 2
    DownPieces = 2
    MaxIdle = 1
    Streams = {"s1", "s2"}
    OpenCaps = {1, 2}
    LineCap = 2
    MaxLine = 1
    Burst = 1
    MaxRequests = 2
    MaxReports = 1
    Threads = {"t1", "t2"}
    MaxSends = 2
    Scenes <- PathScenes
    Interfaces <- IfaceLists
    PeerHomes <- Homes
INVARIANTS
    DeviceTypeOK
    MessagesSurviveShutdown
    InboundHolds
    StreamsHold
    PathsHold
PROPERTIES
    RestartsAreJustified
    ListsMoveForward
    LoopsComeThrough
CHECK_DEADLOCK FALSE
