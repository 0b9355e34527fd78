SPECIFICATION PartsSpec
CONSTANTS
    Peers = {"a", "b", "c"}
    MaxInvites = 3
    MaxContacts = 1
    PairCases <- PairSetups
    Onions = {"r1"}
    Discovered = {"d1"}
    EpochSlots = 5
    SkewMargin = 2
    RelayTtl = 5
    MaxListed = 1
    DeadAfter = 2
    MaxSlots = 12
    EpochCases <- EpochSetups
    Secrets = {"pin", "other", "wipe"}
    Normal = "pin"
    Tier = 2
    LockWaits <- TwoWaits
    MaxLockClock = 6
    MaxWrong = 6
    MaxKills = 1
    MaxBack = 1
    DisableKill = FALSE
    MaxIds = 3
    MaxAddr = 4
    MaxOnionStarts = 5
    OnionCases <- OnionSetups
    Downloads = {"d1", "d2"}
    MaxRelease = 2
    MaxKeys = 1
    Blocks = 2
    MaxFiles = 2
    MaxAttempts = 2
    UpdateCases <- UpdateCalls
    Transfers = {"x1"}
    Kinds = {"video", "burn"}
    MaxAllowance = 3
    MaxMediaKills = 2
    InOrder = TRUE
    BackupContacts = {"x", "y"}
    BackupTexts = {"t1"}
    Pictures = {"p1"}
    ContactCap = 1
    MaxSession = 1
    MaxSwitches = 1
    MaxLosses = 1
    MaxMade = 2
    BackupFaults = {"post", "damaged"}
    MaxElements = 3
    Containers = {"jpeg", "iso", "matroska", "avi"}
    Unwalkable = FALSE
    Dials = {"d1", "d2"}
    ServerNames = 3
    HasTransports = FALSE
    Edits <- SomeEdits
    MaxSaves = 2
    MaxBridgeStarts = 3
    MaxUnwritten = 1
INVARIANTS
    PairingHolds
    MailIsPolled
    LockHolds
    OnionHolds
    UpdateHolds
    AttachmentsHold
    SentHolds
PROPERTIES
    BackupHolds
    BridgesHold
CHECK_DEADLOCK FALSE
