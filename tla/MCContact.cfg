SPECIFICATION ContactSpec
CONSTANTS
    Cases <- AnnCases
    MaxBack = 2
    MaxContributions = 4
    MailboxFaults <- MailboxCases
    CtlCases <- ControlCases
    HeldCap = 4
    Reorder = TRUE
    MaxSaid = 1
    MaxRestarts = 0
    MaxMisses = 1
    RdvRelays = {"r1", "r2"}
    Attempts = {"j1", "j2", "g1", "g2"}
    WrongCode = {"g1", "g2"}
    MaxOpeners = 1
    RdvFaults <- RdvCases
    Texts = {"p"}
    RetCases <- RetSetups
    RelayKeeps = 2
    MaxPerDay = 1
    MaxClock = 3
INVARIANTS
    ContactHears
    ControlHolds
    MailboxHolds
    InvitesHold
    DeletionHolds
PROPERTIES
    SettingsReachContacts
    PairComesToTerms
CHECK_DEADLOCK FALSE
