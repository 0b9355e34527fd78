SPECIFICATION PairSpec
CONSTANTS
    Peers = {"a", "b"}
    MaxInvites = 2
    MaxContacts = 1
    PairCases <- CrossedInvites
INVARIANT BothEndsMatch
CHECK_DEADLOCK FALSE
CONSTRAINT OneInviteEach
