SPECIFICATION FairSpec
CONSTANTS
    Ids = {1}
    Relays = {r1, r2}
    Handed = Handed
    RemoteStorage = FALSE
    Faults = {"wire", "post", "receipt", "allowance"}
    MaxFaults = 2
    MaxText = 1
    MaxSeal = 5
    MaxCalls = 1
    Unsending = TRUE
    r1 = r1
    r2 = r2
INVARIANT NeverAbandoned
PROPERTY Arrives
CHECK_DEADLOCK FALSE
