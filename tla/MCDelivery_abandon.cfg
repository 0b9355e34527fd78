SPECIFICATION Spec
CONSTANTS
    Ids = {1}
    Relays = {r1}
    Handed = Handed
    RemoteStorage = FALSE
    Faults = {"wire"}
    MaxFaults = 1
    MaxText = 2
    MaxSeal = 4
    MaxCalls = 1
    Unsending = FALSE
    r1 = r1
INVARIANT NeverAbandoned
CHECK_DEADLOCK FALSE
