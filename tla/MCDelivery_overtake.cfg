SPECIFICATION Spec
CONSTANTS
    Ids = {1}
    Relays = {r1}
    Handed = Handed
    RemoteStorage = FALSE
    Faults = {}
    MaxFaults = 0
    MaxText = 1
    MaxSeal = 3
    MaxCalls = 1
    Unsending = TRUE
    r1 = r1
INVARIANT UnsentNotKept
CHECK_DEADLOCK FALSE
