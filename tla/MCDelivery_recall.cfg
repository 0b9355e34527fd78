SPECIFICATION Spec
CONSTANTS
    Ids = {1}
    Relays = {r1, r2}
    Handed = Handed
    RemoteStorage = FALSE
    Faults = {"post", "recall", "receipt", "window", "allowance"}
    MaxFaults = 1
    MaxText = 2
    MaxSeal = 4
    MaxCalls = 1
    Unsending = TRUE
    r1 = r1
    r2 = r2
SYMMETRY RelaySymmetry
INVARIANT TypeOK
INVARIANT RetiredNeverShown
INVARIANT UnsendConverges
CHECK_DEADLOCK FALSE
