SPECIFICATION Spec
CONSTANTS
    Ids = {1}
    Relays = {r1}
    Handed = Handed
    RemoteStorage = TRUE
    Faults = {"sender", "receiver", "wire", "post", "postreply", "recall", "recallreply", "receipt", "reply", "allowance", "window"}
    MaxFaults = 2
    MaxText = 1
    MaxSeal = 4
    MaxCalls = 1
    Unsending = TRUE
    r1 = r1
INVARIANT ReceiptMeansDurable
PROPERTY TombstoneFinal
CHECK_DEADLOCK FALSE
