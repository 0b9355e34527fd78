SPECIFICATION Spec
CONSTANTS
    Handles = {h1, h2}
    Conns = {c1}
    MaxBlobBytes = 4
    MaxMailboxBlobs = 2
    MaxMailboxBytes = 5
    MaxTotalBytes = 9
    SmallBlobBytes = 1
    SmallReserveBytes = 3
    EntryOverhead = 1
    TakeBudgetBytes = 2
    MaxTtl = 1
    Sizes = {1, 3}
    Ttls = {2}
    MaxTakeMany = 2
    MaxPosts = 3
    MaxTime = 1
    MaxCrashes = 0
SYMMETRY HandleSymmetry
INVARIANTS ByteAccounting WithinLimits
PROPERTIES NoEviction
