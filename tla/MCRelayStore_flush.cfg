SPECIFICATION FairSpec
CONSTANTS
    Handles = {h1}
    Conns = {c1}
    MaxBlobBytes = 4
    MaxMailboxBlobs = 2
    MaxMailboxBytes = 5
    MaxTotalBytes = 9
    SmallBlobBytes = 1
    SmallReserveBytes = 3
    EntryOverhead = 1
    TakeBudgetBytes = 1
    MaxTtl = 1
    Sizes = {1}
    Ttls = {2}
    MaxTakeMany = 0
    MaxPosts = 2
    MaxTime = 2
    MaxCrashes = 2
INVARIANTS TypeOK CleanMeansDurable HandedOncePerBoot
PROPERTIES NeverHandedPastTtl ImplementsDrop EventuallyOnDisk
