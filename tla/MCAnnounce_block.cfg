SPECIFICATION AnnSpec
CONSTANTS
    Cases <- QuickChanges
    MaxBack = 1
INVARIANT ToldIsHeard
CHECK_DEADLOCK FALSE
