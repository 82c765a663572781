SPECIFICATION FairSpec
CONSTANTS
    Top = 0
    Names = {"a", "b"}
    MaxQueue = 3
    RootNames <- Roots
    ReadMax = 2
    MaxDir = 4
    MaxDepth = 3
    Workloads <- RenameWorkload
INVARIANT CacheInSync
CHECK_DEADLOCK FALSE
