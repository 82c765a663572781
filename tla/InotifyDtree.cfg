SPECIFICATION FairSpec
CONSTANTS
    Top = 0
    Names = {"a", "b"}
    MaxQueue = 3
    RootNames <- Roots
    ReadMax = 2
    MaxDir = 4
    MaxDepth = 3
    Workloads <- MCWorkloads
INVARIANTS WatchesExact CacheFollowsTree
PROPERTIES EventsProcessed
CHECK_DEADLOCK FALSE
