SPECIFICATION FairSpec
CONSTANTS
    s1 = s1
    SubHals = {s1}
    BatchShapes <- MCBatchShapes
    QueueSize = 1
    MaxPendingWrites = 2
    Timeout = 1
    MaxTime = 2
    MaxPosts = 2
    MaxInits = 1
    InitPosts = 2
PROPERTIES StopEnds
CHECK_DEADLOCK FALSE
