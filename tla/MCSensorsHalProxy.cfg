SPECIFICATION FairSpec
CONSTANTS
    s1 = s1
    SubHals = {s1}
    BatchShapes <- MCBatchShapes
    QueueSize = 1
    MaxPendingWrites = 2
    Timeout = 1
    MaxTime = 2
    MaxPosts = 4
    MaxInits = 1
    InitPosts = 2
INVARIANTS TypeOK HeldIffCounted CountExact InOrder
PROPERTIES PendingDrained WakelockReleased
CHECK_DEADLOCK FALSE
