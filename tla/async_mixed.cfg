SPECIFICATION FairSpec
CONSTANTS
    t1 = t1
    t2 = t2
    Threads <- OneThread
    Pools <- OnePool
    MaxSize <- MixedSizes
    Maps <- MixedMaps
    Renderings = 1
    ServerMayFail = FALSE
PROPERTIES
    BorrowAnswers
\* The rendering may stop, waiting for itself.
CHECK_DEADLOCK FALSE
