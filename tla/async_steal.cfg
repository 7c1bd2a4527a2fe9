SPECIFICATION Spec
CONSTANTS
    t1 = t1
    t2 = t2
    Threads <- TwoThreads
    Pools <- OnePool
    MaxSize <- MixedSizes
    Maps <- AsyncMaps
    Renderings = 1
    ServerMayFail = FALSE
SYMMETRY ThreadSymmetry
INVARIANTS
    NextFindsConnection
CHECK_DEADLOCK FALSE
