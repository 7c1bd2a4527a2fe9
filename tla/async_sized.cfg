SPECIFICATION FairSpec
CONSTANTS
    t1 = t1
    t2 = t2
    Threads <- TwoThreads
    Pools <- TwoPools
    MaxSize <- SizedSizes
    Maps <- SizedMaps
    Renderings = 1
    ServerMayFail = TRUE
INVARIANTS
    NeverWaits
PROPERTIES
    RenderingEnds
\* Every thread renders its maps and stops.
CHECK_DEADLOCK FALSE
