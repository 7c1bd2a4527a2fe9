SPECIFICATION FairSpec
CONSTANTS
    t1 = t1
    t2 = t2
    t3 = t3
    Threads <- ThreeThreads
    Configs <- ScarceThenEnough
    MaxHeld = 1
    MaxBorrows = 2
    Preping = FALSE
    ServerMayFail = FALSE
PROPERTIES
    SleeperReturns
    NobodyBlocks
\* A thread that has used up its calls of borrow stops.
CHECK_DEADLOCK FALSE
