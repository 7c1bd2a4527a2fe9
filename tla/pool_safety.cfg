SPECIFICATION Spec
CONSTANTS
    t1 = t1
    t2 = t2
    t3 = t3
    Threads <- ThreeThreads
    Configs <- GrowingConfigs
    MaxHeld = 1
    MaxBorrows = 2
    Preping = TRUE
    ServerMayFail = TRUE
SYMMETRY ThreadSymmetry
INVARIANTS
    TypeOK
    ExclusiveLending
    NoLostWakeup
PROPERTIES
    LentConnectionKept
    LendsAsPromised
\* A thread that has used up its calls of borrow stops.
CHECK_DEADLOCK FALSE
