SPECIFICATION Spec
CONSTANTS
    t1 = t1
    t2 = t2
    Threads <- TwoThreads
    Pools <- OnePool
    MaxSize <- ContendedSizes
    Maps <- ContendedMaps
    Renderings = 2
    ServerMayFail = TRUE
SYMMETRY ThreadSymmetry
INVARIANTS
    TypeOK
    SentBeforeRead
    WithinMaxAsync
    NothingLeftBehind
\* Every thread renders its maps and stops; two may also wait for each other.
CHECK_DEADLOCK FALSE
