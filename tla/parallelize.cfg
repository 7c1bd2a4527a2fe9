SPECIFICATION FairSpec
CONSTANTS
    Uses <- AllUses
    MayThrow = TRUE
INVARIANTS
    TypeOK
    NeverTwice
    CompleteBeforeNext
    NothingLeftRunning
PROPERTY CallsEnd
\* The caller returns, or its exception leaves.
CHECK_DEADLOCK FALSE
