SPECIFICATION FairSpec
CONSTANTS
    Spots = {"a", "b"}
    Maps <- AnyMaps
    MaxLayers = 3
INVARIANTS
    PaintedFlagTrue
    NothingLeftRunning
PROPERTIES
    PaintsInTurn
    RenderEnds
\* A rendering ends.
CHECK_DEADLOCK FALSE
