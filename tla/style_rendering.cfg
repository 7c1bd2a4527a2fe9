SPECIFICATION Spec
CONSTANT Maps <- AllMaps
INVARIANTS
    TypeOK
    BuffersMatchLayers
    DrawnPremultiplied
    ReadAsPrepared
    PaintedAsDescribed
    PaintedFlagTrue
PROPERTY FollowsPainter
\* apply returns, or its exception leaves.
CHECK_DEADLOCK FALSE
