SPECIFICATION Spec
CONSTANTS
    NoLabel = NoLabel
    Labels <- TheLabels
    Keys <- TheKeys
    Extent <- TheExtent
    Canvas <- TheCanvas
    MaxCalls = 4
    MaxClears = 1
INVARIANTS TypeOK NoForbiddenOverlap RepeatApart OnePerPosition NothingButThePlaced
CHECK_DEADLOCK FALSE
