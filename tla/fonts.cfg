SPECIFICATION FairSpec
CONSTANTS
    Threads = {t1, t2}
    Registrar = r
    Names <- AllNames
    Files <- AllFiles
    Disk <- FontFiles
    Registered <- SansAndMono
    Late = {"sans", "serif"}
    MapFonts <- FontsOfMap
    LoadFonts = TRUE
    Gone = {"mono"}
    Lost <- IconsLost
    MaxCalls = 2
INVARIANTS
    TypeOK
    DataStaysAlive
    FaceAsNamed
    OneCopyPerFile
    NothingMissed
PROPERTY CallsReturn
\* Calls are bounded.
CHECK_DEADLOCK FALSE
