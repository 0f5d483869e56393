SPECIFICATION Spec
CONSTANTS
    p1 = p1
    p2 = p2
    p3 = p3
    NoCursor = NoCursor
    Providers = {p1}
    Rank <- MCRank
    Host <- TwoHosts
    Mode = "sequential"
    MinZoom = 0
    MaxZoom = 1
    Total <- FourTiles
    Absent <- LastAbsent
    FanoutWindow = 3
    CheckpointEvery = 2
    ErrorWindow = 2
    ErrorMinSamples = 1
    ErrorNum = 1
    ErrorDen = 2
    Window = 1
    MinSamples = 1
    ThresholdNum = 1
    ThresholdDen = 2
    MaxTrips = 1
    S3Faults = 2
    ProviderFaults = 1
    Restarts = 1
INVARIANTS
    TypeOK
    CursorCoverage
    ChunkDrained
    StampHonest
    NeverSkipsAlone
PROPERTY ProgressKept
