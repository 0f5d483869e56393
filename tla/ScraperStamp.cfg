SPECIFICATION Spec
CONSTANTS
    p1 = p1
    p2 = p2
    p3 = p3
    NoCursor = NoCursor
    Providers = {p1}
    Rank <- MCRank
    Host <- TwoHosts
    Mode = "sequential"
    MinZoom = 0
    MaxZoom = 1
    Total <- ThreeTiles
    Absent <- LastAbsent
    FanoutWindow = 2
    CheckpointEvery = 2
    ErrorWindow = 2
    ErrorMinSamples = 2
    ErrorNum = 1
    ErrorDen = 2
    Window = 1
    MinSamples = 1
    ThresholdNum = 1
    ThresholdDen = 2
    MaxTrips = 1
    S3Faults = 2
    ProviderFaults = 2
    Restarts = 1
INVARIANT StorageErrorNotStamped
