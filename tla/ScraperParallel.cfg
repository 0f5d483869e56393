SPECIFICATION FairSpec
CONSTANTS
    p1 = p1
    p2 = p2
    p3 = p3
    NoCursor = NoCursor
    Providers = {p1, p2, p3}
    Rank <- MCRank
    Host <- TwoHosts
    Mode = "per_origin"
    MinZoom = 0
    MaxZoom = 0
    Total <- OneTile
    Absent <- NoneAbsent
    FanoutWindow = 1
    CheckpointEvery = 1
    ErrorWindow = 1
    ErrorMinSamples = 1
    ErrorNum = 1
    ErrorDen = 2
    Window = 1
    MinSamples = 1
    ThresholdNum = 1
    ThresholdDen = 2
    MaxTrips = 1
    S3Faults = 2
    ProviderFaults = 1
    Restarts = 0
INVARIANT StampHonest
PROPERTY EventuallyStamped
