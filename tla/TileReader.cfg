SPECIFICATION FairSpec
CONSTANTS
    Services <- AllServices
    Viewers = {v1, v2}
    Tiles = {1, 2}
    ProbeTile = 1
    HttpSlots = 1
    MaxRetries = 2
    TileTTL = 1
    MissTTL = 2
    ListTTL = 1
    MaxWrites = 1
    Window = 2
    MinSamples = 1
    ThresholdNum = 1
    ThresholdDen = 2
    MaxTrips = 1
INVARIANTS
    OneFlight
    FollowerHasLeader
    NoPageServed
PROPERTIES
    TileArrives
