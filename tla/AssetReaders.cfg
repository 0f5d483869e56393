SPECIFICATION FairSpec
CONSTANTS
    Endpoints <- AllEndpoints
    Viewers = {v1, v2}
    TTL = 2
    TileAge = 1
    MissAge = 1
    MaxWrites = 2
    Faults = 2
    Retirements = 1
INVARIANTS
    ServableWhileInS3
PROPERTIES
    AssetNeverLost
    AssetArrives
