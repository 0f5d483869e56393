SPECIFICATION FairSpec
CONSTANTS
    k1 = k1
    k2 = k2
    Product = "radar"
    NumChannels = 2
    NumTilesets = 2
    Tiles = {k1}
    TTL = 2
    Horizon = 2
    Budgets <- RadarBudgets
PROPERTIES
    FrontierKept
    EventuallyIndexed
    HealthRestored
