SPECIFICATION Spec
CONSTANTS
    k1 = k1
    k2 = k2
    Product = "satellite"
    NumChannels = 1
    NumTilesets = 2
    Tiles = {k1, k2}
    TTL = 2
    Horizon = 3
    Budgets <- SatelliteBudgets
SYMMETRY TileSymmetry
INVARIANTS
    TypeOK
    IndexBacked
    WindowAfterCycle
