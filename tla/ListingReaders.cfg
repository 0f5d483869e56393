SPECIFICATION FairSpec
CONSTANTS
    Endpoints <- AllEndpoints
    Viewers = {1, 2}
    Runs = {1, 2}
    Units = {1}
    Keep = 1
    IndexTTL = 1
    ListingTTL = 2
    MemoTTL = 1
INVARIANTS
    ListedWasPublished
PROPERTIES
    OneSweepPerTTL
    ListingArrives

