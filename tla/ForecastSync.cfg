SPECIFICATION FairSpec
CONSTANTS
    Shapes <- MCShapes
    Keep = 1
    TTL = 2
    RecheckTTL = 1
    Faults = 1
    Cancels = 1
    Retirements = 1
INVARIANTS
    AdvertisedServable
    IndexBounded
PROPERTIES
    NewestRunsKept
    EventuallyAdvertised
