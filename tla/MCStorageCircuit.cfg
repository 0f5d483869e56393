CONSTANTS
    Window = 3
    MinSamples = 2
    ThresholdNum = 1
    ThresholdDen = 2
    MaxTrips = 3
    BaseCooldown = 1
    MaxCooldown = 3
    MaxInflight = 3
    Horizon = 16
SPECIFICATION FairSpec
INVARIANTS
    TypeOK
    BackoffState
    BackoffPaid
    ExhaustedAfterFullSchedule
PROPERTIES
    ImplementsGate
    ProbeEventuallyAdmitted
