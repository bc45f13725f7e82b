CONSTANTS
    Bits = {1, 2}
    Setups <- MCSafety
    Randoms = {1}
    PendingLimit = 2
    History = 1
    MaxInFlight = 2
SPECIFICATION Spec
INVARIANTS
    AckedIsDelivered
    RunningPeersAgree
    FreshFloorIsCurrent
PROPERTIES
    ImplementsChannel
    StaleGoodbyeIgnored
CHECK_DEADLOCK FALSE
