CONSTANTS
    Bits = {1, 2}
    Setups <- MCDelivery
    Randoms = {1}
    PendingLimit = 2
    History = 1
    MaxInFlight = 2
SPECIFICATION FairSpec
PROPERTIES
    InputsArrive
    GossipConverges
    IncompatibleDiagnosed
CHECK_DEADLOCK FALSE
