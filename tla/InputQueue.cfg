CONSTANTS
    QueueLength = 3
    Input = {i0, i1}
    DefaultInput = i0
    None = None
    LastFrame = 3
    MaxEras = 1
SPECIFICATION Spec
INVARIANTS
    TypeOK
    RingAligned
    ConfirmedIsWritten
    NoSwallowedMisprediction
    EpisodeAwaitsNextArrival
    StreamStaysSequential
    FrozenRepeatsAgreedInput
PROPERTY RequestedStaysHeld
