CONSTANTS
    QueueLength = 3
    i0 = i0
    i1 = i1
    Input = {i0, i1}
    DefaultInput = i0
    None = None
    NumPlayers = 3
    LocalPlayers = {0}
    Modes <- MCLossModes
    InputDelay = 0
    MaxInputDelay = 0
    LastFrame = 3
    ChecksumInterval = 1
    MaxChecksumHistory = 2
SPECIFICATION FairSpec
INVARIANTS
    ConfirmedFramesAreFinal
    SpectatorsSeeFinalInputs
    ExposedFramesAreKnown
PROPERTIES
    ConfirmedNeverRegresses
    DropKeepsExposedFrames
    KeepsAdvancing
CHECK_DEADLOCK FALSE
