CONSTANTS
    QueueLength = 4
    i0 = i0
    i1 = i1
    Input = {i0, i1}
    DefaultInput = i0
    None = None
    NumPlayers = 2
    LocalPlayers = {0}
    Modes <- MCModes
    InputDelay = 0
    MaxInputDelay = 1
    LastFrame = 5
    ChecksumInterval = 1
    MaxChecksumHistory = 2
SPECIFICATION FairSpec
INVARIANTS
    TypeOK
    ConfirmedFramesAreFinal
    AdvanceNeverFails
    StoredIsSent
    ReportedChecksumsAreFinal
    EveryFrameStateIsHeld
PROPERTIES
    KeepsAdvancing
CHECK_DEADLOCK FALSE
