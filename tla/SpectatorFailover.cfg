CONSTANTS
    BufferSize = 2
    MaxBatch = 2
    Scenarios <- MCSilentPrimary
    a = a
    b = b
    Input = {a, b}
    None = None
SPECIFICATION FairSpec
PROPERTY
    FailoverContinues
CHECK_DEADLOCK FALSE
