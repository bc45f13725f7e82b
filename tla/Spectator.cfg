CONSTANTS
    BufferSize = 3
    MaxBatch = 2
    Scenarios <- MCScenarios
    a = a
    b = b
    Input = {a, b}
    None = None
SPECIFICATION FairSpec
INVARIANTS
    TypeOK
    PlayedIsMeshInput
    NoSilentConflict
    AgreeingHostsPlayOn
PROPERTIES
    FreezeHolds
    PlaysToTheEnd
CHECK_DEADLOCK FALSE
