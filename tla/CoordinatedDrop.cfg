CONSTANTS
    Scenarios <- MCScenarios
    i0 = i0
    i1 = i1
    Input = {i0, i1}
    DefaultInput = i0
    None = None
    Known = 1
SPECIFICATION FairSpec
INVARIANTS
    TypeOK
    SurvivorsAgree
    ExposedBelowCut
    NeededHistoryIsKept
PROPERTIES
    DropCompletes
CHECK_DEADLOCK FALSE
