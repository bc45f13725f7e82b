CONSTANTS
    Scenarios <- MCTwoSurvivors
    i0 = i0
    i1 = i1
    Input = {i0, i1}
    DefaultInput = i0
    None = None
    Known = 0
SPECIFICATION Spec
INVARIANT
    SurvivorsShareHistory
CHECK_DEADLOCK FALSE
