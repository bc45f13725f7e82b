CONSTANTS
    Scenarios <- MCOvertaken
    i0 = i0
    i1 = i1
    Input = {i0, i1}
    DefaultInput = i0
    None = None
    Known = 1
SPECIFICATION Spec
INVARIANT
    MissingHistoryIsReal
CHECK_DEADLOCK FALSE
