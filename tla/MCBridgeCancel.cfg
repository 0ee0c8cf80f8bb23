SPECIFICATION FairSpec
CONSTANTS
    d1 = d1
    d2 = d2
    d3 = d3
    i1 = i1
    Dispatches = {d1}
    Ids = {i1}
    IdOf <- OneId
    Stubborn = {}
    MaxCancels = 1
    None = None
PROPERTIES CancelAlwaysEnds
CHECK_DEADLOCK FALSE
