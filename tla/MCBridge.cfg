SPECIFICATION FairSpec
CONSTANTS
    d1 = d1
    d2 = d2
    d3 = d3
    i1 = i1
    Dispatches = {d1, d2}
    Ids = {i1}
    IdOf <- OneId
    Stubborn = {d2}
    MaxCancels = 2
    None = None
INVARIANTS TypeOK OneHandlerPerId AnswersMatch
PROPERTIES CancelledNeverStarts TerminalIsFinal CancelEnds
CHECK_DEADLOCK FALSE
