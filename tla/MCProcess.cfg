SPECIFICATION FairSpec
CONSTANTS
    Procs = {p1, p2}
    MaxConcurrent = 2
    MaxSnapshots = 1
    Stubborn = {p2}
    Interrupted = {p1}
    Unreadable = {p2}
    Refused = {p1, p2}
    None = None
INVARIANTS TypeOK ChildrenHoldPermits DisposedMeansDead AnswersAreTrue
PROPERTIES NobodyStuck PermitReturns
CHECK_DEADLOCK FALSE
