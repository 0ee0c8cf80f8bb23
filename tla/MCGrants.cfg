SPECIFICATION FairSpec
CONSTANTS
    Calls = {c1,c2,c3,c4}
    Tokens = {t1}
    MaxYields = 1
    None = None
INVARIANTS TypeOK OneTimeUsedOnce RevocationReaches NoWaiterLeaks
PROPERTIES StatusIsFinal 
CHECK_DEADLOCK FALSE
