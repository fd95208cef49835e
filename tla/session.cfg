SPECIFICATION FairSpec
CONSTANTS
    N = 2
    Pid = {1, 2}
CHECK_DEADLOCK FALSE
INVARIANTS
    NoneLeft
PROPERTIES
    QuitEnds
