SPECIFICATION Spec
CONSTANTS
    Job = {1, 2}
    MaxClock = 1
CHECK_DEADLOCK FALSE
INVARIANTS
    Exclusive
