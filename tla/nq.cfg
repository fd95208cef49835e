SPECIFICATION FairSpec
CONSTANTS
    Job = {1, 2, 3}
    MaxClock = 1
CHECK_DEADLOCK FALSE
INVARIANTS
    OlderFinished
PROPERTIES
    EveryJobRuns
