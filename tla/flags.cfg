SPECIFICATION FairSpec
CONSTANTS
    Client = {c1, c2}
    NULL = NULL
    MaxMon = 1
    NTags = 1
    AttachMode = 0
    ViewOnTag = TRUE
    Bound <- BoundFlags
    HeadCounts = {1}
    RuleTags <- NoTags
    Hints = {"float", "full", "sticky", "noinput"}
    NMaster = {1}
CHECK_DEADLOCK FALSE
INVARIANTS
    FullFloats
PROPERTIES
    FocusRegained
