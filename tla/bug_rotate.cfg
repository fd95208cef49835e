SPECIFICATION Spec
CONSTANTS
    Client = {c1, c2, c3}
    NULL = NULL
    MaxMon = 1
    NTags = 2
    AttachMode = 0
    ViewOnTag = TRUE
    Bound <- BoundRotateOnly
    HeadCounts = {1}
    RuleTags <- NoTags
    Hints = {}
    NMaster = {1}
SYMMETRY Symmetry
CHECK_DEADLOCK FALSE
INVARIANTS
    ListsAgree
