SPECIFICATION Spec
CONSTANTS
    Client = {c1, c2}
    NULL = NULL
    MaxMon = 1
    NTags = 3
    AttachMode = 0
    ViewOnTag = TRUE
    Bound <- BoundTags
    HeadCounts = {1}
    RuleTags <- LastTag
    Hints = {}
    NMaster = {1}
SYMMETRY Symmetry
CHECK_DEADLOCK FALSE
INVARIANTS
    TypeOK
    FocusIsTop
    NothingUnreachable
    NoCrash
PROPERTIES
    ShiftShows
    SwapKeepsView
