SPECIFICATION Spec
CONSTANTS
    Client = {c1, c2, c3}
    NULL = NULL
    MaxMon = 2
    NTags = 2
    AttachMode = 0
    ViewOnTag = TRUE
    Bound <- BoundMouse
    HeadCounts = {2}
    RuleTags <- LastTag
    Hints = {}
    NMaster = {1}
SYMMETRY Symmetry
CHECK_DEADLOCK FALSE
INVARIANTS
    HeldLive
    FocusIsTop
    XFocusIsSel
