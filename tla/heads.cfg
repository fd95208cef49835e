SPECIFICATION Spec
CONSTANTS
    Client = {c1, c2, c3}
    NULL = NULL
    MaxMon = 3
    NTags = 2
    AttachMode = 0
    ViewOnTag = TRUE
    Bound <- BoundHeads
    HeadCounts = {1, 2, 3}
    RuleTags <- NoTags
    Hints = {"noinput"}
    NMaster = {1}
SYMMETRY Symmetry
CHECK_DEADLOCK FALSE
INVARIANTS
    ListsAgree
    MonitorsExist
    XFocusIsSel
