SPECIFICATION Spec
CONSTANTS
    Client = {c1, c2, c3}
    NULL = NULL
    MaxMon = 2
    NTags = 2
    AttachMode = 2
    ViewOnTag = TRUE
    Bound <- BoundLists
    HeadCounts = {2}
    RuleTags <- NoTags
    Hints = {"float", "noinput"}
    NMaster = {1, 2}
SYMMETRY Symmetry
CHECK_DEADLOCK FALSE
INVARIANTS
    WellFormed
    ListsAgree
    FocusIsTop
    LitIsFocus
    XFocusIsSel
    MarksLive
    FocusCycle
    NoCrash
PROPERTIES
    HistoryKept
    AsideKeepsMaster
