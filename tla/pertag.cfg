SPECIFICATION Spec
CONSTANTS
    NTags = 3
    NLayouts = 2
    nmaxmaster = 1
    taglayouts <- Defaults
INVARIANTS
    LayoutApplied
    ThereAndBack
