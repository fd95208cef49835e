SPECIFICATION Spec
CONSTANTS
    Width = 1920
    Heights = {600, 1080}
    bh = 22
    bw = 1
    gappx = 5
    maxgappx = 50
    vertgappx = 4
    mincellw = 200
    mincellh = 120
    MaxWindows = 12
    nmaxmaster = 4
    GapStep = 5
    Facts = {5, 95}
    PointerFacts = {0, 130}
    SFacts = {0, 90}
INVARIANTS
    InArea
    NoOverlap
    NoWrap
