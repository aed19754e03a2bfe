\* Two cores and tables that come and go.
CONSTANTS
    Proc = {p1, p2}
    NFrames = 6
    PerTable = 2
    MaxRefs = 2
    Alone = {}
SPECIFICATION Spec
INVARIANT AssertHolds
SYMMETRY Symmetry
\* Out of frames is a panic.
CHECK_DEADLOCK FALSE
