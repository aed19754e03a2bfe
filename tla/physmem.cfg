\* Three cores; one table of counts that the APIC's reference pins, and one that comes and goes,
\* whose frames they take turns with.
CONSTANTS
    Proc = {p1, p2, p3}
    NFrames = 6
    PerTable = 4
    MaxRefs = 2
    Alone = {1}
SPECIFICATION Spec
INVARIANT CountsExact
INVARIANT FramesAccounted
SYMMETRY Symmetry
\* Out of frames is a panic.
CHECK_DEADLOCK FALSE
