SPECIFICATION LocksSpec
CONSTANTS
    c1 = c1  c2 = c2
    Core = {c1, c2}
    Lock <- McLock
INVARIANT MutualExclusion
INVARIANT HeldDisabled
INVARIANT FlagKept
CONSTANT Party = {"t1", "t2", "t3"}
CONSTANT Rounds = 3
PROPERTY AllTogether
