SPECIFICATION TestSpec
CONSTANTS
    p1 = p1  p2 = p2  p3 = p3  p4 = p4  p5 = p5
    Proc = {p1, p2, p3, p4, p5}
    First = p1
    Files = {f1, f2, f3, f4, f5, f6, f7}
    Sems = {s1}
    FDT_SIZE = 7
    PDT_SIZE = 2
    SDT_SIZE = 1
    Empty = Empty
    Nodes = {"msg", "data", "panic"}
    Size <- Sizes
    Word = 4096
    Lengths = {30}
    Seeks = {31}
    Counts = {0}
    Status = {1}
    Does <- AnyCalls
    MaxOpen = 1
    MaxPermits = 1
    MaxFs = 5
    Forks = 1
    MaxEnding = 0
    Links <- LinkTargets
CHECK_DEADLOCK FALSE
INVARIANT CountsExact
INVARIANT StatusDelivered
INVARIANT WaitersServed
INVARIANT OutputAsExpected
INVARIANT NeverStuck
