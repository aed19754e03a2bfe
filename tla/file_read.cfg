SPECIFICATION FairSpec
CONSTANTS
    Thread = {t1, t2}
    Words = 2
    Part = 8
    Garbage = Garbage
    Direct = 1
    data <- McData
    index <- McIndex
    Junk = 31
    Word = 64
    Half = 32
    Page = 4
    localAPIC = 56
    ioAPIC = 47
    Size = 28
    Buffers = {32, 47, 51, 60}
    Lengths = {0, 1, 8, 15}
    Seeks = {0, 3, 24, 29}
    InTurns = TRUE
INVARIANT OnlyOwnMemory
INVARIANT BytesDelivered
INVARIANT LeftInOrder
PROPERTY ReadReturns
