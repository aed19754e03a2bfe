SPECIFICATION HeapsSpec
CONSTANTS
    HeapLen = 20
    CountDown = 2
    Bytes = {5, 28}
    Data <- McData
INVARIANT WellFormed
INVARIANT NoFalseFailure
PROPERTY AllocatorSpec
