\* The page table that maps the local APIC: the device page and a neighbour.
CONSTANTS
    Proc = {p1, p2}
    First = p1
    Frame <- MCFrame
    Idx <- MCIdx
    Val = {0, 1}
    Zero = 0
    Junk = 9
    Touched <- DeviceTable
    Apic <- Device
    NoFrame = 0
    ApicPT = 100
    ApicPage = 101
SPECIFICATION Spec
INVARIANT NoEarlyFree
INVARIANT ApicSealed
VIEW Canonical
\* Every process may exit: the machine then has nothing left to do.
CHECK_DEADLOCK FALSE
