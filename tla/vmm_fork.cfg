\* Two processes that fork from one another, two pages of one page table.
CONSTANTS
    Proc = {p1, p2}
    First = p1
    Frame <- MCFrame
    Idx <- MCIdx
    Val = {0, 1}
    Zero = 0
    Junk = 9
    Touched <- OneTable
    Apic <- NoDevice
    NoFrame = 0
    ApicPT = 100
    ApicPage = 101
SPECIFICATION Spec
INVARIANT TypeOK
INVARIANT CountsExact
PROPERTY PrivateMemory
PROPERTY FaultsResolve
VIEW Canonical
\* Every process may exit: the machine then has nothing left to do.
CHECK_DEADLOCK FALSE
