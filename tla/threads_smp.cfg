SPECIFICATION Spec
CONSTANTS
    c1 = c1
    c2 = c2
    reaper = reaper
    w1 = w1
    w2 = w2
    w3 = w3
    Core <- TwoCores
    Thread <- LifeWorkers
    Reaper = reaper
    Started <- LifeStarted
    User <- LifeUsers
    Does <- LifeDoes
    Permits = 1
    Nil = Nil
    Kpd = Kpd
INVARIANT PreemptionSafe
INVARIANT InOnePlace
INVARIANT AddressSpaceLoaded
INVARIANT PermitsExact
INVARIANT NoIdlePermit
INVARIANT NoMissedNotify
SYMMETRY Symmetry
