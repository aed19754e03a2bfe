SPECIFICATION FairSpec
CONSTANTS
    c1 = c1
    c2 = c2
    reaper = reaper
    w1 = w1
    w2 = w2
    w3 = w3
    Core <- OneCore
    Thread <- LiveWorkers
    Reaper = reaper
    Started <- LiveStarted
    User <- LiveUsers
    Does <- LiveDoes
    Permits = 1
    Nil = Nil
    Kpd = Kpd
PROPERTY ReadyRuns
PROPERTY DownReturns
PROPERTY Reaped
