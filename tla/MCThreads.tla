----------------------------- MODULE MCThreads -----------------------------
(* Instances of Threads: a reaper and two or three workers on one or two       *)
(* cores.                                                                      *)
EXTENDS Threads, TLC

CONSTANTS c1, c2, reaper, w1, w2, w3

OneCore == {c1}
TwoCores == {c1, c2}

\* w1 creates threads and uses the semaphore, the others use it or yield, and end.
LifeWorkers == {reaper, w1, w2, w3}
LifeStarted == <<reaper, w1>>
LifeDoes == [t \in LifeWorkers |-> CASE t = reaper -> {}
                                     [] t = w1 -> {"sem", "spawn"}
                                     [] t = w2 -> {"yield", "sem", "stop"}
                                     [] OTHER -> {"sem", "stop"}]
LifeUsers == {w2, w3}

\* Both at once, for liveness: w2 uses the semaphore and ends, w1 creates it again.
LiveWorkers == {reaper, w1, w2}
LiveStarted == <<reaper, w1, w2>>
LiveDoes == [t \in LiveWorkers |-> CASE t = reaper -> {}
                                     [] t = w1 -> {"sem", "spawn"}
                                     [] OTHER -> {"sem", "stop"}]
LiveUsers == {w2}

\* Cores are alike.
Symmetry == Permutations({c1, c2})
=============================================================================
