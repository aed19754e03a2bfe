------------------------------ MODULE Barrier ------------------------------
(***************************************************************************)
(* The two barriers of src/kernel/barrier.h.  Barrier counts down under a  *)
(* lock and waits on a condition variable, whose wait gives up the lock    *)
(* before it is in the queue (src/kernel/condition.h); ReusableBarrier     *)
(* counts up and down again, handing two semaphores on from thread to      *)
(* thread.  What is done with an InterruptSafeLock held is one step        *)
(* (module InterruptLock), and a semaphore is its count (module Threads).  *)
(* ReusableBarrier's count has no lock: reading and writing it are two     *)
(* steps.                                                                  *)
(***************************************************************************)
EXTENDS Naturals, FiniteSets

CONSTANTS Party, Rounds

ASSUME BarrierAssumption == IsFiniteSet(Party) /\ Party # {} /\ Rounds \in Nat \ {0}

VARIABLES reusable,        \* which of the two it is
          count,
          epoch, waiting,  \* of the condition variable
          mut, sem,        \* the semaphores
          seen,            \* what a thread has read: the epoch, or the count
          step,            \* where it is in sync
          came, left       \* its calls of sync, and those that have returned

barrierVars == <<reusable, count, epoch, waiting, mut, sem, seen, step, came, left>>

limit == Cardinality(Party)

Is(t, from) == step[t] = from
Moves(t, to) == step' = [step EXCEPT ![t] = to]
Return(t) ==
    /\ Moves(t, "out")
    /\ left' = [left EXCEPT ![t] = @ + 1]

\* A Barrier is for one round.
Sync(t) ==
    /\ Is(t, "out") /\ came[t] < IF reusable THEN Rounds ELSE 1
    /\ came' = [came EXCEPT ![t] = @ + 1]
    /\ Moves(t, IF reusable THEN "downMut" ELSE "arrive")
    /\ UNCHANGED <<reusable, count, epoch, waiting, mut, sem, seen, left>>

-----------------------------------------------------------------------------
(* Barrier.                                                                 *)

Arrive(t) ==
    /\ Is(t, "arrive")
    /\ count' = count - 1
    /\ Moves(t, IF count' = 0 THEN "release" ELSE "look")
    /\ UNCHANGED <<reusable, epoch, waiting, mut, sem, seen, came, left>>

\* while (count), and the start of wait.
Look(t) ==
    /\ Is(t, "look") /\ count # 0
    /\ seen' = [seen EXCEPT ![t] = epoch]
    /\ Moves(t, "block")
    /\ UNCHANGED <<reusable, count, epoch, waiting, mut, sem, came, left>>

Pass(t) ==
    /\ Is(t, "look") /\ count = 0
    /\ Return(t)
    /\ UNCHANGED <<reusable, count, epoch, waiting, mut, sem, seen, came>>

\* Mutant: no second look.
MissedNone(t) == FALSE

Missed(t) == epoch # seen[t]

\* What wait does once the thread is off its stack.
Block(t) ==
    /\ Is(t, "block")
    /\ IF Missed(t) THEN Moves(t, "look") /\ UNCHANGED waiting
                    ELSE Moves(t, "asleep") /\ waiting' = waiting \cup {t}
    /\ UNCHANGED <<reusable, count, epoch, mut, sem, seen, came, left>>

\* notifyAll.
Release(t) ==
    /\ Is(t, "release")
    /\ epoch' = epoch + 1
    /\ step' = [u \in Party |-> IF u = t THEN "out" ELSE IF u \in waiting THEN "look" ELSE step[u]]
    /\ waiting' = {}
    /\ left' = [left EXCEPT ![t] = @ + 1]
    /\ UNCHANGED <<reusable, count, mut, sem, seen, came>>

-----------------------------------------------------------------------------
(* ReusableBarrier.                                                         *)

semaphores == <<reusable, epoch, waiting, came>>

DownMut(t) ==
    /\ Is(t, "downMut") /\ mut > 0
    /\ mut' = mut - 1
    /\ Moves(t, "increment")
    /\ UNCHANGED <<semaphores, count, sem, seen, left>>

DownSem(t) ==
    /\ Is(t, "downSem") /\ sem > 0
    /\ sem' = sem - 1
    /\ Moves(t, "decrement")
    /\ UNCHANGED <<semaphores, count, mut, seen, left>>

Read(t) ==
    /\ step[t] \in {"increment", "decrement"}
    /\ seen' = [seen EXCEPT ![t] = count]
    /\ Moves(t, IF Is(t, "increment") THEN "more" ELSE "less")
    /\ UNCHANGED <<semaphores, count, mut, sem, left>>

More(t) ==
    /\ Is(t, "more")
    /\ count' = seen[t] + 1
    /\ Moves(t, IF count' = limit THEN "all" ELSE "some")
    /\ UNCHANGED <<semaphores, mut, sem, seen, left>>

Less(t) ==
    /\ Is(t, "less")
    /\ count' = seen[t] - 1
    /\ Moves(t, IF count' = 0 THEN "none" ELSE "others")
    /\ UNCHANGED <<semaphores, mut, sem, seen, left>>

\* The last to come opens sem, each that goes opens it for the next, and the last closes it.
UpSem(t) ==
    /\ step[t] \in {"all", "others"}
    /\ sem' = sem + 1
    /\ IF Is(t, "all") THEN Moves(t, "downSem") /\ UNCHANGED left ELSE Return(t)
    /\ UNCHANGED <<semaphores, count, mut, seen>>

UpMut(t) ==
    /\ step[t] \in {"some", "none"}
    /\ mut' = mut + 1
    /\ IF Is(t, "some") THEN Moves(t, "downSem") /\ UNCHANGED left ELSE Return(t)
    /\ UNCHANGED <<semaphores, count, sem, seen>>

-----------------------------------------------------------------------------
BarrierInit ==
    /\ reusable \in BOOLEAN
    /\ count = IF reusable THEN 0 ELSE limit
    /\ epoch = 0 /\ waiting = {}
    /\ mut = 1 /\ sem = 0
    /\ seen = [t \in Party |-> 0]
    /\ step = [t \in Party |-> "out"]
    /\ came = [t \in Party |-> 0] /\ left = [t \in Party |-> 0]

Inside(t) == \/ Arrive(t) \/ Look(t) \/ Pass(t) \/ Block(t) \/ Release(t)
             \/ DownMut(t) \/ DownSem(t) \/ Read(t) \/ More(t) \/ Less(t) \/ UpSem(t) \/ UpMut(t)
BarrierNext == \E t \in Party : Sync(t) \/ Inside(t)

\* The scheduler runs whoever can run (module Threads); nobody has to come.
BarrierSpec ==
    /\ BarrierInit /\ [][BarrierNext]_barrierVars
    /\ \A t \in Party : WF_barrierVars(Inside(t))

-----------------------------------------------------------------------------
(* Properties.                                                              *)

Promise == INSTANCE Rendezvous

\* sync of both barriers keeps everyone until all have come, and then lets everyone go, also
\* those that come round again while others are on their way out (barrier.h:57).
AllTogether == Promise!RendezvousSpec
=============================================================================
