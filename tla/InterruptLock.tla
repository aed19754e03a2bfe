--------------------------- MODULE InterruptLock ---------------------------
(***************************************************************************)
(* InterruptSafeLock (src/kernel/atomic.h:200), the spin lock under every  *)
(* queue, semaphore and count of the kernel.  Who takes it turns the       *)
(* interrupts of its core off, and the lock remembers in `was` whether     *)
(* they already were, for unlock to put them back.  The code asks "Is this *)
(* correct?".                                                              *)
(*                                                                         *)
(* A core runs a thread, or an interrupt handler on top of it; both take   *)
(* locks, one inside another, the inner released first (LockGuard).  Locks *)
(* are numbers and are nested in their order.  The accesses to `taken`,    *)
(* `was` and the interrupt flag are one step each.                         *)
(***************************************************************************)
EXTENDS Integers

CONSTANTS Core, Lock

ASSUME InterruptLockAssumption == Lock \subseteq Nat

Level == {"thread", "handler"}
Context == Core \X Level

VARIABLES taken, was,  \* of a lock
          enabled,     \* enabled[c]: the interrupt flag of core c
          nested,      \* nested[c]: core c is in an interrupt handler
          pc, lock,    \* pc[x]: where x is in lock() or unlock(), lock[x]: of which lock
          saved,       \* saved[x]: wasDisabled
          held,        \* held[x]: the locks x has
          wanted       \* wanted[c]: the flag as the thread of c set it outside of locks

vars == <<taken, was, enabled, nested, pc, lock, saved, held, wanted>>

Coreof(x) == x[1]
Running(x) == x[2] = IF nested[Coreof(x)] THEN "handler" ELSE "thread"

At(x, from) == Running(x) /\ pc[x] = from
Goes(x, to) == pc' = [pc EXCEPT ![x] = to]

\* lock() of a lock inside those x has.
Enter(x) ==
    /\ At(x, "out")
    /\ \E l \in Lock : /\ \A k \in held[x] : k < l
                       /\ lock' = [lock EXCEPT ![x] = l]
    /\ Goes(x, "flags")
    /\ UNCHANGED <<taken, was, enabled, nested, saved, held, wanted>>

\* isDisabled().
Flags(x) ==
    /\ At(x, "flags")
    /\ saved' = [saved EXCEPT ![x] = ~enabled[Coreof(x)]]
    /\ Goes(x, "cli")
    /\ UNCHANGED <<taken, was, enabled, nested, lock, held, wanted>>

\* Mutant: the interrupts stay on.
LeftOn(x) == enabled

\* cli, unless they were off.
Off(x) == [enabled EXCEPT ![Coreof(x)] = IF saved[x] THEN @ ELSE FALSE]

Cli(x) ==
    /\ At(x, "cli")
    /\ enabled' = Off(x)
    /\ Goes(x, "exchange")
    /\ UNCHANGED <<taken, was, nested, lock, saved, held, wanted>>

\* Mutant: the lock is taken whether or not it is free.
FreeAlways(l) == TRUE

IsFree(l) == ~taken[l]

\* taken.exchange(true): the lock is x's, or x tries again.
Take(x) ==
    /\ At(x, "exchange")
    /\ IsFree(lock[x])
    /\ taken' = [taken EXCEPT ![lock[x]] = TRUE]
    /\ held' = [held EXCEPT ![x] = @ \cup {lock[x]}]
    /\ Goes(x, "store")
    /\ UNCHANGED <<was, enabled, nested, lock, saved, wanted>>

Miss(x) ==
    /\ At(x, "exchange")
    /\ ~IsFree(lock[x])
    /\ Goes(x, "again")
    /\ UNCHANGED <<taken, was, enabled, nested, lock, saved, held, wanted>>

\* restore: sti, unless they were off.
On(x) == [enabled EXCEPT ![Coreof(x)] = IF saved[x] THEN @ ELSE TRUE]

Again(x) ==
    /\ At(x, "again")
    /\ enabled' = On(x)
    /\ Goes(x, "flags")
    /\ UNCHANGED <<taken, was, nested, lock, saved, held, wanted>>

\* The holder leaves in the lock what the flag was.
Store(x) ==
    /\ At(x, "store")
    /\ was' = [was EXCEPT ![lock[x]] = saved[x]]
    /\ Goes(x, "out")
    /\ UNCHANGED <<taken, enabled, nested, lock, saved, held, wanted>>

\* unlock() of the innermost lock: was is read, the lock let go, the flag put back.
Leave(x) ==
    /\ At(x, "out")
    /\ \E l \in held[x] : /\ \A k \in held[x] : k <= l
                          /\ lock' = [lock EXCEPT ![x] = l]
                          /\ saved' = [saved EXCEPT ![x] = was[l]]
    /\ Goes(x, "clear")
    /\ UNCHANGED <<taken, was, enabled, nested, held, wanted>>

Clear(x) ==
    /\ At(x, "clear")
    /\ taken' = [taken EXCEPT ![lock[x]] = FALSE]
    /\ held' = [held EXCEPT ![x] = @ \ {lock[x]}]
    /\ Goes(x, "restore")
    /\ UNCHANGED <<was, enabled, nested, lock, saved, wanted>>

\* Mutant: interrupts are enabled, whatever they were.
OnAlways(x) == [enabled EXCEPT ![Coreof(x)] = TRUE]

Restored(x) == On(x)

Restore(x) ==
    /\ At(x, "restore")
    /\ enabled' = Restored(x)
    /\ Goes(x, "out")
    /\ UNCHANGED <<taken, was, nested, lock, saved, held, wanted>>

\* The thread turns interrupts off or on itself (Interrupts::protect), outside of locks.
Protect(c) ==
    LET x == <<c, "thread">>
    IN  /\ At(x, "out")
        /\ held[x] = {}
        /\ enabled' = [enabled EXCEPT ![c] = ~@]
        /\ wanted' = [wanted EXCEPT ![c] = ~enabled[c]]
        /\ UNCHANGED <<taken, was, nested, pc, lock, saved, held>>

\* The hardware, through an interrupt gate.
Interrupt(c) ==
    /\ enabled[c]
    /\ ~nested[c]
    /\ nested' = [nested EXCEPT ![c] = TRUE]
    /\ enabled' = [enabled EXCEPT ![c] = FALSE]
    /\ UNCHANGED <<taken, was, pc, lock, saved, held, wanted>>

Iret(c) ==
    LET x == <<c, "handler">>
    IN  /\ At(x, "out")
        /\ held[x] = {}
        /\ nested' = [nested EXCEPT ![c] = FALSE]
        /\ enabled' = [enabled EXCEPT ![c] = TRUE]
        /\ UNCHANGED <<taken, was, pc, lock, saved, held, wanted>>

Init ==
    /\ taken = [l \in Lock |-> FALSE]
    /\ was = [l \in Lock |-> FALSE]
    /\ enabled = [c \in Core |-> FALSE]
    /\ nested = [c \in Core |-> FALSE]
    /\ pc = [x \in Context |-> "out"]
    /\ lock \in [Context -> Lock]
    /\ saved = [x \in Context |-> FALSE]
    /\ held = [x \in Context |-> {}]
    /\ wanted = [c \in Core |-> FALSE]

Move(x) ==
    \/ Enter(x) \/ Flags(x) \/ Cli(x) \/ Take(x) \/ Miss(x) \/ Again(x) \/ Store(x)
    \/ Leave(x) \/ Clear(x) \/ Restore(x)
Outside(c) == Protect(c) \/ Interrupt(c) \/ Iret(c)
Next == (\E x \in Context : Move(x)) \/ (\E c \in Core : Outside(c))

Spec == Init /\ [][Next]_vars

-----------------------------------------------------------------------------
(* Properties.                                                              *)

Stages == {"out", "flags", "cli", "exchange", "store", "again", "clear", "restore"}

TypeOK ==
    /\ taken \in [Lock -> BOOLEAN] /\ was \in [Lock -> BOOLEAN]
    /\ enabled \in [Core -> BOOLEAN] /\ nested \in [Core -> BOOLEAN]
    /\ wanted \in [Core -> BOOLEAN]
    /\ pc \in [Context -> Stages]
    /\ lock \in [Context -> Lock]
    /\ saved \in [Context -> BOOLEAN]
    /\ held \in [Context -> SUBSET Lock]

\* The locks x has around the one it is taking or releasing, and the flag outside of all
\* locks and outside of that one.
Around(x) == IF pc[x] \in {"store", "clear"} THEN held[x] \ {lock[x]} ELSE held[x]
Outer(x) == x[2] = "thread" /\ wanted[Coreof(x)]
Flag(x) == Outer(x) /\ Around(x) = {}

Ordered(x) ==
    /\ pc[x] # "out" => \A k \in Around(x) : k < lock[x]
    /\ pc[x] \in {"store", "clear"} => lock[x] \in held[x]
\* Only the outermost lock remembers the flag outside; in the others it was off.
Remembered(x) ==
    \A l \in held[x] : \/ pc[x] = "store" /\ l = lock[x]
                       \/ was[l] <=> ~(Outer(x) /\ \A k \in held[x] : l <= k)
Carried(x) == pc[x] \in Stages \ {"out", "flags"} => (saved[x] <=> ~Flag(x))
Shown(x) == Running(x) => (enabled[Coreof(x)] <=> Flag(x) /\ pc[x] \in {"out", "flags", "cli"})
Suspended(x) ==
    ~Running(x) => /\ held[x] = {}
                   /\ pc[x] \in {"out", "flags", "cli"}
                   /\ IF x[2] = "thread" THEN Outer(x) ELSE pc[x] = "out"

Local(x) == Ordered(x) /\ Remembered(x) /\ Carried(x) /\ Shown(x) /\ Suspended(x)

\* Two contexts never have one lock (the exchange of atomic.h:218), and one that is not
\* taken is nobody's.
MutualExclusion ==
    \A x, y \in Context : \A l \in held[x] : taken[l] /\ (l \in held[y] => x = y)

\* Interrupts are off on the core of a context that has a lock, so a thread is not
\* interrupted, and not preempted, inside a lock: a handler never spins for the thread below.
HeldDisabled ==
    \A x \in Context : held[x] # {} => Running(x) /\ ~enabled[Coreof(x)]

\* When the outermost unlock is over the flag is what it was before the lock, however locks
\* were nested and whoever had them in between; a handler runs with interrupts off.
FlagKept ==
    \A c \in Core :
        /\ ~nested[c] /\ pc[<<c, "thread">>] = "out" /\ held[<<c, "thread">>] = {}
               => enabled[c] = wanted[c]
        /\ nested[c] => ~enabled[c]

\* What makes them inductive: every context, running or interrupted, knows the flag it has to
\* put back (wasDisabled and `was`, atomic.h:217, 219 and 228).
Inv == TypeOK /\ MutualExclusion /\ \A x \in Context : Local(x)
=============================================================================
