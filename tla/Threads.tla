------------------------------ MODULE Threads ------------------------------
(***************************************************************************)
(* The thread package (src/kernel/threads.h, threads.cc, context.S and the *)
(* timer handler of pit.cc) with its two clients that put threads to       *)
(* sleep: Semaphore (semaphore.h) and the reaper's Condition (condition.h).*)
(*                                                                         *)
(* A core executes on the stack of on[c]; activeThreads[c] is what the     *)
(* kernel believes.  block() picks the next thread, switches stacks and    *)
(* then runs the caller's handler on the target's stack with interrupts    *)
(* off: act[c].  The timer may interrupt whatever runs with interrupts on. *)
(* A critical section of an InterruptSafeLock is one step: it neither      *)
(* blocks nor is interrupted.  The idle TCB of core c is called c.         *)
(***************************************************************************)
EXTENDS Naturals, Sequences, FiniteSets

CONSTANTS Core,      \* the processors, and their idle TCBs
          Thread,    \* TCBs of all other threads
          Reaper,    \* the thread that deletes the stopped ones
          Started,   \* the threads created at boot, in the order of readyQ
          User,      \* the threads that run a process with its own cr3
          Does,      \* Does[t]: what the program of t does
          Permits,   \* the semaphore's initial count
          Nil, Kpd   \* no TCB; the kernel's page directory

TCB == Core \cup Thread

ASSUME ThreadsAssumption ==
    /\ Core \cap Thread = {}
    /\ Reaper \in Thread \ User /\ User \subseteq Thread
    /\ Started \in Seq(Thread)
    /\ \A i, j \in DOMAIN Started : Started[i] = Started[j] => i = j
    /\ \E i \in DOMAIN Started : Started[i] = Reaper
    /\ Does \in [Thread -> SUBSET {"yield", "sem", "spawn", "stop"}]
    /\ Permits \in Nat
    /\ Nil \notin TCB /\ Kpd \notin TCB

VARIABLES on,             \* the thread whose stack a core runs on
          activeThreads,
          cr3,            \* the page directory a core has loaded
          no_preempt,
          pc,             \* where each thread is
          calls,          \* its calls of block: why, where they return to, and
                          \* the locals core_id and next_tcb
          act,            \* the handler a core has to run, and for whom
          victim,         \* the thread a thread is about to wake or delete
          readyQ,
          count, waiting, \* the semaphore
          zombies, sleepers, signalled   \* the reaper and its condition

sched == <<on, activeThreads, cr3, no_preempt, act>>
sem == <<count, waiting>>
reaping == <<zombies, sleepers, signalled>>
vars == <<sched, pc, calls, victim, readyQ, sem, reaping>>

Pd(t) == IF t \in User THEN t ELSE Kpd
Elems(s) == {s[i] : i \in DOMAIN s}

NoAct == [who |-> Nil, kind |-> "stop"]

\* Every core has reached stop() on its idle thread; the threads started so far
\* are ready.
Starts(t) == IF t \in Core THEN "stop"
             ELSE IF t \notin Elems(Started) THEN "unborn"
             ELSE IF t = Reaper THEN "reap" ELSE "run"
Init ==
    /\ on = [c \in Core |-> c] /\ activeThreads = [c \in Core |-> c]
    /\ cr3 = [c \in Core |-> Kpd]
    /\ no_preempt = [t \in TCB |-> FALSE]
    /\ pc = [t \in TCB |-> Starts(t)]
    /\ calls = [t \in TCB |-> <<>>]
    /\ act = [c \in Core |-> NoAct]
    /\ victim = [t \in Thread |-> Nil]
    /\ readyQ = Started
    /\ count = Permits /\ waiting = <<>>
    /\ zombies = <<>> /\ sleepers = <<>> /\ signalled = FALSE

-----------------------------------------------------------------------------
\* The thread on core c is at l, and nothing is left to do for the one before.
At(c, l) == act[c] = NoAct /\ pc[on[c]] = l

Goto(t, l) == pc' = [pc EXCEPT ![t] = l]

\* A call of block with a handler of the given kind, and t making it.
Frame(why, back, c) == [why |-> why, back |-> back, core |-> c, next |-> Nil]
Call(t, why, back) ==
    /\ calls' = [calls EXCEPT ![t] = <<Frame(why, back, Nil)>> \o @]
    /\ Goto(t, "block")

\* block returns to t.
Return(t) == /\ Goto(t, Head(calls[t]).back)
             /\ calls' = [calls EXCEPT ![t] = Tail(@)]

Blk(t) == Head(calls[t])
CanReturn(t) == Blk(t).why \in {"yield", "tick", "wait"}

Scheduled(q, t) == IF t \in Core THEN q ELSE Append(q, t)

-----------------------------------------------------------------------------
(* block(), up to the stack switch.  The thread on c believes it runs on    *)
(* core core_id, and from here on it is not preempted.                     *)

Protect(c) ==
    LET t == on[c]
    IN /\ At(c, "block")
       /\ no_preempt' = [no_preempt EXCEPT ![activeThreads[c]] = TRUE]
       /\ calls' = [calls EXCEPT ![t][1].core = c]
       /\ Goto(t, "pick")
       /\ UNCHANGED <<on, activeThreads, cr3, act, victim, readyQ, sem, reaping>>

\* readyQ.remove(); with nothing ready an idle thread goes on waiting here.
Pick(c) ==
    LET t == on[c]
    IN /\ At(c, "pick")
       /\ \/ /\ readyQ # <<>>
             /\ calls' = [calls EXCEPT ![t][1].next = Head(readyQ)]
             /\ readyQ' = Tail(readyQ)
             /\ Goto(t, "guard")
             /\ UNCHANGED no_preempt
          \/ /\ readyQ = <<>> /\ CanReturn(t)
             /\ no_preempt' = [no_preempt EXCEPT ![t] = FALSE]
             /\ Return(t)
             /\ UNCHANGED readyQ
          \/ /\ readyQ = <<>> /\ ~CanReturn(t) /\ t \notin Core
             /\ calls' = [calls EXCEPT ![t][1].next = Blk(t).core]
             /\ Goto(t, "guard")
             /\ UNCHANGED <<no_preempt, readyQ>>
       /\ UNCHANGED <<on, activeThreads, cr3, act, victim, sem, reaping>>

\* Mutant: the next thread is not protected.
GuardForgotten(n) == no_preempt
Guarded(n) == [no_preempt EXCEPT ![n] = TRUE]

GuardNext(c) ==
    LET t == on[c]
    IN /\ At(c, "guard")
       /\ no_preempt' = Guarded(Blk(t).next)
       /\ Goto(t, "claim")
       /\ UNCHANGED <<on, activeThreads, cr3, act, calls, victim, readyQ, sem, reaping>>

Claim(c) ==
    LET t == on[c]
    IN /\ At(c, "claim")
       /\ activeThreads' = [activeThreads EXCEPT ![Blk(t).core] = Blk(t).next]
       /\ Goto(t, "load")
       /\ UNCHANGED <<on, cr3, no_preempt, act, calls, victim, readyQ, sem, reaping>>

\* Mutant: kernel threads need no address space of their own.
LoadedLazily(c, n) == IF n \in User THEN n ELSE cr3[c]
\* The page directory a core uses for thread n.
Loaded(c, n) == Pd(n)

LoadCr3(c) ==
    LET t == on[c]
    IN /\ At(c, "load")
       /\ cr3' = [cr3 EXCEPT ![c] = Loaded(c, Blk(t).next)]
       /\ Goto(t, "switch")
       /\ UNCHANGED <<on, activeThreads, no_preempt, act, calls, victim, readyQ, sem, reaping>>

\* Mutant: the next thread stays protected.
StaysProtected(t, n) == [no_preempt EXCEPT ![t] = FALSE]
\* The flags after the switch from t to n.
Preemptible(t, n) == [no_preempt EXCEPT ![t] = FALSE, ![n] = FALSE]

\* gheith_contextSwitch: interrupts off, both threads preemptible again, the
\* other stack, the handler to run.  When t is switched to it will be back from
\* block.
Switch(c) ==
    LET t == on[c]
        n == Blk(t).next
    IN /\ At(c, "switch")
       /\ no_preempt' = Preemptible(t, n)
       /\ on' = [on EXCEPT ![c] = n]
       /\ act' = [act EXCEPT ![c] = [who |-> t, kind |-> Blk(t).why]]
       /\ Return(t)
       /\ UNCHANGED <<activeThreads, cr3, victim, readyQ, sem, reaping>>

-----------------------------------------------------------------------------
(* The handlers, on the target's stack with interrupts off.                 *)

Handler(c, kind) == act[c].who # Nil /\ act[c].kind = kind
Handled(c) == act' = [act EXCEPT ![c] = NoAct]

\* Mutant: who did not go to sleep is forgotten.
Forget(a) == NoAct
\* The thread left behind need not sleep: schedule it.
Reschedule(a) == [a EXCEPT !.kind = "yield"]

\* yield, also the timer's: the thread left behind is ready.
HandleYield(c) ==
    /\ Handler(c, "yield") \/ Handler(c, "tick")
    /\ readyQ' = Scheduled(readyQ, act[c].who)
    /\ Handled(c)
    /\ UNCHANGED <<on, activeThreads, cr3, no_preempt, pc, calls, victim, sem, reaping>>

\* Mutants: nobody looks; only the first look counts.
FreeAlways == TRUE
LooksOnce == FALSE
\* Semaphore: is there a permit, now and at the second look?
Free == count > 0
FreeAgain == Free

\* Semaphore::down looks again: take the permit and be ready, or wait.
HandleDown(c) ==
    /\ Handler(c, "down")
    /\ IF FreeAgain
       THEN /\ count' = count - 1
            /\ act' = [act EXCEPT ![c] = Reschedule(@)]
            /\ UNCHANGED waiting
       ELSE /\ waiting' = Append(waiting, act[c].who)
            /\ Handled(c)
            /\ UNCHANGED count
    /\ UNCHANGED <<on, activeThreads, cr3, no_preempt, pc, calls, victim, readyQ, reaping>>

\* Mutant: no epoch.
NeverMissed == FALSE
Missed == signalled

\* Condition::wait: sleep unless there was a notify since the lock was released.
HandleWait(c) ==
    /\ Handler(c, "wait")
    /\ IF Missed
       THEN /\ act' = [act EXCEPT ![c] = Reschedule(@)]
            /\ UNCHANGED sleepers
       ELSE /\ sleepers' = Append(sleepers, act[c].who)
            /\ Handled(c)
    /\ UNCHANGED <<on, activeThreads, cr3, no_preempt, pc, calls, victim, readyQ, sem,
                   zombies, signalled>>

\* Condition::notifyOne, with the lock held.
Notify == /\ signalled' = TRUE
          /\ IF sleepers = <<>>
             THEN UNCHANGED <<sleepers, readyQ>>
             ELSE /\ sleepers' = Tail(sleepers)
                  /\ readyQ' = Scheduled(readyQ, Head(sleepers))

\* stop: an idle thread just leaves the core, another goes to the reaper, which
\* is notified under the same lock.
HandleStop(c) ==
    /\ Handler(c, "stop")
    /\ IF act[c].who \in Core
       THEN UNCHANGED <<reaping, readyQ>>
       ELSE /\ zombies' = Append(zombies, act[c].who)
            /\ Notify
    /\ Handled(c)
    /\ UNCHANGED <<on, activeThreads, cr3, no_preempt, pc, calls, victim, sem>>

-----------------------------------------------------------------------------
(* What threads do.  A thread's program is any sequence of Does[t].         *)

Running(c, what) == At(c, "run") /\ what \in Does[on[c]]

Yield(c) ==
    /\ Running(c, "yield")
    /\ Call(on[c], "yield", "run")
    /\ UNCHANGED <<sched, victim, readyQ, sem, reaping>>

\* Semaphore::down; the permit is held at "crit".
Down(c) ==
    /\ Running(c, "sem")
    /\ IF Free
       THEN /\ count' = count - 1
            /\ Goto(on[c], "crit")
            /\ UNCHANGED calls
       ELSE /\ Call(on[c], "down", "crit")
            /\ UNCHANGED count
    /\ UNCHANGED <<sched, victim, readyQ, waiting, reaping>>

\* Mutant: up does not look for those who wait.
NobodyWaits == FALSE
SomeoneWaits == waiting # <<>>

\* Mutant: a permit for the waiter and one for count.
AlwaysGiven == count + 1
\* count after an up.
Given == IF SomeoneWaits THEN count ELSE count + 1

\* Semaphore::up, under its lock: the permit goes to a waiter or to count.
Up(c) ==
    /\ At(c, "crit")
    /\ count' = Given
    /\ IF SomeoneWaits
       THEN /\ waiting' = Tail(waiting)
            /\ victim' = [victim EXCEPT ![on[c]] = Head(waiting)]
            /\ Goto(on[c], "wake")
       ELSE /\ Goto(on[c], "run")
            /\ UNCHANGED <<waiting, victim>>
    /\ UNCHANGED <<sched, calls, readyQ, reaping>>

\* ... and after it: the waiter is ready.
Wake(c) ==
    /\ At(c, "wake")
    /\ readyQ' = Scheduled(readyQ, victim[on[c]])
    /\ victim' = [victim EXCEPT ![on[c]] = Nil]
    /\ Goto(on[c], "run")
    /\ UNCHANGED <<sched, calls, sem, reaping>>

\* thread(): first delete_zombies().
Spawn(c) ==
    /\ Running(c, "spawn")
    /\ Goto(on[c], "sweep")
    /\ UNCHANGED <<sched, calls, victim, readyQ, sem, reaping>>

Sweep(c) ==
    /\ At(c, "sweep")
    /\ IF zombies = <<>>
       THEN Goto(on[c], "spawn") /\ UNCHANGED <<zombies, victim>>
       ELSE /\ zombies' = Tail(zombies)
            /\ victim' = [victim EXCEPT ![on[c]] = Head(zombies)]
            /\ Goto(on[c], "bury")
    /\ UNCHANGED <<sched, calls, readyQ, sem, sleepers, signalled>>

\* delete: the stack and the process of the victim are gone.
Bury(c) ==
    LET t == on[c]
    IN /\ At(c, "bury")
       /\ pc' = [pc EXCEPT ![victim[t]] = "unborn",
                           ![t] = IF t = Reaper THEN "reap" ELSE "sweep"]
       /\ calls' = [calls EXCEPT ![victim[t]] = <<>>]
       /\ victim' = [victim EXCEPT ![t] = Nil]
       /\ UNCHANGED <<sched, readyQ, sem, reaping>>

\* A new TCB, ready.  Bound: the TCBs of Thread; with none left nothing happens.
Create(c) ==
    /\ At(c, "spawn")
    /\ \/ \E u \in Thread :
            /\ pc[u] = "unborn"
            /\ pc' = [pc EXCEPT ![u] = "run", ![on[c]] = "run"]
            /\ readyQ' = Scheduled(readyQ, u)
       \/ /\ \A u \in Thread : pc[u] # "unborn"
          /\ Goto(on[c], "run")
          /\ UNCHANGED readyQ
    /\ UNCHANGED <<sched, calls, victim, sem, reaping>>

\* The program of a thread is over: entry() calls stop().
Finish(c) ==
    /\ Running(c, "stop")
    /\ Goto(on[c], "stop")
    /\ UNCHANGED <<sched, calls, victim, readyQ, sem, reaping>>

\* The loop of stop(), where the idle threads live.
Stop(c) ==
    /\ At(c, "stop")
    /\ Call(on[c], "stop", "stop")
    /\ UNCHANGED <<sched, victim, readyQ, sem, reaping>>

\* The reaper, holding its mutex: take a zombie, or remember the epoch and wait.
Reap(c) ==
    /\ At(c, "reap")
    /\ IF zombies # <<>>
       THEN /\ zombies' = Tail(zombies)
            /\ victim' = [victim EXCEPT ![Reaper] = Head(zombies)]
            /\ Goto(Reaper, "bury")
            /\ UNCHANGED <<calls, signalled>>
       ELSE /\ signalled' = FALSE
            /\ Call(Reaper, "wait", "reap")
            /\ UNCHANGED <<zombies, victim>>
    /\ UNCHANGED <<sched, readyQ, sem, sleepers>>

Interruptible(t) == ~no_preempt[t]

\* apitHandler: the thread that the kernel believes to be running yields, with
\* interrupts off from the interrupt to the stack switch.
Tick(c) ==
    LET me == activeThreads[c]
    IN /\ act[c] = NoAct
       /\ me \notin Core /\ Interruptible(me)
       /\ no_preempt' = [no_preempt EXCEPT ![me] = TRUE]
       /\ calls' = [calls EXCEPT ![on[c]] = <<Frame("tick", pc[on[c]], c)>> \o @]
       /\ Goto(on[c], "pick")
       /\ UNCHANGED <<on, activeThreads, cr3, act, victim, readyQ, sem, reaping>>

-----------------------------------------------------------------------------
Block(c) == Pick(c) \/ GuardNext(c) \/ Claim(c) \/ LoadCr3(c) \/ Switch(c)
Handle(c) == HandleYield(c) \/ HandleDown(c) \/ HandleWait(c) \/ HandleStop(c)
Own(c) == Protect(c) \/ Up(c) \/ Wake(c) \/ Sweep(c) \/ Bury(c) \/ Create(c)
          \/ Stop(c) \/ Reap(c)
Program(c) == Yield(c) \/ Down(c) \/ Spawn(c) \/ Finish(c)

Next == \E c \in Core : Block(c) \/ Handle(c) \/ Own(c) \/ Program(c) \/ Tick(c)

Spec == Init /\ [][Next]_vars

\* Cores run and their timers fire; a time slice is long enough for a step of the
\* thread it is given to.  What a thread does at "run" is up to its program.
FairSpec ==
    /\ Spec
    /\ \A c \in Core : WF_vars(Block(c) \/ Handle(c)) /\ WF_vars(Tick(c))
    /\ \A t \in TCB : SF_vars(\E c \in Core : on[c] = t /\ Own(c))

-----------------------------------------------------------------------------
(* Safety.                                                                  *)

InBlock(c) == act[c] = NoAct /\ pc[on[c]] \in {"pick", "guard", "claim", "load", "switch"}

\* A core that the timer may preempt knows which thread it runs, and a thread
\* inside block() is still on the core whose entry of activeThreads it changes.
\* (block, threads.h:124-137, "Why is this safe?": the order of the no_preempt
\* flags, activeThreads and the switch.)
PreemptionSafe ==
    \A c \in Core :
        /\ act[c] = NoAct /\ ~no_preempt[activeThreads[c]] => activeThreads[c] = on[c]
        /\ InBlock(c) => Blk(on[c]).core = c

\* Where a thread can be reached from.
Places(t) ==
    {<<"on", c>> : c \in {d \in Core : on[d] = t}}
    \cup {<<"left", c>> : c \in {d \in Core : act[d].who = t}}
    \cup {<<"next", u>> : u \in {v \in TCB : \E i \in DOMAIN calls[v] : calls[v][i].next = t}}
    \cup {<<"held", u>> : u \in {v \in Thread : victim[v] = t}}
    \cup {<<"ready", i>> : i \in {j \in DOMAIN readyQ : readyQ[j] = t}}
    \cup {<<"waiting", i>> : i \in {j \in DOMAIN waiting : waiting[j] = t}}
    \cup {<<"sleepers", i>> : i \in {j \in DOMAIN sleepers : sleepers[j] = t}}
    \cup {<<"zombies", i>> : i \in {j \in DOMAIN zombies : zombies[j] = t}}

\* A thread that exists is in exactly one place: none is lost, runs on two cores,
\* is queued while a core is still on its stack, or is deleted while reachable
\* (TCB::next links it into one queue; the handlers of block run on the other
\* stack for this reason).
InOnePlace ==
    \A t \in Thread : Cardinality(Places(t)) = IF pc[t] = "unborn" THEN 0 ELSE 1

\* A core runs a thread in that thread's address space, and never keeps the page
\* directory of a thread that was deleted: ~Process has freed it
\* (threads.h:128-135; process.h:44-47).
AddressSpaceLoaded ==
    \A c \in Core : /\ cr3[c] # Kpd => pc[cr3[c]] # "unborn"
                    /\ InBlock(c) \/ cr3[c] = Pd(on[c])

\* The permits that are held are those that are gone: threads past down, those
\* that an up has chosen, and those ready again with the permit they got.
Holds(t) ==
    /\ \/ pc[t] = "crit"
       \/ \E i \in DOMAIN calls[t] : calls[t][i].back = "crit"
    /\ t \notin Elems(waiting)
    /\ \A i \in DOMAIN calls[t] : calls[t][i].why # "down"
    /\ \A c \in Core : act[c] # [who |-> t, kind |-> "down"]

\* Semaphore: permits are neither lost nor made (semaphore.h:18-73), so at most
\* Permits threads are between down and up ("semaphores provide mutual
\* exclusion", src/etan.dir/README:47).
PermitsExact == count + Cardinality({t \in Thread : Holds(t)}) = Permits

\* Semaphore: nobody waits while a permit is free, although down releases its
\* lock before it blocks (semaphore.h:29-57).
NoIdlePermit == count > 0 => waiting = <<>>

\* Condition: the reaper sleeps only when there is nothing to reap, although wait
\* releases the mutex before it blocks (condition.h:66-94).
NoMissedNotify == sleepers # <<>> => zombies = <<>>

-----------------------------------------------------------------------------
(* Liveness, under FairSpec.                                                *)

\* Preemption: a ready thread gets a core, whatever the others do (pit.cc:138-148).
ReadyRuns == \A t \in Thread : t \in Elems(readyQ) ~> \E c \in Core : on[c] = t

\* A thread waiting in down gets its permit and runs with it (semaphore.h:60-73).
DownReturns ==
    \A t \in Thread : t \in Elems(waiting) ~> pc[t] = "crit" /\ \E c \in Core : on[c] = t

\* A stopped thread is deleted (threads.cc:54-79).
Reaped == \A t \in Thread : t \in Elems(zombies) ~> pc[t] = "unborn"
=============================================================================
