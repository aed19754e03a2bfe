------------------------------ MODULE PhysMem ------------------------------
(***************************************************************************)
(* The frame allocator and its reference counts (src/kernel/physmem.h and  *)
(* physmem.cc).  Counts live in tables that are frames themselves: entry k *)
(* of refs holds the frame of the table for frames k*PerTable and up and,  *)
(* in its low bits, how many of those have a count that is not zero.  A    *)
(* table is allocated by the first incref that needs it and freed by the   *)
(* decref that leaves it without counts.                                   *)
(*                                                                         *)
(* Each process (a core in the kernel) runs alloc_frame, incref or decref, *)
(* one step per atomic operation or critical section: reflock protects     *)
(* only the allocation of a table, not the counting, so that cores which   *)
(* make the first reference to frames of one table at once go wrong.       *)
(* Nothing in the code keeps them from it; Alone does where a run is about *)
(* the rest.                                                               *)
(***************************************************************************)
EXTENDS Naturals, Sequences, FiniteSets, Functions

CONSTANTS Proc,       \* cores in the kernel
          NFrames,    \* frames in [start, limit)
          PerTable,   \* counts in a table (2048 in the code)
          MaxRefs,    \* bound: references to one frame
          Alone       \* tables whose frames the cores work on one at a time

ASSUME PhysMemAssumption == /\ IsFiniteSet(Proc)
                            /\ NFrames \in Nat /\ NFrames > 1
                            /\ PerTable \in Nat \ {0} /\ MaxRefs \in Nat
                            /\ Alone \subseteq Nat

VARIABLES avail,      \* frames below it have been handed out at least once
          freeList,   \* firstFree and its chain
          refs,       \* refs[k]: the table's frame and the tally in its low bits
          rtb,        \* rtb[f][o]: frame f as a table of counts
          reflock,    \* held between incref's check and its store
          hold,       \* hold[p][f]: references p owns
          pc, frame, tab   \* each process: step, the frame it works on, its table

vars == <<avail, freeList, refs, rtb, reflock, hold, pc, frame, tab>>

Frame == 0 .. NFrames - 1
Ridx(f) == f \div PerTable
Rofs(f) == f % PerTable
Tables == {Ridx(f) : f \in Frame}
Blank == [o \in 0 .. PerTable - 1 |-> 0]

\* What a frame holds that was used for something else, read as counts.
Used == [o \in 0 .. PerTable - 1 |-> 1]

\* A frame that is not set: it is only ever compared.
None == NFrames

\* Counts are 16 bits wide.
MaxCount == 65535

Pcs == {"idle", "check", "store", "look", "add", "tally", "rent", "sub", "dealloc",
        "untally", "dropTable", "panic"}

\* vmm::global_init has mapped the APIC: frame 0 is its page table, with one
\* reference that is never dropped, and frame 1 is the table of that count.
Init == /\ avail = 2
        /\ freeList = <<>>
        /\ refs = [k \in Tables |-> IF k = 0 THEN [fr |-> 1, cnt |-> 1]
                                             ELSE [fr |-> None, cnt |-> 0]]
        /\ rtb = [f \in Frame |-> IF f = 1 THEN [Blank EXCEPT ![0] = 1] ELSE Used]
        /\ reflock = FALSE
        /\ hold = [p \in Proc |-> [f \in Frame |-> 0]]
        /\ pc = [p \in Proc |-> "idle"]
        /\ frame = [p \in Proc |-> None]
        /\ tab = [p \in Proc |-> None]

-----------------------------------------------------------------------------
(* unsafe_alloc_frame, dealloc_frame: each one critical section.            *)

Available == freeList # <<>> \/ avail < NFrames
Top == IF freeList # <<>> THEN Head(freeList) ELSE avail

Zeroed(f) == [rtb EXCEPT ![f] = Blank]

\* Takes frame Top and zeroes it; none left is a panic, and no step.
UnsafeAlloc == /\ Available
               /\ IF freeList # <<>>
                  THEN freeList' = Tail(freeList) /\ UNCHANGED avail
                  ELSE avail' = avail + 1 /\ UNCHANGED freeList
               /\ rtb' = Zeroed(Top)

Dealloc(f) == /\ freeList' = <<f>> \o freeList
              /\ UNCHANGED avail

Goto(p, step) == pc' = [pc EXCEPT ![p] = step]

-----------------------------------------------------------------------------
(* alloc_frame, incref.                                                     *)

Doing(steps, f) == {p \in Proc : pc[p] \in steps /\ frame[p] = f}
DoingIn(steps, k) == {p \in Proc : pc[p] \in steps /\ frame[p] # None /\ Ridx(frame[p]) = k}
Turn(f) == Ridx(f) \in Alone => DoingIn(Pcs, Ridx(f)) = {}

\* alloc_frame: take a frame, then incref it.
Alloc(p) == /\ pc[p] = "idle"
            /\ Turn(Top)
            /\ UnsafeAlloc
            /\ frame' = [frame EXCEPT ![p] = Top]
            /\ Goto(p, "check")
            /\ UNCHANGED <<refs, reflock, hold, tab>>

\* References to f that somebody owns.
Owned(f) == SumFunction([p \in Proc |-> hold[p][f]])

\* incref of a frame p has a reference to.
Share(p) == /\ pc[p] = "idle"
            /\ \E f \in Frame : /\ hold[p][f] > 0
                                /\ Owned(f) < MaxRefs
                                /\ Turn(f)
                                /\ frame' = [frame EXCEPT ![p] = f]
            /\ Goto(p, "check")
            /\ UNCHANGED <<avail, freeList, refs, rtb, reflock, hold, tab>>

\* Lock, and test refs[ridx] for a table in use.
Check(p) == /\ pc[p] = "check"
            /\ ~reflock
            /\ IF refs[Ridx(frame[p])].cnt = 0
               THEN reflock' = TRUE /\ Goto(p, "store")
               ELSE UNCHANGED reflock /\ Goto(p, "look")
            /\ UNCHANGED <<avail, freeList, refs, rtb, hold, frame, tab>>

\* A new table, its tally zero; unlock.
Store(p) == /\ pc[p] = "store"
            /\ UnsafeAlloc
            /\ refs' = [refs EXCEPT ![Ridx(frame[p])] = [fr |-> Top, cnt |-> 0]]
            /\ reflock' = FALSE
            /\ Goto(p, "look")
            /\ UNCHANGED <<hold, frame, tab>>

\* Read the table's address again, without the lock.
Look(p) == /\ pc[p] = "look"
           /\ tab' = [tab EXCEPT ![p] = refs[Ridx(frame[p])].fr]
           /\ Goto(p, "add")
           /\ UNCHANGED <<avail, freeList, refs, rtb, reflock, hold, frame>>

\* The count before the operation says whether the tally must follow.
FirstIfNewIsZero(c) == c + 1 = 0   \* mutant: tests the new count, not the old
First(c) == c = 0
LastIfOldIsZero(c) == c = 0        \* mutant: tests the old count, not the new
Last(c) == c = 1

CountedOnce(c) == 1   \* mutant: the count is set, not incremented
Counted(c) == c + 1

\* fetch_add on the count; the first reference must tally it.
Add(p) == /\ pc[p] = "add"
          /\ rtb' = [rtb EXCEPT ![tab[p]][Rofs(frame[p])] = Counted(@)]
          /\ IF First(rtb[tab[p]][Rofs(frame[p])])
             THEN Goto(p, "tally") /\ UNCHANGED <<hold, frame, tab>>
             ELSE /\ Goto(p, "idle")
                  /\ \E q \in Proc : hold' = [hold EXCEPT ![q][frame[p]] = @ + 1]
                  /\ frame' = [frame EXCEPT ![p] = None]
                  /\ tab' = [tab EXCEPT ![p] = None]
          /\ UNCHANGED <<avail, freeList, refs, reflock>>

Tally(p) == /\ pc[p] = "tally"
            /\ refs' = [refs EXCEPT ![Ridx(frame[p])].cnt = @ + 1]
            /\ hold' = [hold EXCEPT ![p][frame[p]] = @ + 1]
            /\ frame' = [frame EXCEPT ![p] = None]
            /\ tab' = [tab EXCEPT ![p] = None]
            /\ Goto(p, "idle")
            /\ UNCHANGED <<avail, freeList, rtb, reflock>>

-----------------------------------------------------------------------------
(* decref.                                                                  *)

\* Give up a reference.
Drop(p) == /\ pc[p] = "idle"
           /\ \E f \in Frame : /\ hold[p][f] > 0
                               /\ Turn(f)
                               /\ hold' = [hold EXCEPT ![p][f] = @ - 1]
                               /\ frame' = [frame EXCEPT ![p] = f]
           /\ Goto(p, "rent")
           /\ UNCHANGED <<avail, freeList, refs, rtb, reflock, tab>>

\* rent = refs[ridx], and its ASSERT: a failure stops the machine.
Rent(p) == /\ pc[p] = "rent"
           /\ tab' = [tab EXCEPT ![p] = refs[Ridx(frame[p])].fr]
           /\ Goto(p, IF refs[Ridx(frame[p])].cnt = 0 THEN "panic" ELSE "sub")
           /\ UNCHANGED <<avail, freeList, refs, rtb, reflock, hold, frame>>

\* sub_fetch on the count.
Sub(p) == /\ pc[p] = "sub"
          /\ rtb' = [rtb EXCEPT ![tab[p]][Rofs(frame[p])] = (@ + MaxCount) % (MaxCount + 1)]
          /\ IF Last(rtb[tab[p]][Rofs(frame[p])])
             THEN Goto(p, "dealloc") /\ UNCHANGED <<frame, tab>>
             ELSE /\ Goto(p, "idle")
                  /\ frame' = [frame EXCEPT ![p] = None]
                  /\ tab' = [tab EXCEPT ![p] = None]
          /\ UNCHANGED <<avail, freeList, refs, reflock, hold>>

\* The last reference: the frame itself, with whatever its owners wrote in it.
DeallocFrame(p) == /\ pc[p] = "dealloc"
                   /\ Dealloc(frame[p])
                   /\ rtb' = [rtb EXCEPT ![frame[p]] = Used]
                   /\ Goto(p, "untally")
                   /\ UNCHANGED <<refs, reflock, hold, frame, tab>>

\* sub_fetch on the tally, keeping the address it was read with.
Untally(p) == /\ pc[p] = "untally"
              /\ LET k == Ridx(frame[p])
                 IN /\ refs' = [refs EXCEPT ![k].cnt = @ - 1]
                    /\ IF refs[k].cnt = 1
                       THEN /\ Goto(p, "dropTable")
                            /\ tab' = [tab EXCEPT ![p] = refs[k].fr]
                       ELSE /\ Goto(p, "idle")
                            /\ tab' = [tab EXCEPT ![p] = None]
              /\ frame' = [frame EXCEPT ![p] = None]
              /\ UNCHANGED <<avail, freeList, rtb, reflock, hold>>

\* The table that counts nothing any more.
DropTable(p) == /\ pc[p] = "dropTable"
                /\ Dealloc(tab[p])
                /\ tab' = [tab EXCEPT ![p] = None]
                /\ Goto(p, "idle")
                /\ UNCHANGED <<refs, rtb, reflock, hold, frame>>

Next == \E p \in Proc :
           \/ Alloc(p) \/ Share(p) \/ Check(p) \/ Store(p) \/ Look(p) \/ Add(p) \/ Tally(p)
           \/ Drop(p) \/ Rent(p) \/ Sub(p) \/ DeallocFrame(p) \/ Untally(p) \/ DropTable(p)

Spec == Init /\ [][Next]_vars

-----------------------------------------------------------------------------
(* Properties.                                                              *)

\* All references to f: owned, counted but not handed over yet, or about to be dropped.
References(f) == Owned(f) + Cardinality(Doing({"tally", "rent", "sub"}, f))
                    + (IF f = 0 THEN 1 ELSE 0)

RefsExact ==
    \A f \in Frame : LET r == refs[Ridx(f)]
                     IN IF r.cnt > 0 THEN rtb[r.fr][Rofs(f)] = References(f)
                                     ELSE Owned(f) = 0

TallyExact ==
    \A k \in Tables : refs[k].cnt > 0 =>
        refs[k].cnt + Cardinality(DoingIn({"tally"}, k))
          = Cardinality({o \in DOMAIN Blank : rtb[refs[k].fr][o] > 0})
              + Cardinality(DoingIn({"dealloc", "untally"}, k))

\* Every count in a live table is the number of references to its frame, at
\* every point of any interleaving of incref and decref, and no frame with an
\* owner is without a live table (physmem.h:39-70).  The tally in refs is the
\* number of frames in the table that are counted, but for the operations that
\* have not got that far: no table is freed too early, and none is kept
\* without counts.
CountsExact == RefsExact /\ TallyExact

\* Frames somebody may use: owned, in the hands of an operation, or a table.
InUse == {f \in Frame : References(f) > 0}
            \cup {frame[p] : p \in {q \in Proc : pc[q] \in {"check", "store", "look", "add", "dealloc"}}}
            \cup {refs[k].fr : k \in {l \in Tables : \/ refs[l].cnt > 0
                                                     \/ DoingIn({"look", "add", "tally"}, l) # {}}}
            \cup {tab[p] : p \in {q \in Proc : pc[q] = "dropTable"}}
Free == Range(freeList) \cup avail .. NFrames - 1

\* Every frame is in use or free and never both, and on the free list at most
\* once: nothing is freed twice, freed while in use, or lost (physmem.cc:25-66).
FramesAccounted == /\ InUse \cap Free = {}
                   /\ InUse \cup Free = Frame
                   /\ \A i, j \in DOMAIN freeList : freeList[i] = freeList[j] => i = j
                   /\ \A i \in DOMAIN freeList : freeList[i] < avail

\* decref's ASSERT(rent & 0xfff): the table of a counted frame has a tally
\* (physmem.h:59-60).
AssertHolds == \A p \in Proc : pc[p] # "panic"
=============================================================================
