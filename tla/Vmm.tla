-------------------------------- MODULE Vmm --------------------------------
(***************************************************************************)
(* The virtual memory manager (src/kernel/vmm.cc) over the reference       *)
(* counted frames of src/kernel/physmem.h: page faults, copy-on-write      *)
(* fork, exec's clearing of an address space and its destruction, run by   *)
(* any number of processes at once on different cores.                     *)
(*                                                                         *)
(* A process runs one of these at a time; at[p] is its activation record.  *)
(* A step ends wherever another core could see a difference: at each       *)
(* operation on a reference count, at each allocation and at each copy of  *)
(* a page.  An entry of a table is cleared in the step that gives up its   *)
(* reference, and the order in which a loop visits a table's entries is    *)
(* an arbitrary fixed one.  Frames are interchangeable, so the allocator's *)
(* choice is an arbitrary fixed one too; running out of frames (a panic)   *)
(* disables the allocation.                                                *)
(***************************************************************************)
EXTENDS Integers, FiniteSets

CONSTANTS Proc,      \* process slots
          First,     \* the first user process
          Frame,     \* physical frames
          Idx,       \* indexes of a table (1024 in the code)
          Val,       \* contents of a page
          Zero,      \* a page of zeroes
          Junk,      \* whatever a freed frame still holds
          Touched,   \* the user addresses programs access
          Apic,      \* the pages of the user half that kpd maps globally
          NoFrame,   \* the address field of an entry that is not present
          ApicPT,    \* kpd's page table for Apic, shared by every process
          ApicPage   \* the device page it maps

VA == Idx \X Idx

ASSUME VmmAssumption ==
    /\ IsFiniteSet(Proc) /\ IsFiniteSet(Frame) /\ IsFiniteSet(Idx)
    /\ First \in Proc
    /\ Zero \in Val /\ Junk \notin Val
    /\ Touched \subseteq VA /\ Apic \subseteq VA
    /\ \A a, b \in Apic : a[1] = b[1]
    /\ Frame # {} /\ NoFrame \notin Frame /\ ApicPT \notin Frame /\ ApicPage \notin Frame
    /\ NoFrame # ApicPT /\ NoFrame # ApicPage

VARIABLES table,   \* table[f][i]: the entries of frame f used as a table
          page,    \* page[f]: what frame f holds when used as a page
          rc,      \* reference counts
          free,    \* frames the allocator may hand out
          cr3,     \* cr3[p]: the frame of p's page directory
          at       \* at[p]: what the kernel is doing for p

vars == <<table, page, rc, free, cr3, at>>

-----------------------------------------------------------------------------
(* Entries.  A present entry has a frame; P is that, and not a flag here.   *)

Flags == {"RW", "US", "NG", "G"}
UserFlagsShared == {"RW", "US"}   \* mutant: the page is not marked private
UserFlags == {"RW", "US", "NG"}
KernelFlags == {"RW", "G"}

Ent(f, flags) == [fr |-> f, flags |-> flags]
Absent == Ent(NoFrame, {})
Present(e) == e.fr # NoFrame
Private(e) == Present(e) /\ "NG" \in e.flags
Mixed(e) == Private(e) /\ "G" \in e.flags
EmptyTable == [i \in Idx |-> Absent]

\* What vmm::global_init puts in the user half: the APIC's page table.
ApicTable == [i \in Idx |-> IF \E a \in Apic : a[2] = i
                            THEN Ent(ApicPage, KernelFlags) ELSE Absent]
Kpd == [i \in Idx |-> IF \E a \in Apic : a[1] = i
                      THEN Ent(ApicPT, KernelFlags) ELSE Absent]

\* The page table an entry points to.
PT(e) == IF e.fr \in Frame THEN table[e.fr] ELSE ApicTable
Pde(p, i) == table[cr3[p]][i]
Pte(p, va) == IF Present(Pde(p, va[1])) THEN PT(Pde(p, va[1]))[va[2]] ELSE Absent

\* The MMU lets a user program write va.
Writable(p, va) == /\ Present(Pte(p, va))
                   /\ {"US", "RW"} \subseteq Pde(p, va[1]).flags
                   /\ {"US", "RW"} \subseteq Pte(p, va).flags

-----------------------------------------------------------------------------
(* Frames.                                                                  *)

Fresh == CHOOSE f \in free : TRUE

\* mutant of AllocFrame: no bzero
AllocUncleared == /\ free # {}
                  /\ free' = free \ {Fresh}
                  /\ rc' = [rc EXCEPT ![Fresh] = 1]
                  /\ UNCHANGED page

\* alloc_frame: a zeroed frame with one reference.
AllocFrame == /\ free # {}
              /\ free' = free \ {Fresh}
              /\ rc' = [rc EXCEPT ![Fresh] = 1]
              /\ page' = [page EXCEPT ![Fresh] = Zero]

\* The same, followed by a memcpy of page frame f into it (copy_pg).
AllocCopy(f) == /\ free # {}
                /\ free' = free \ {Fresh}
                /\ rc' = [rc EXCEPT ![Fresh] = 1]
                /\ page' = [page EXCEPT ![Fresh] = page[f]]

\* mutant of IncRef: the new reference is not counted
IncRefForgotten(f) == UNCHANGED <<rc, free, page>>

IncRef(f) == /\ rc' = [rc EXCEPT ![f] = @ + 1]
             /\ UNCHANGED <<free, page>>

\* decref(f, destroy_pg): the last reference frees the frame.
DecRef(f) == /\ rc' = [rc EXCEPT ![f] = @ - 1]
             /\ free' = IF rc[f] = 1 THEN free \cup {f} ELSE free
             /\ page' = IF rc[f] = 1 THEN [page EXCEPT ![f] = Junk] ELSE page

FramesSame == UNCHANGED <<rc, free, page>>

-----------------------------------------------------------------------------
(* Activation records.                                                      *)
(*   job   user, unborn (a free slot), born (a fork's child before it       *)
(*         runs), fault, fork, exec, exit                                   *)
(*   pc    where in the job                                                 *)
(*   va, copy, pa   the faulting address, map_copy or map, the new page     *)
(*   dst   the table copy_pt fills;  old  the frame whose reference goes    *)
(*   pde   the directory entry copy_pt was called for                       *)
(*   new, kid   copy_pd's directory and the process it is for               *)
(*   dirs, ptes   indexes the loop over a directory or table has left       *)

NoVA == <<>>
Idle(p, job) == [job |-> job, pc |-> "none", va |-> NoVA, copy |-> FALSE,
                 pa |-> NoFrame, dst |-> NoFrame, old |-> NoFrame,
                 new |-> NoFrame, kid |-> p, pde |-> Absent, dirs |-> {}, ptes |-> {}]

\* A page fault on va, its new page allocated.
Faulted(p, va) == [Idle(p, "fault") EXCEPT !.pc = "pde", !.va = va, !.pa = Fresh,
                                           !.copy = Present(Pte(p, va))]
\* A job that goes through the directory's entries.
Loop(p, job) == [Idle(p, job) EXCEPT !.pc = "dir", !.dirs = Idx]

\* An entry is absent, one of kpd's own, or private to the processes that share it.
Entry == {Absent, Ent(ApicPT, KernelFlags), Ent(ApicPage, KernelFlags)}
           \cup [fr: Frame, flags: {fl \in SUBSET Flags : "NG" \in fl}]

Jobs == {"user", "unborn", "born", "fault", "fork", "exec", "exit"}
Pcs == {"none", "pde", "copypt", "drop", "doom", "pte", "swap", "dir", "clearpt"}
Activation ==
    [job: Jobs, pc: Pcs, va: Touched \cup {NoVA}, copy: BOOLEAN,
     pa: Frame \cup {NoFrame}, dst: Frame \cup {NoFrame},
     old: Frame \cup {NoFrame}, new: Frame \cup {NoFrame},
     kid: Proc, pde: Entry, dirs: SUBSET Idx, ptes: SUBSET Idx]

Begin(p, r) == at' = [at EXCEPT ![p] = r]
Goto(p, pc) == at' = [at EXCEPT ![p].pc = pc]
Some(s) == CHOOSE i \in s : TRUE

\* The directory entry the current operation is about.
Dir(p) == IF at[p].job = "fault" THEN at[p].va[1] ELSE Some(at[p].dirs)

\* Where a dropped table's decref returns to.
After(p) == IF at[p].job = "fault" THEN "pte" ELSE "dir"

\* What an activation record holds at each point of each job.
Coherent(p) ==
    LET a == at[p]
    IN /\ a.job \notin {"unborn", "born"} => cr3[p] \in Frame
       /\ a.job = "fault" => a.va \in Touched /\ a.pa \in Frame
       /\ a.job = "fork" => a.new \in Frame
       /\ a.pc = "copypt" => /\ a.dst \in Frame
                             /\ \/ a.job = "fault"
                                \/ a.job = "fork" /\ a.dirs # {} /\ Private(a.pde)
       /\ a.pc \in {"drop", "doom"} => a.old \in Frame /\ a.job \in {"fault", "exec", "exit"}
       /\ a.pc = "swap" => a.old \in Frame
       /\ a.pc = "clearpt" => a.job = "exec" /\ a.dirs # {}

TypeOK ==
    /\ table \in [Frame -> [Idx -> Entry]]
    /\ page \in [Frame -> Val \cup {Junk}]
    /\ rc \in [Frame -> Int]
    /\ free \subseteq Frame
    /\ cr3 \in [Proc -> Frame \cup {NoFrame}]
    /\ at \in [Proc -> Activation]
    /\ \A p \in Proc : Coherent(p)

\* The state once init.cc has started the first process on a copy of kpd.
PD0 == Some(Frame)

Init == /\ free = Frame \ {PD0}
        /\ table = [f \in Frame |-> IF f = PD0 THEN Kpd ELSE EmptyTable]
        /\ page = [f \in Frame |-> IF f = PD0 THEN Zero ELSE Junk]
        /\ rc = [f \in Frame |-> IF f = PD0 THEN 1 ELSE 0]
        /\ cr3 = [p \in Proc |-> IF p = First THEN PD0 ELSE NoFrame]
        /\ at = [p \in Proc |-> Idle(p, IF p = First THEN "user" ELSE "unborn")]

At(p, job, pc) == at[p].job = job /\ at[p].pc = pc

-----------------------------------------------------------------------------
(* The program runs: it writes a page the MMU lets it write, or faults.     *)

Write(p) ==
    /\ at[p].job = "user"
    /\ \E va \in Touched, v \in Val :
         /\ Writable(p, va)
         /\ page' = [page EXCEPT ![Pte(p, va).fr] = v]
    /\ UNCHANGED <<table, rc, free, cr3, at>>

\* vmm_pageFault: a write the MMU refused (map_copy if the page is there),
\* or any access to a page that is not there (map).
Fault(p) ==
    /\ at[p].job = "user"
    /\ AllocFrame
    /\ \E va \in Touched :
         /\ ~Writable(p, va)
         /\ Begin(p, Faulted(p, va))
    /\ UNCHANGED <<table, cr3>>

\* The flags a user's page needs, and an entry that has them.
UsableReadOnly(e) == {"US", "NG"} \subseteq e.flags   \* mutant: RW not asked for
Usable(e) == UserFlags \subseteq e.flags

\* map, map_copy: make the directory entry one the user may write through.
FixPde(p) ==
    /\ At(p, "fault", "pde")
    /\ LET i == Dir(p)
           e == Pde(p, i)
       IN \/ /\ ~Present(e)
             /\ AllocFrame
             /\ table' = [table EXCEPT ![cr3[p]][i] = Ent(Fresh, UserFlags)]
             /\ Goto(p, "pte")
          \/ /\ Present(e) /\ Usable(e)
             /\ Goto(p, "pte")
             /\ FramesSame /\ UNCHANGED table
          \/ /\ Present(e) /\ ~Usable(e)
             /\ AllocFrame
             /\ at' = [at EXCEPT ![p].pc = "copypt", ![p].pde = e, ![p].dst = Fresh,
                             ![p].ptes = Idx]
             /\ UNCHANGED table
    /\ UNCHANGED cr3

\* copy_pt, one entry: share what is global or read-only, copy the rest.
Eager(e) == Private(e) /\ "RW" \in e.flags

CopyPte(p) ==
    /\ at[p].pc = "copypt" /\ at[p].ptes # {}
    /\ LET i == Some(at[p].ptes)
           e == PT(at[p].pde)[i]
       IN /\ IF Eager(e) THEN AllocCopy(e.fr)
             ELSE IF Private(e) THEN IncRef(e.fr)
             ELSE FramesSame
          /\ table' = [table EXCEPT ![at[p].dst][i] =
                         IF Eager(e) THEN Ent(Fresh, e.flags) ELSE e]
          /\ at' = [at EXCEPT ![p].ptes = @ \ {i}]
    /\ UNCHANGED cr3

\* map, map_copy: copy_pt is done; point the directory at the copy.
InstallPt(p) ==
    /\ At(p, "fault", "copypt") /\ at[p].ptes = {}
    /\ LET e == at[p].pde
       IN /\ table' = [table EXCEPT ![cr3[p]][Dir(p)] =
                         Ent(at[p].dst, e.flags \cup UserFlags)]
          /\ at' = [at EXCEPT ![p] = [@ EXCEPT
                      !.pc = IF Private(e) THEN "drop" ELSE "pte",
                      !.old = IF Private(e) THEN e.fr ELSE NoFrame,
                      !.dst = NoFrame, !.pde = Absent]]
    /\ FramesSame /\ UNCHANGED cr3

\* decref(table, destroy_pt).
DropPt(p) ==
    /\ at[p].pc = "drop"
    /\ rc' = [rc EXCEPT ![at[p].old] = @ - 1]
    /\ IF rc[at[p].old] = 1
       THEN at' = [at EXCEPT ![p].pc = "doom", ![p].ptes = Idx]
       ELSE at' = [at EXCEPT ![p].pc = After(p), ![p].old = NoFrame]
    /\ UNCHANGED <<table, page, free, cr3>>

\* destroy_pt, one entry.
DoomPte(p) ==
    /\ at[p].pc = "doom" /\ at[p].ptes # {}
    /\ LET i == Some(at[p].ptes)
           e == table[at[p].old][i]
       IN /\ IF Private(e) THEN DecRef(e.fr) ELSE FramesSame
          /\ table' = [table EXCEPT ![at[p].old][i] = Absent]
          /\ at' = [at EXCEPT ![p].ptes = @ \ {i}]
    /\ UNCHANGED cr3

\* dealloc_frame of the destroyed table.
FreePt(p) ==
    /\ at[p].pc = "doom" /\ at[p].ptes = {}
    /\ free' = free \cup {at[p].old}
    /\ page' = [page EXCEPT ![at[p].old] = Junk]
    /\ at' = [at EXCEPT ![p].pc = After(p), ![p].old = NoFrame]
    /\ UNCHANGED <<table, rc, cr3>>

\* The end of map, and map_copy up to its memcpy.  A writable page that is
\* there is one the user may not have: SYS::exit, from inside the fault.
FixPte(p) ==
    /\ At(p, "fault", "pte")
    /\ LET va == at[p].va
           e == Pte(p, va)
       IN \/ /\ ~(at[p].copy /\ Present(e))
             /\ table' = [table EXCEPT ![Pde(p, va[1]).fr][va[2]] = Ent(at[p].pa, UserFlags)]
             /\ Begin(p, Idle(p, "user"))
             /\ UNCHANGED page
          \/ /\ at[p].copy /\ Present(e) /\ "RW" \notin e.flags
             /\ page' = [page EXCEPT ![at[p].pa] = page[e.fr]]
             /\ at' = [at EXCEPT ![p].pc = "swap", ![p].old = e.fr]
             /\ UNCHANGED table
          \/ /\ at[p].copy /\ Present(e) /\ "RW" \in e.flags
             /\ Begin(p, Loop(p, "exit"))
             /\ UNCHANGED <<table, page>>
    /\ UNCHANGED <<rc, free, cr3>>

\* map_copy's end: give up the shared page, install the copy.
SwapPte(p) ==
    /\ At(p, "fault", "swap")
    /\ LET va == at[p].va
       IN /\ DecRef(at[p].old)
          /\ table' = [table EXCEPT ![Pde(p, va[1]).fr][va[2]] = Ent(at[p].pa, UserFlags)]
    /\ Begin(p, Idle(p, "user"))
    /\ UNCHANGED cr3

-----------------------------------------------------------------------------
(* fork: write_protect the directory, then copy_pd.                         *)

ReadOnly(e) == Ent(e.fr, e.flags \ {"RW"})

\* write_protect on one page table reached through a writable private entry.
Protected(t) == [i \in Idx |-> IF Private(t[i]) THEN ReadOnly(t[i]) ELSE t[i]]

\* The entry itself: writable again if the table maps a global writable page.
ProtectedPde(e) == IF \E i \in Idx : LET g == table[e.fr][i]
                                     IN Present(g) /\ ~Private(g) /\ "RW" \in g.flags
                   THEN e ELSE ReadOnly(e)

WriteProtect(p) ==
    LET pd == table[cr3[p]]
        open == {i \in Idx : Private(pd[i]) /\ "RW" \in pd[i].flags}
    IN [f \in Frame |->
          IF f = cr3[p] THEN [i \in Idx |-> IF i \in open THEN ProtectedPde(pd[i]) ELSE pd[i]]
          ELSE IF \E i \in open : pd[i].fr = f THEN Protected(table[f])
          ELSE table[f]]

Fork(p) ==
    /\ at[p].job = "user"
    /\ AllocFrame
    /\ \E c \in Proc :
         /\ at[c].job = "unborn"
         /\ at' = [at EXCEPT ![p] = [Loop(p, "fork") EXCEPT !.new = Fresh, !.kid = c],
                             ![c] = Idle(c, "born")]
    /\ table' = WriteProtect(p)
    /\ UNCHANGED cr3

\* copy_pd, one entry: share a global or read-only table, copy the rest.
CopyPde(p) ==
    /\ At(p, "fork", "dir") /\ at[p].dirs # {}
    /\ LET i == Dir(p)
           e == Pde(p, i)
       IN \/ /\ Eager(e)
             /\ AllocFrame
             /\ at' = [at EXCEPT ![p].pc = "copypt", ![p].pde = e, ![p].dst = Fresh,
                             ![p].ptes = Idx]
             /\ UNCHANGED table
          \/ /\ ~Eager(e)
             /\ IF Private(e) THEN IncRef(e.fr) ELSE FramesSame
             /\ table' = [table EXCEPT ![at[p].new][i] = e]
             /\ at' = [at EXCEPT ![p].dirs = @ \ {i}]
    /\ UNCHANGED cr3

\* copy_pd: copy_pt is done; enter the copy in the new directory.
EnterPt(p) ==
    /\ At(p, "fork", "copypt") /\ at[p].ptes = {}
    /\ LET i == Dir(p)
       IN /\ table' = [table EXCEPT ![at[p].new][i] = Ent(at[p].dst, at[p].pde.flags)]
          /\ at' = [at EXCEPT ![p].pc = "dir", ![p].dst = NoFrame, ![p].pde = Absent,
                             ![p].dirs = @ \ {i}]
    /\ FramesSame /\ UNCHANGED cr3

\* The child has its directory: it may run.
Forked(p) ==
    /\ At(p, "fork", "dir") /\ at[p].dirs = {}
    /\ cr3' = [cr3 EXCEPT ![at[p].kid] = at[p].new]
    /\ at' = [at EXCEPT ![p] = Idle(p, "user"), ![at[p].kid] = Idle(at[p].kid, "user")]
    /\ FramesSame /\ UNCHANGED table

-----------------------------------------------------------------------------
(* exec clears the address space (clear_pd); exit destroys it (destroy_pd). *)

Exec(p) ==
    /\ at[p].job = "user"
    /\ Begin(p, Loop(p, "exec"))
    /\ FramesSame /\ UNCHANGED <<table, cr3>>

Exit(p) ==
    /\ at[p].job = "user"
    /\ Begin(p, Loop(p, "exit"))
    /\ FramesSame /\ UNCHANGED <<table, cr3>>

\* clear_pd and destroy_pd, one entry.  exec keeps a mixed table and empties it.
KeepsNothing(p, e) == FALSE   \* mutant: clear_pd drops mixed tables too
Keeps(p, e) == at[p].job = "exec" /\ Mixed(e)

ClearPde(p) ==
    /\ at[p].job \in {"exec", "exit"} /\ at[p].pc = "dir" /\ at[p].dirs # {}
    /\ LET i == Dir(p)
           e == Pde(p, i)
       IN \/ /\ ~Private(e)
             /\ at' = [at EXCEPT ![p].dirs = @ \ {i}]
             /\ UNCHANGED table
          \/ /\ Private(e) /\ ~Keeps(p, e)
             /\ at' = [at EXCEPT ![p].dirs = @ \ {i}, ![p].pc = "drop", ![p].old = e.fr]
             /\ table' = [table EXCEPT ![cr3[p]][i] = Absent]
          \/ /\ Keeps(p, e)
             /\ at' = [at EXCEPT ![p].pc = "clearpt", ![p].ptes = Idx]
             /\ UNCHANGED table
    /\ FramesSame /\ UNCHANGED cr3

\* clear_pt, one entry.
ClearPte(p) ==
    /\ at[p].pc = "clearpt" /\ at[p].ptes # {}
    /\ LET i == Some(at[p].ptes)
           t == Pde(p, Dir(p))
           e == PT(t)[i]
       IN /\ IF Private(e)
             THEN DecRef(e.fr) /\ table' = [table EXCEPT ![t.fr][i] = Absent]
             ELSE FramesSame /\ UNCHANGED table
          /\ at' = [at EXCEPT ![p].ptes = @ \ {i}]
    /\ UNCHANGED cr3

ClearedPt(p) ==
    /\ at[p].pc = "clearpt" /\ at[p].ptes = {}
    /\ at' = [at EXCEPT ![p].pc = "dir", ![p].dirs = @ \ {Dir(p)}]
    /\ FramesSame /\ UNCHANGED <<table, cr3>>

\* exec has its empty address space back.
Execed(p) ==
    /\ At(p, "exec", "dir") /\ at[p].dirs = {}
    /\ Begin(p, Idle(p, "user"))
    /\ FramesSame /\ UNCHANGED <<table, cr3>>

\* destroy_pd's last decref, of the directory itself.
FreePd(p) ==
    /\ At(p, "exit", "dir") /\ at[p].dirs = {}
    /\ DecRef(cr3[p])
    /\ table' = [table EXCEPT ![cr3[p]] = EmptyTable]
    /\ cr3' = [cr3 EXCEPT ![p] = NoFrame]
    /\ Begin(p, Idle(p, "unborn"))

-----------------------------------------------------------------------------
\* The steps the kernel takes for p until it returns to the program.
Kernel(p) == \/ FixPde(p) \/ CopyPte(p) \/ InstallPt(p) \/ DropPt(p) \/ DoomPte(p)
             \/ FreePt(p) \/ FixPte(p) \/ SwapPte(p)
             \/ CopyPde(p) \/ EnterPt(p) \/ Forked(p)
             \/ ClearPde(p) \/ ClearPte(p) \/ ClearedPt(p) \/ Execed(p) \/ FreePd(p)

Program(p) == Write(p) \/ Fault(p) \/ Fork(p) \/ Exec(p) \/ Exit(p)

Next == \E p \in Proc : Program(p) \/ Kernel(p)

Spec == Init /\ [][Next]_vars

-----------------------------------------------------------------------------
(* Properties.                                                              *)

\* Everything that holds a counted reference to frame f: private entries of
\* tables, loaded directories, and what an operation under way has in hand.
Entries(f) == {s \in Frame \X Idx : table[s[1]][s[2]].fr = f}
InHand(f) == {s \in Proc \X {"pa", "dst", "new", "old"} :
                /\ at[s[1]][s[2]] = f
                /\ s[2] = "old" => at[s[1]].pc = "drop"}
References(f) == Cardinality(Entries(f)) + Cardinality(InHand(f))
                    + Cardinality({p \in Proc : cr3[p] = f})

\* Tables being destroyed: no longer referenced, not yet free.
Doomed == {at[p].old : p \in {q \in Proc : at[q].pc = "doom"}}

\* No frame is given back while something still refers to it: the count never
\* falls below the references there are, whatever the processes that share the
\* frame do at the same time (incref, decref, destroy_pt, destroy_pd).
NoEarlyFree == \A f \in Frame : /\ References(f) <= rc[f]
                                /\ f \in free => rc[f] = 0

\* Processes clean up after exiting: a count never exceeds the references there
\* are, and a frame without any is free or on its way there.
NoLeak == \A f \in Frame : /\ rc[f] <= References(f)
                           /\ rc[f] = 0 => f \in free \cup Doomed

\* Reference counts are exact at every step of fork, fault, exec and exit.
CountsExact == NoEarlyFree /\ NoLeak

\* The device page kpd maps in the user half: every process keeps the kernel's
\* own entry for it, through any number of faults on its neighbours in the same
\* page table, forks and execs, and no program can write it.
ApicSealed ==
    \A p \in Proc, a \in Apic : at[p].job = "user"
        => Pte(p, a) = Ent(ApicPage, KernelFlags)

\* What p's program reads at va: a page of its own, or zeroes still to be mapped.
Reads(p, va) == IF at[p].job \in {"user", "fault", "fork"} /\ Private(Pte(p, va))
                THEN page[Pte(p, va).fr] ELSE Zero

Memory == INSTANCE AddressSpaces WITH
    Addr <- Touched,
    mem <- [p \in Proc |-> [va \in Touched |-> Reads(p, va)]],
    alive <- {p \in Proc : at[p].job \in {"user", "fault", "fork", "exec"}}

\* Processes cannot see or change each other's memory, nor find in a page what
\* an earlier process left there, and fork copies and exec clears all of it:
\* the page tables implement separate address spaces.
PrivateMemory == Memory!Spec

\* A fault is resolved when it is over: the program can write the page, or is made to exit,
\* and does not fault on the same page for ever (vmm.cc:280-312).
Over(p, va) == at[p].job = "fault" /\ at[p].va = va /\ at'[p].job # "fault"
Resolved(p, va) == at'[p].job = "exit" \/ (at'[p].job = "user" /\ Writable(p, va)')
FaultsResolve == [][\A p \in Proc, va \in Touched : Over(p, va) => Resolved(p, va)]_vars
=============================================================================
