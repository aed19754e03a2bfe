----------------------------- MODULE Processes -----------------------------
(***************************************************************************)
(* User processes: the system calls (src/kernel/sys.cc), a process's three *)
(* descriptor tables (process.h, process.cc), the objects descriptors      *)
(* stand for, and the reference counts (shared.h) that decide when a       *)
(* process, an exit status, a semaphore or an open file is deleted.        *)
(*                                                                         *)
(* A process has one thread, so what only it can see is changed in one     *)
(* step; what processes share (exit statuses, semaphores, file offsets)    *)
(* is reached in the steps of the code.  th[p] is process p's thread: the  *)
(* stage of its system call, the slot, object and number the call works    *)
(* on, and `refs`, the references to p's PCB its kernel stack holds, which *)
(* nobody drops when the stack is freed.  A process slot of the model      *)
(* stands for a PCB together with the Future of its exit status.           *)
(*                                                                         *)
(* Semaphores are what module Threads makes of them: down waits for a      *)
(* permit.  Memory is module Vmm.  The descriptors 0, 1 and 2 a process    *)
(* starts with have no slot.  The operations take what a program passes as *)
(* parameters.  Enter(p) is a program that may make any call with an       *)
(* effect; module TestPrograms has the programs of the test images.        *)
(***************************************************************************)
EXTENDS Integers, FiniteSetsExt

CONSTANTS Proc, First,  \* processes; the one kernelMain makes
          Files, Sems,  \* FileDescriptor and SemaphoreDescriptor objects
          Nodes,        \* the files of the disk
          FDT_SIZE, PDT_SIZE, SDT_SIZE,
          Empty,        \* the descriptor of a free slot
          Size,         \* Size[n]: the bytes of file n
          Lengths,      \* the lengths programs read
          Seeks,        \* the offsets they seek to
          Counts,       \* the permits their semaphores start with
          Status,       \* what they exit with
          Does,         \* Does[p]: which calls p makes, faults included
          Word,         \* offsets are counted modulo this (2^32)
          MaxOpen,      \* bounds of Enter: the files open at a time,
          MaxPermits,   \* the permits of a semaphore
          MaxFs         \* and the references to the file system

ASSUME ProcessesAssumption ==
    /\ First \in Proc /\ IsFiniteSet(Proc)
    /\ FDT_SIZE \in Nat /\ PDT_SIZE \in Nat /\ SDT_SIZE \in Nat
    /\ Empty \notin Proc \cup Files \cup Sems
    /\ Size \in [Nodes -> Nat] /\ Word \in Nat /\ \A n \in Nodes : Size[n] < Word
    /\ Lengths \subseteq Nat /\ Seeks \subseteq 0 .. Word - 1 /\ Counts \subseteq Nat
    /\ Status \subseteq Int
    /\ MaxOpen \in Nat /\ MaxPermits \in Nat /\ MaxFs \in Nat

VARIABLES th,         \* th[p]: the thread of process p
          booting,    \* kernelMain still holds the first process and the file system
          fdt, pdt, sdt,                \* descriptor tables, by process and slot
          pcbRefs, futRefs, objRefs, fsRefs,  \* ref_counts
          exited,     \* exited[p]: the Future of p's exit status
          permits,    \* of a semaphore
          node, offset  \* of an open file

mem == [fdt |-> fdt, pdt |-> pdt, sdt |-> sdt, pcb |-> pcbRefs, fut |-> futRefs,
        obj |-> objRefs, fs |-> fsRefs, exited |-> exited, permits |-> permits,
        node |-> node, offset |-> offset]
Become(m) ==
    /\ fdt' = m.fdt /\ pdt' = m.pdt /\ sdt' = m.sdt
    /\ pcbRefs' = m.pcb /\ futRefs' = m.fut /\ objRefs' = m.obj /\ fsRefs' = m.fs
    /\ exited' = m.exited /\ permits' = m.permits
    /\ node' = m.node /\ offset' = m.offset
memVars == <<fdt, pdt, sdt, pcbRefs, futRefs, objRefs, fsRefs, exited, permits,
             node, offset>>
vars == <<th, booting, memVars>>

FdSlot == 0 .. FDT_SIZE - 1
PdSlot == 0 .. PDT_SIZE - 1
SdSlot == 0 .. SDT_SIZE - 1
NoFds == [i \in FdSlot |-> Empty]
NoPds == [i \in PdSlot |-> Empty]
NoSds == [i \in SdSlot |-> Empty]

-----------------------------------------------------------------------------
(* References.                                                              *)

Uses(table, o) == Cardinality({i \in DOMAIN table : table[i] = o})

NoFuture == [set |-> FALSE, value |-> 0, permits |-> 0]

\* What is left of the objects when `fut` and `obj` are the new counts: what nobody
\* refers to is deleted.
Collect(m, fut, obj) ==
    [m EXCEPT !.fut = fut, !.obj = obj,
              !.exited = [p \in Proc |-> IF fut[p] = 0 THEN NoFuture ELSE m.exited[p]],
              !.permits = [s \in Sems |-> IF obj[s] = 0 THEN 0 ELSE m.permits[s]],
              !.node = [f \in Files |-> IF obj[f] = 0 THEN Empty ELSE m.node[f]],
              !.offset = [f \in Files |-> IF obj[f] = 0 THEN 0 ELSE m.offset[f]]]

\* A reference more to, and a reference less to, a file or a semaphore.
Refer(m, o) == [m EXCEPT !.obj[o] = @ + 1]
Drop(m, o) == Collect(m, m.fut, [m.obj EXCEPT ![o] = @ - 1])
DropFuture(m, p) == Collect(m, [m.fut EXCEPT ![p] = @ - 1], m.obj)

\* ~Process: the exit status, the tables and the file system are let go.
Destroy(m, p) ==
    [Collect(m, [q \in Proc |-> m.fut[q] - (IF q = p THEN 1 ELSE 0) - Uses(m.pdt[p], q)],
                [o \in Files \cup Sems |-> m.obj[o] - Uses(m.fdt[p], o) - Uses(m.sdt[p], o)])
     EXCEPT !.fdt[p] = NoFds, !.pdt[p] = NoPds, !.sdt[p] = NoSds, !.fs = @ - 1]

\* Shared<PCB>::reset.
DropPcb(m, p) ==
    LET less == [m EXCEPT !.pcb[p] = @ - 1]
    IN  IF m.pcb[p] = 1 THEN Destroy(less, p) ELSE less

-----------------------------------------------------------------------------
(* The threads.                                                             *)

Thread(pc, slot, obj, val, refs) ==
    [pc |-> pc, slot |-> slot, obj |-> obj, val |-> val, refs |-> refs]
None == Thread("none", 0, Empty, 0, 0)
User == Thread("user", 0, Empty, 0, 0)

Enters(p) == th[p].pc = "user" /\ UNCHANGED booting
At(p, pc) == th[p].pc = pc /\ UNCHANGED booting
Goes(p, t) == th' = [th EXCEPT ![p] = t]

\* sysHandler's copy of the thread's Shared<PCB>, for calls of more than one step.
Holding(m, p) == [m EXCEPT !.pcb[p] = @ + 1]

FirstFree(table, i) ==
    /\ i \in DOMAIN table
    /\ table[i] = Empty
    /\ \A j \in DOMAIN table : j < i => table[j] # Empty

\* get_fd, get_pd and get_sd give something: a descriptor past the table is the empty one.
InUse(table, i) == i \in DOMAIN table /\ table[i] # Empty

\* The objects nobody refers to: any of them stands for a new one.
Unopened == {f \in Files : objRefs[f] = 0}
Unmade == {s \in Sems : objRefs[s] = 0}
New(S) == CHOOSE o \in S : TRUE

\* open of the file n, with slot i the first that is free.
Open(p, i, n) ==
    /\ Enters(p)
    /\ Unopened # {}
    /\ FirstFree(fdt[p], i)
    /\ LET f == New(Unopened)
       IN  Become(Refer([mem EXCEPT !.fdt[p][i] = f, !.node[f] = n], f))
    /\ UNCHANGED th

Sem(p, i, n) ==
    /\ Enters(p)
    /\ Unmade # {}
    /\ FirstFree(sdt[p], i)
    /\ LET s == New(Unmade)
       IN  Become(Refer([mem EXCEPT !.sdt[p][i] = s, !.permits[s] = n], s))
    /\ UNCHANGED th

\* close, of each kind of descriptor.
CloseFd(p, i) ==
    /\ Enters(p)
    /\ InUse(fdt[p], i)
    /\ Become(Drop([mem EXCEPT !.fdt[p][i] = Empty], fdt[p][i]))
    /\ UNCHANGED th

CloseSd(p, i) ==
    /\ Enters(p)
    /\ InUse(sdt[p], i)
    /\ Become(Drop([mem EXCEPT !.sdt[p][i] = Empty], sdt[p][i]))
    /\ UNCHANGED th

ClosePd(p, i) ==
    /\ Enters(p)
    /\ InUse(pdt[p], i)
    /\ Become(DropFuture([mem EXCEPT !.pdt[p][i] = Empty], pdt[p][i]))
    /\ UNCHANGED th

Up(p, i) ==
    /\ Enters(p)
    /\ InUse(sdt[p], i)
    /\ Become([mem EXCEPT !.permits[sdt[p][i]] = @ + 1])
    /\ UNCHANGED th

\* down: get_sd's copy keeps the semaphore while the thread sleeps.
Down(p, i) ==
    /\ Enters(p)
    /\ InUse(sdt[p], i)
    /\ Goes(p, Thread("down", i, sdt[p][i], 0, 1))
    /\ Become(Refer(Holding(mem, p), sdt[p][i]))

\* Mutant: nobody sleeps.
DownedAtOnce(p) ==
    LET s == th[p].obj
    IN  /\ At(p, "down")
        /\ Become(DropPcb(Drop(mem, s), p))
        /\ Goes(p, User)

Downed(p) ==
    LET s == th[p].obj
    IN  /\ At(p, "down")
        /\ permits[s] > 0
        /\ Become(DropPcb(Drop([mem EXCEPT !.permits[s] = @ - 1], s), p))
        /\ Goes(p, User)

\* seek: any offset is taken.
Seek(p, i, n) ==
    /\ Enters(p)
    /\ InUse(fdt[p], i)
    /\ Become([mem EXCEPT !.offset[fdt[p][i]] = n])
    /\ UNCHANGED th

SizeOf(f) == Size[node[f]]

\* read, in three steps: the offset is compared with the size; the bytes from the offset
\* on are read, and the thread waits for the disk; the count is added to the offset.
Readable(p, i) == InUse(fdt[p], i) /\ offset[fdt[p][i]] <= SizeOf(fdt[p][i])
Read(p, i, n) ==
    /\ Enters(p)
    /\ Readable(p, i)
    /\ Goes(p, Thread("read", i, fdt[p][i], n, 1))
    /\ Become(Refer(Holding(mem, p), fdt[p][i]))

\* BlockIO::read_all: -1 past the end, else what there is of n bytes.
Delivered(from, n, size) == IF n = 0 THEN 0
                            ELSE IF from > size THEN -1
                            ELSE IF n < size - from THEN n ELSE size - from

ReadAll(p) ==
    LET f == th[p].obj
    IN  /\ At(p, "read")
        /\ Goes(p, [th[p] EXCEPT !.pc = "add", !.val = Delivered(offset[f], @, SizeOf(f))])
        /\ UNCHANGED memVars

Add(p) ==
    LET f == th[p].obj
    IN  /\ At(p, "add")
        /\ Become(DropPcb(Drop([mem EXCEPT !.offset[f] = (@ + th[p].val) % Word], f), p))
        /\ Goes(p, User)

-----------------------------------------------------------------------------
(* fork, wait and execl.                                                    *)

\* A new thread of a process takes a reference of its own.
Started(m, p) == [m EXCEPT !.pcb[p] = @ + 1]

\* Mutant: the tables are copied as bytes, their references are not counted.
CloneBytes(m, p, c) ==
    [m EXCEPT !.pcb[c] = 1, !.fs = @ + 1, !.fut[c] = 1,
              !.fdt[c] = m.fdt[p], !.sdt[c] = m.sdt[p]]

\* Process(const Process&): files and semaphores are shared, child processes are not.
Clone(m, p, c) ==
    [m EXCEPT !.pcb[c] = 1, !.fs = @ + 1,
              !.fut[c] = 1,
              !.obj = [o \in Files \cup Sems |-> @[o] + Uses(m.fdt[p], o) + Uses(m.sdt[p], o)],
              !.fdt[c] = m.fdt[p], !.sdt[c] = m.sdt[p], !.pdt[c] = NoPds]

Unused(c) == th[c] = None /\ pcbRefs[c] = 0 /\ futRefs[c] = 0

\* fork, up to the start of the child's thread: the child may end before the parent goes on.
Fork(p, i, c) ==
    /\ Enters(p)
    /\ FirstFree(pdt[p], i)
    /\ Unused(c)
    /\ Become(Started(Clone(Holding(mem, p), p, c), c))
    /\ th' = [th EXCEPT ![p] = Thread("fork", i, c, 0, 1), ![c] = User]

\* The descriptor is made from the child, which the parent then lets go.
Forked(p) ==
    LET c == th[p].obj
    IN  /\ At(p, "fork")
        /\ Become(DropPcb(DropPcb([mem EXCEPT !.fut[c] = @ + 1, !.pdt[p][th[p].slot] = c], c), p))
        /\ Goes(p, User)

\* wait: Future::get takes the permit of the exit status, and gives it back.
Wait(p, i) ==
    /\ Enters(p)
    /\ InUse(pdt[p], i)
    /\ Goes(p, Thread("wait", i, pdt[p][i], 0, 1))
    /\ Become(Holding(mem, p))

Get(p) ==
    LET c == th[p].obj
    IN  /\ At(p, "wait")
        /\ exited[c].permits > 0
        /\ Become([mem EXCEPT !.exited[c].permits = @ - 1])
        /\ Goes(p, [th[p] EXCEPT !.pc = "got"])

GiveBack(p) ==
    LET c == th[p].obj
    IN  /\ At(p, "got")
        /\ Become([mem EXCEPT !.exited[c].permits = @ + 1])
        /\ Goes(p, [th[p] EXCEPT !.pc = "waited", !.val = exited[c].value])

\* The status is stored where the program asked for it, and the descriptor closed.
Waited(p) ==
    /\ At(p, "waited")
    /\ Become(DropPcb(DropFuture([mem EXCEPT !.pdt[p][th[p].slot] = Empty], th[p].obj), p))
    /\ Goes(p, User)

\* execl of a program that exists.  The thread leaves for user mode without returning: the
\* code destroys its PCB and file references by hand, not the one execl has to the file system.
ReferFs(m) == [m EXCEPT !.fs = @ + 1]
Execl(p) ==
    /\ Enters(p)
    /\ Become(ReferFs([Collect(mem, futRefs, [o \in Files \cup Sems |->
                                                objRefs[o] - Uses(sdt[p], o)])
                       EXCEPT !.sdt[p] = NoSds]))
    /\ UNCHANGED th

-----------------------------------------------------------------------------
(* The end of a process.                                                    *)

\* SYS::exit, the system call and the function the page-fault handler calls: a status is on
\* its way, and the thread has a reference that exit will drop.
Exit(p, v) ==
    /\ Enters(p)
    /\ Goes(p, Thread("exit", 0, Empty, v, 1))
    /\ Become(Holding(mem, p))

\* A fault in user mode.
Fault(p) ==
    /\ Enters(p)
    /\ Goes(p, Thread("exit", 0, Empty, -1, 1))
    /\ Become(Holding(mem, p))

\* A fault in the kernel, at a path open was given or at the place wait was told to store
\* to: what the interrupted call holds stays held.
FaultInOpen(p) ==
    /\ Enters(p)
    /\ Goes(p, Thread("exit", 0, Empty, -1, 2))
    /\ Become(ReferFs(Holding(Holding(mem, p), p)))

FaultInWait(p) ==
    /\ At(p, "waited")
    /\ Goes(p, Thread("exit", 0, Empty, -1, 2))
    /\ Become(Holding(mem, p))

\* Mutant: the permit comes before the value.
SetValueAfter(p) ==
    /\ At(p, "exit")
    /\ Become([mem EXCEPT !.exited[p].permits = @ + 1])
    /\ Goes(p, [th[p] EXCEPT !.pc = "set"])

\* Future::set.
SetValue(p) ==
    /\ At(p, "exit")
    /\ Become([mem EXCEPT !.exited[p].value = th[p].val, !.exited[p].set = TRUE])
    /\ Goes(p, [th[p] EXCEPT !.pc = "set"])

\* Mutant: nobody is told of the value.
SetUpNever(p) ==
    /\ At(p, "set")
    /\ UNCHANGED memVars
    /\ Goes(p, [th[p] EXCEPT !.pc = "up"])

SetUp(p) ==
    /\ At(p, "set")
    /\ Become([mem EXCEPT !.exited[p].permits = @ + 1])
    /\ Goes(p, [th[p] EXCEPT !.pc = "up"])

\* Mutant: stop() does not return, and nobody lets the PCB go.
StopHolding(p) ==
    /\ At(p, "up")
    /\ UNCHANGED memVars
    /\ Goes(p, Thread("stopped", 0, Empty, 0, th[p].refs))

\* The PCB is let go by hand, since stop() does not return.
Stop(p) ==
    /\ At(p, "up")
    /\ Become(DropPcb(mem, p))
    /\ Goes(p, Thread("stopped", 0, Empty, 0, th[p].refs - 1))

\* The thread is deleted (module Threads), and with it its own reference.  What is still in
\* `refs` nobody will drop.
Reap(p) ==
    /\ At(p, "stopped")
    /\ Become(DropPcb(mem, p))
    /\ Goes(p, [None EXCEPT !.refs = th[p].refs])

\* kernelMain lets its references go.
Booted ==
    /\ booting
    /\ booting' = FALSE
    /\ Become([DropPcb(mem, First) EXCEPT !.fs = @ - 1])
    /\ UNCHANGED th

Init ==
    /\ th = [p \in Proc |-> IF p = First THEN User ELSE None]
    /\ booting = TRUE
    /\ fdt = [p \in Proc |-> NoFds]
    /\ pdt = [p \in Proc |-> NoPds]
    /\ sdt = [p \in Proc |-> NoSds]
    /\ pcbRefs = [p \in Proc |-> IF p = First THEN 2 ELSE 0]
    /\ futRefs = [p \in Proc |-> IF p = First THEN 1 ELSE 0]
    /\ objRefs = [o \in Files \cup Sems |-> 0]
    /\ fsRefs = 2
    /\ exited = [p \in Proc |-> NoFuture]
    /\ permits = [s \in Sems |-> 0]
    /\ node = [f \in Files |-> Empty]
    /\ offset = [f \in Files |-> 0]

\* A program that may make the calls in Does[p], in any order.
May(p, call) == call \in Does[p]
Enter(p) ==
    \/ /\ May(p, "open") /\ Cardinality(Files \ Unopened) < MaxOpen
       /\ \E i \in FdSlot : Open(p, i, New(Nodes))
    \/ May(p, "sem") /\ \E i \in SdSlot, n \in Counts : Sem(p, i, n)
    \/ May(p, "close") /\ \E i \in FdSlot : CloseFd(p, i)
    \/ May(p, "close") /\ \E i \in SdSlot : CloseSd(p, i)
    \/ May(p, "close") /\ \E i \in PdSlot : ClosePd(p, i)
    \/ /\ May(p, "up")
       /\ \E i \in SdSlot : InUse(sdt[p], i) /\ permits[sdt[p][i]] < MaxPermits /\ Up(p, i)
    \/ May(p, "down") /\ \E i \in SdSlot : Down(p, i)
    \/ May(p, "seek") /\ \E i \in FdSlot, n \in Seeks : Seek(p, i, n)
    \/ May(p, "read") /\ \E i \in FdSlot, n \in Lengths : Read(p, i, n)
    \/ /\ May(p, "fork") /\ fsRefs < MaxFs
       /\ \E i \in PdSlot, c \in Proc : Does[c] # {} /\ Fork(p, i, c)
    \/ May(p, "wait") /\ \E i \in PdSlot : Wait(p, i)
    \/ May(p, "execl") /\ fsRefs < MaxFs /\ Execl(p)
    \/ May(p, "exit") /\ \E v \in Status : Exit(p, v)
    \/ May(p, "fault") /\ Fault(p)
    \/ May(p, "badpath") /\ fsRefs < MaxFs /\ FaultInOpen(p)
Serve(p) ==
    \/ Downed(p) \/ ReadAll(p) \/ Add(p) \/ Forked(p) \/ Get(p) \/ GiveBack(p) \/ Waited(p)
    \/ SetValue(p) \/ SetUp(p) \/ Stop(p) \/ Reap(p)
Continue(p) == Serve(p) \/ (May(p, "badstatus") /\ FaultInWait(p))

Next == Booted \/ \E p \in Proc : Enter(p) \/ Continue(p)

Spec == Init /\ [][Next]_vars

-----------------------------------------------------------------------------
(* Properties.                                                              *)

\* The slots of the tables of all processes that hold o.
Slots(tables, slot, o) == Cardinality({x \in Proc \X slot : tables[x[1]][x[2]] = o})

Live(p) == th[p].pc # "none"

\* Every ref_count (shared.h:9) is the number of references there are: from threads, from
\* kernel stacks, from descriptor tables, from parents between thread() and the descriptor
\* of the child (sys.cc:103-105), and from kernelMain.
InHand(o) == Cardinality({p \in Proc : th[p].pc \in {"down", "read", "add"} /\ th[p].obj = o})
CountsExact ==
    /\ \A p \in Proc :
           pcbRefs[p] = th[p].refs + (IF Live(p) THEN 1 ELSE 0)
                      + (IF booting /\ p = First THEN 1 ELSE 0)
                      + Cardinality({q \in Proc : th[q].pc = "fork" /\ th[q].obj = p})
    /\ \A p \in Proc :
           futRefs[p] = (IF pcbRefs[p] > 0 THEN 1 ELSE 0)
                      + Slots(pdt, PdSlot, p)
    /\ \A o \in Files \cup Sems :
           objRefs[o] = InHand(o) + Slots(fdt, FdSlot, o) + Slots(sdt, SdSlot, o)
    /\ fsRefs >= Cardinality({p \in Proc : pcbRefs[p] > 0}) + (IF booting THEN 1 ELSE 0)

\* wait comes back with what the child passed to exit, or -1 after a fault (future.h:16: the
\* value is there before the permit), and the permit is there again for whoever asks next.
StatusDelivered ==
    \A p \in Proc :
        /\ exited[p].permits > 0 => exited[p].set
        /\ th[p].pc = "waited" => /\ exited[th[p].obj].set
                                  /\ th[p].val = exited[th[p].obj].value

\* Once the status is set its one permit is there, or on its way back from a waiter, as long
\* as somebody may ask: any number of waits after it come back (future.h:20-23).
WaitersServed ==
    \A c \in Proc :
        exited[c].set /\ th[c].pc # "set" =>
            exited[c].permits + Cardinality({p \in Proc : th[p].pc = "got" /\ th[p].obj = c}) = 1
=============================================================================
