--------------------------- MODULE ProcessesProofs ---------------------------
(***************************************************************************)
(* Proofs about Processes: whatever the processes ask for, every ref_count *)
(* of shared.h is the number of references there are, a wait comes back    *)
(* with the child's exit status, and the status is there for the next one. *)
(* They hold for any finite number of processes and any sizes of the       *)
(* tables, under the programs of Enter and under those of the test images. *)
(*                                                                         *)
(* CountsExact is not inductive: that a count can be dropped at all rests  *)
(* on what the threads are doing, and that a deleted object leaves nothing *)
(* behind on the tables of the dead being empty.  Inv adds that: the       *)
(* memory as one record (Sound), the threads and what each holds           *)
(* (Threads), the counts as gaps between a counter and the descriptors     *)
(* (Counted), the slots that calls in progress have been given (Slotted)   *)
(* and the stages of a Future (Answered).                                  *)
(*                                                                         *)
(* An operator on the memory changes a gap by what it adds to the counter  *)
(* less what it puts in the tables, and a step of a thread keeps the       *)
(* counts when the gaps change by what the thread comes to hold less what  *)
(* it held (StepKeeps).  Values - statuses, bytes, permits of semaphores,  *)
(* offsets - are typed nowhere, so that programs may pass anything.        *)
(***************************************************************************)
EXTENDS TestPrograms, FiniteSetTheorems, TLAPS

-----------------------------------------------------------------------------
(* The inductive invariant.                                                 *)

\* The memory (mem in Processes), with its counters and tables.
Objects == Files \cup Sems
Fields == {"fdt", "pdt", "sdt", "pcb", "fut", "obj", "fs", "exited", "permits", "node", "offset"}
Tables(m) ==
    /\ m.fdt \in [Proc -> [FdSlot -> Files \cup {Empty}]]
    /\ m.pdt \in [Proc -> [PdSlot -> Proc \cup {Empty}]]
    /\ m.sdt \in [Proc -> [SdSlot -> Sems \cup {Empty}]]
Counters(m) ==
    /\ m.pcb \in [Proc -> Nat] /\ m.fut \in [Proc -> Nat]
    /\ m.obj \in [Objects -> Nat] /\ m.fs \in Int

\* A Future, and one nobody has set.
IsFuture(e) == DOMAIN e = {"set", "value", "permits"} /\ e.set \in BOOLEAN /\ e.permits \in Nat
Unset(e) == ~e.set /\ e.permits = 0
Futures(m) ==
    /\ DOMAIN m.exited = Proc
    /\ \A p \in Proc : IsFuture(m.exited[p])
IsMem(m) == DOMAIN m = Fields /\ Tables(m) /\ Counters(m) /\ Futures(m)

\* A deleted process has no descriptors, and a deleted exit status is as a new one.
NoTables(m, p) == m.fdt[p] = NoFds /\ m.pdt[p] = NoPds /\ m.sdt[p] = NoSds
Gone(m) ==
    /\ \A p \in Proc : m.pcb[p] = 0 => NoTables(m, p)
    /\ \A p \in Proc : m.fut[p] = 0 => Unset(m.exited[p])
Sound(m) == IsMem(m) /\ Gone(m)

\* What a counter has above the references from tables and PCBs.
FutGap(m, p) == m.fut[p] - (IF m.pcb[p] > 0 THEN 1 ELSE 0) - Slots(m.pdt, PdSlot, p)
ObjGap(m, o) == m.obj[o] - Slots(m.fdt, FdSlot, o) - Slots(m.sdt, SdSlot, o)
FsGap(m) == m.fs - Cardinality({p \in Proc : m.pcb[p] > 0})

\* The threads between thread() and the child's descriptor, those with a copy of o in a call,
\* and those that have taken the permit of c's status.
Forking(f, c) == {q \in Proc : f[q].pc = "fork" /\ f[q].obj = c}
InHands(f, o) == {q \in Proc : f[q].pc \in {"down", "read", "add"} /\ f[q].obj = o}
Asking(f, c) == {q \in Proc : f[q].pc = "got" /\ f[q].obj = c}

\* What one thread counts for.
Bears(t, c) == IF t.pc = "fork" /\ t.obj = c THEN 1 ELSE 0
Hands(t, o) == IF t.pc \in {"down", "read", "add"} /\ t.obj = o THEN 1 ELSE 0
Asks(t, c) == IF t.pc = "got" /\ t.obj = c THEN 1 ELSE 0

\* A thread, and the references to its PCB it has at each stage of its call.
Stages == {"none", "user", "down", "read", "add", "fork", "wait", "got", "waited", "exit",
           "set", "up", "stopped"}
Calling == {"down", "read", "add", "fork", "wait", "got", "waited"}
IsThread(t) ==
    /\ DOMAIN t = {"pc", "slot", "obj", "val", "refs"}
    /\ t.pc \in Stages /\ t.refs \in Nat
    /\ t.pc = "user" => t.refs = 0
    /\ t.pc \in Calling => t.refs = 1
    /\ t.pc \in {"exit", "set", "up"} => t.refs >= 1
    /\ t.pc \in {"down", "read", "add"} => t.obj \in Objects
    /\ t.pc \in {"fork", "wait", "got", "waited"} => t.slot \in PdSlot /\ t.obj \in Proc
Threads(f) == DOMAIN f = Proc /\ \A p \in Proc : IsThread(f[p])

\* The references there are to p's PCB: its thread's, kernelMain's, and its parent's in fork.
Num(condition) == IF condition THEN 1 ELSE 0
Weighs(t) == t.refs + IF t.pc = "none" THEN 0 ELSE 1
Owed(f, b, p) == Weighs(f[p]) + Num(b /\ p = First) + Cardinality(Forking(f, p))

Counted(f, b, m) ==
    /\ \A p \in Proc : m.pcb[p] = Owed(f, b, p)
    /\ \A p \in Proc : FutGap(m, p) = 0
    /\ \A o \in Objects : ObjGap(m, o) = Cardinality(InHands(f, o))
    /\ FsGap(m) >= Num(b)

\* The slot fork has found stays free, and the one wait was given stays as it was: nobody but
\* the thread of a process changes its tables.
Slotted(f, m) ==
    \A p \in Proc :
        /\ f[p].pc = "fork" => m.pdt[p][f[p].slot] = Empty
        /\ f[p].pc \in {"wait", "got", "waited"} => m.pdt[p][f[p].slot] = f[p].obj

\* The status is set once, by exit; from then on its one permit is there or with a waiter.
Answered(f, m) ==
    \A c \in Proc :
        /\ m.exited[c].set => f[c].pc \in {"none", "set", "up", "stopped"}
        /\ f[c].pc = "set" => m.exited[c].set
        /\ IF m.exited[c].set /\ f[c].pc # "set"
           THEN m.exited[c].permits + Cardinality(Asking(f, c)) = 1
           ELSE m.exited[c].permits = 0 /\ Asking(f, c) = {}
        /\ f[c].pc = "waited" => /\ m.exited[f[c].obj].set
                                 /\ f[c].val = m.exited[f[c].obj].value

State(f, b, m) ==
    b \in BOOLEAN /\ Threads(f) /\ Sound(m) /\ Counted(f, b, m) /\ Slotted(f, m) /\ Answered(f, m)
Inv == State(th, booting, mem)

-----------------------------------------------------------------------------
(* Steps.                                                                   *)

\* The statuses of n are those of m, except what nobody can ask for any more.
Keeps(m, n) ==
    \A q \in Proc : n.exited[q] = m.exited[q] \/ (n.fut[q] = 0 /\ Unset(n.exited[q]))
\* No status is referred to anew.
Fewer(m, n) == \A q \in Proc : m.fut[q] = 0 => n.fut[q] = 0
SameTables(m, n) == n.fdt = m.fdt /\ n.pdt = m.pdt /\ n.sdt = m.sdt

\* What a program may ask for in one step, with whatever it passes, and every step there is.
Calls(p) ==
    \/ \E i, x : Open(p, i, x) \/ Sem(p, i, x) \/ Seek(p, i, x) \/ Read(p, i, x)
    \/ \E i : CloseFd(p, i) \/ CloseSd(p, i) \/ ClosePd(p, i)
    \/ \E i : Up(p, i) \/ Down(p, i) \/ Wait(p, i)
    \/ \E i : \E c \in Proc : Fork(p, i, c)
    \/ \E v : Exit(p, v)
    \/ Execl(p) \/ Fault(p) \/ FaultInOpen(p)
OneCall(p) == Calls(p) \/ UNCHANGED vars
Operation ==
    \/ UNCHANGED vars
    \/ Booted
    \/ \E p \in Proc : Calls(p) \/ Serve(p) \/ FaultInWait(p)

-----------------------------------------------------------------------------
(* Counting.                                                                *)

\* Two finite sets that differ in x at most.
LEMMA CountChange ==
    ASSUME NEW S, NEW T, NEW x, IsFiniteSet(S), T \ {x} = S \ {x}
    PROVE  /\ IsFiniteSet(T)
           /\ Cardinality(S) \in Nat /\ Cardinality(T) \in Nat
           /\ Cardinality(T) = Cardinality(S) - (IF x \in S THEN 1 ELSE 0)
                                              + (IF x \in T THEN 1 ELSE 0)
  <1> DEFINE R == S \ {x}
  <1>1. IsFiniteSet(R) /\ Cardinality(R) = IF x \in S THEN Cardinality(S) - 1 ELSE Cardinality(S)
    BY FS_RemoveElement
  <1>2. x \notin R
    OBVIOUS
  <1>3. T = IF x \in T THEN R \cup {x} ELSE R
    OBVIOUS
  <1>4. /\ IsFiniteSet(R \cup {x})
        /\ Cardinality(R \cup {x}) = Cardinality(R) + 1
    BY <1>1, <1>2, FS_AddElement
  <1>5. Cardinality(S) \in Nat /\ Cardinality(R) \in Nat
    BY <1>1, FS_CardinalityType
  <1> HIDE DEF R
  <1>6. CASE x \in T
    <2>1. T = R \cup {x}
      BY <1>3, <1>6
    <2> QED
      BY <2>1, <1>1, <1>4, <1>5, <1>6
  <1>7. CASE x \notin T
    <2>1. T = R
      BY <1>3, <1>7
    <2> QED
      BY <2>1, <1>1, <1>5, <1>7
  <1> QED
    BY <1>6, <1>7

\* A part of a finite set is counted by a natural number.
LEMMA CountNat ==
    ASSUME NEW S, IsFiniteSet(S), NEW T \in SUBSET S
    PROVE  IsFiniteSet(T) /\ Cardinality(T) \in Nat /\ (T # {} => Cardinality(T) >= 1)
  <1>1. IsFiniteSet(T)
    BY FS_Subset
  <1>2. Cardinality(T) \in Nat /\ (Cardinality(T) = 0 <=> T = {})
    BY <1>1, FS_CardinalityType, FS_EmptySet
  <1> QED
    BY <1>1, <1>2

\* Pairs with one first component are as many as their second components.
LEMMA CountRow ==
    ASSUME NEW S, IsFiniteSet(S), NEW p
    PROVE  IsFiniteSet({p} \X S) /\ Cardinality({p} \X S) = Cardinality(S)
  <1> DEFINE f == [s \in S |-> <<p, s>>]
  <1>1. f \in Bijection(S, {p} \X S)
    BY DEF Bijection, Injection, Surjection, IsInjective
  <1>2. ExistsBijection(S, {p} \X S)
    BY <1>1 DEF ExistsBijection
  <1> QED
    BY <1>2, FS_Bijection

\* Disjoint finite sets.
LEMMA CountUnion ==
    ASSUME NEW S, NEW T, IsFiniteSet(S), IsFiniteSet(T), S \cap T = {}
    PROVE  /\ IsFiniteSet(S \cup T)
           /\ Cardinality(S \cup T) = Cardinality(S) + Cardinality(T)
           /\ Cardinality(S) \in Nat /\ Cardinality(T) \in Nat
  <1>1. Cardinality(S) \in Nat /\ Cardinality(T) \in Nat
    BY FS_CardinalityType
  <1>2. IsFiniteSet(S \cup T)
        /\ Cardinality(S \cup T) = Cardinality(S) + Cardinality(T) - Cardinality(S \cap T)
    BY FS_Union
  <1>3. Cardinality(S \cap T) = 0
    BY FS_EmptySet
  <1> QED
    BY <1>1, <1>2, <1>3

\* The uses a table has of an object are a number, not 0 when a slot has it.
LEMMA UsesNat ==
    ASSUME NEW slot, IsFiniteSet(slot), NEW row, DOMAIN row = slot, NEW o
    PROVE  Uses(row, o) \in Nat /\ IsFiniteSet({i \in DOMAIN row : row[i] = o})
           /\ \A i \in slot : row[i] = o => Uses(row, o) >= 1
  BY CountNat DEF Uses

\* A slot is given another content.
LEMMA UsesChange ==
    ASSUME NEW slot, IsFiniteSet(slot), NEW row, DOMAIN row = slot, NEW i \in slot,
           NEW new, DOMAIN new = slot, \A j \in slot : j # i => new[j] = row[j], NEW o
    PROVE  Uses(new, o)
           = Uses(row, o) - (IF row[i] = o THEN 1 ELSE 0) + (IF new[i] = o THEN 1 ELSE 0)
  <1> DEFINE S == {j \in slot : row[j] = o}
             T == {j \in slot : new[j] = o}
  <1>1. IsFiniteSet(S)
    BY FS_Subset
  <1>2. T \ {i} = S \ {i}
    OBVIOUS
  <1>3. (i \in S <=> row[i] = o) /\ (i \in T <=> new[i] = o)
    OBVIOUS
  <1>4. Uses(row, o) = Cardinality(S) /\ Uses(new, o) = Cardinality(T)
    BY DEF Uses
  <1> HIDE DEF S, T
  <1> QED
    BY <1>1, <1>2, <1>3, <1>4, CountChange

\* The table of one process becomes `row`.
LEMMA SlotsRow ==
    ASSUME NEW slot, IsFiniteSet(slot), IsFiniteSet(Proc), NEW p \in Proc, NEW t, NEW row,
           DOMAIN t = Proc, DOMAIN t[p] = slot, DOMAIN row = slot, NEW o
    PROVE  /\ Slots([t EXCEPT ![p] = row], slot, o) = Slots(t, slot, o) - Uses(t[p], o) + Uses(row, o)
           /\ Slots([t EXCEPT ![p] = row], slot, o) \in Nat
           /\ Slots(t, slot, o) \in Nat
           /\ Slots(t, slot, o) >= Uses(t[p], o)
  <1> DEFINE u == [t EXCEPT ![p] = row]
             R == {x \in (Proc \ {p}) \X slot : t[x[1]][x[2]] = o}
             S == {i \in slot : t[p][i] = o}
             T == {i \in slot : row[i] = o}
  <1>1. IsFiniteSet(S) /\ IsFiniteSet(T)
    BY FS_Subset
  <1>2. IsFiniteSet(R)
    <2>1. IsFiniteSet(Proc \X slot)
      BY FS_Product
    <2>2. R \in SUBSET (Proc \X slot)
      OBVIOUS
    <2> QED
      BY <2>1, <2>2, FS_Subset
  <1>3. {x \in Proc \X slot : t[x[1]][x[2]] = o} = R \cup ({p} \X S)
    OBVIOUS
  <1>4. {x \in Proc \X slot : u[x[1]][x[2]] = o} = R \cup ({p} \X T)
    OBVIOUS
  <1>5. R \cap ({p} \X S) = {} /\ R \cap ({p} \X T) = {}
    OBVIOUS
  <1>6. Slots(t, slot, o) = Cardinality(R \cup ({p} \X S))
    BY <1>3 DEF Slots
  <1>7. Slots(u, slot, o) = Cardinality(R \cup ({p} \X T))
    BY <1>4 DEF Slots
  <1>8. Uses(t[p], o) = Cardinality(S) /\ Uses(row, o) = Cardinality(T)
    BY DEF Uses
  <1> HIDE DEF R, S, T, u
  <1>9. /\ Cardinality(R \cup ({p} \X S)) = Cardinality(R) + Cardinality(S)
        /\ Cardinality(R \cup ({p} \X T)) = Cardinality(R) + Cardinality(T)
        /\ Cardinality(R) \in Nat /\ Cardinality(S) \in Nat /\ Cardinality(T) \in Nat
    <2>1. /\ IsFiniteSet({p} \X S) /\ Cardinality({p} \X S) = Cardinality(S)
          /\ IsFiniteSet({p} \X T) /\ Cardinality({p} \X T) = Cardinality(T)
      BY <1>1, CountRow
    <2> DEFINE PS == {p} \X S
               PT == {p} \X T
    <2> HIDE DEF PS, PT
    <2>2. /\ Cardinality(R \cup PS) = Cardinality(R) + Cardinality(PS)
          /\ Cardinality(R) \in Nat /\ Cardinality(PS) \in Nat
      BY <1>2, <1>5, <2>1, CountUnion DEF PS
    <2>3. /\ Cardinality(R \cup PT) = Cardinality(R) + Cardinality(PT)
          /\ Cardinality(PT) \in Nat
      BY <1>2, <1>5, <2>1, CountUnion DEF PT
    <2> QED
      BY <2>1, <2>2, <2>3 DEF PS, PT
  <1> QED
    BY <1>6, <1>7, <1>8, <1>9 DEF u

\* One slot is given another content.
LEMMA SlotsPut ==
    ASSUME NEW slot, IsFiniteSet(slot), IsFiniteSet(Proc), NEW p \in Proc, NEW t,
           DOMAIN t = Proc, DOMAIN t[p] = slot, NEW i \in slot,
           NEW u, DOMAIN u = Proc, DOMAIN u[p] = slot,
           \A q \in Proc : q # p => u[q] = t[q],
           \A j \in slot : j # i => u[p][j] = t[p][j], NEW o
    PROVE  /\ Slots(u, slot, o)
              = Slots(t, slot, o) - (IF t[p][i] = o THEN 1 ELSE 0) + (IF u[p][i] = o THEN 1 ELSE 0)
           /\ Slots(u, slot, o) \in Nat
           /\ Slots(t, slot, o) \in Nat
           /\ t[p][i] = o => Slots(t, slot, o) >= 1
  <1> DEFINE old == t[p]
             row == u[p]
             w == [t EXCEPT ![p] = row]
  <1>1. /\ DOMAIN old = slot /\ DOMAIN row = slot /\ i \in slot /\ IsFiniteSet(slot)
        /\ old[i] = t[p][i] /\ row[i] = u[p][i]
        /\ \A j \in slot : j # i => row[j] = old[j]
    OBVIOUS
  <1>2. Slots(u, slot, o) = Slots(w, slot, o)
    <2>1. \A x \in Proc \X slot : u[x[1]][x[2]] = w[x[1]][x[2]]
      OBVIOUS
    <2>2. {x \in Proc \X slot : u[x[1]][x[2]] = o} = {x \in Proc \X slot : w[x[1]][x[2]] = o}
      BY <2>1
    <2> QED
      BY <2>2 DEF Slots
  <1>3. /\ Slots(w, slot, o) = Slots(t, slot, o) - Uses(old, o) + Uses(row, o)
        /\ Slots(w, slot, o) \in Nat
        /\ Slots(t, slot, o) \in Nat
        /\ Slots(t, slot, o) >= Uses(old, o)
    <2> HIDE DEF row
    <2> QED
      BY <1>1, SlotsRow
  <1> HIDE DEF old, row, w
  <1>4. Uses(row, o) = Uses(old, o) - (IF old[i] = o THEN 1 ELSE 0) + (IF row[i] = o THEN 1 ELSE 0)
    BY ONLY <1>1, UsesChange
  <1>5. Uses(old, o) \in Nat /\ (old[i] = o => Uses(old, o) >= 1)
    BY ONLY <1>1, UsesNat
  <1> QED
    BY ONLY <1>1, <1>2, <1>3, <1>4, <1>5

-----------------------------------------------------------------------------
(* The memory: what each of its operators does to the counts.               *)

\* What the constants give: everything counted is finite, and Empty is no object.
LEMMA Constants ==
    /\ IsFiniteSet(Proc) /\ First \in Proc
    /\ IsFiniteSet(FdSlot) /\ IsFiniteSet(PdSlot) /\ IsFiniteSet(SdSlot)
    /\ Empty \notin Proc /\ Empty \notin Objects
  BY ProcessesAssumption, FS_Interval DEF FdSlot, PdSlot, SdSlot, Objects

\* What the gaps are made of is numbers.
LEMMA Numbers ==
    ASSUME NEW m, IsMem(m)
    PROVE  /\ \A o : /\ Slots(m.fdt, FdSlot, o) \in Nat
                     /\ Slots(m.pdt, PdSlot, o) \in Nat
                     /\ Slots(m.sdt, SdSlot, o) \in Nat
           /\ Cardinality({p \in Proc : m.pcb[p] > 0}) \in Nat
           /\ \A p \in Proc : m.pcb[p] \in Nat /\ m.fut[p] \in Nat /\ FutGap(m, p) \in Int
           /\ \A o \in Objects : m.obj[o] \in Nat /\ ObjGap(m, o) \in Int
           /\ m.fs \in Int /\ FsGap(m) \in Int
  <1>1. \A o : /\ Slots(m.fdt, FdSlot, o) \in Nat
               /\ Slots(m.pdt, PdSlot, o) \in Nat
               /\ Slots(m.sdt, SdSlot, o) \in Nat
    BY Constants, SlotsRow DEF IsMem, Tables
  <1>2. Cardinality({p \in Proc : m.pcb[p] > 0}) \in Nat
    BY Constants, CountNat
  <1> QED
    BY <1>1, <1>2 DEF IsMem, Counters, FutGap, ObjGap, FsGap

\* What two steps keep.
LEMMA KeepsMore ==
    ASSUME NEW m, NEW k, NEW n, Keeps(m, k), Keeps(k, n), Fewer(k, n)
    PROVE  Keeps(m, n)
  BY DEF Keeps, Fewer

\* A reference more to an object.
LEMMA ReferCounts ==
    ASSUME NEW m, Sound(m), NEW o \in Objects
    PROVE  LET n == Refer(m, o)
           IN  /\ Sound(n) /\ SameTables(m, n)
               /\ n.pcb = m.pcb /\ n.fut = m.fut /\ n.fs = m.fs /\ n.exited = m.exited
               /\ \A x \in Objects : ObjGap(n, x) = ObjGap(m, x) + IF x = o THEN 1 ELSE 0
  <1> DEFINE n == Refer(m, o)
  <1>1. /\ DOMAIN n = Fields /\ SameTables(m, n)
        /\ n.pcb = m.pcb /\ n.fut = m.fut /\ n.fs = m.fs /\ n.exited = m.exited
        /\ n.obj = [m.obj EXCEPT ![o] = @ + 1]
    BY DEF Refer, Sound, IsMem, Fields, SameTables
  <1> HIDE DEF n
  <1>2. Sound(n)
    BY <1>1 DEF Sound, IsMem, Tables, Counters, Futures, Gone, NoTables, SameTables
  <1>3. ASSUME NEW x \in Objects
        PROVE  ObjGap(n, x) = ObjGap(m, x) + IF x = o THEN 1 ELSE 0
    <2>1. n.obj[x] = m.obj[x] + IF x = o THEN 1 ELSE 0
      BY <1>1 DEF Sound, IsMem, Counters
    <2>2. ObjGap(m, x) \in Int /\ m.obj[x] \in Nat
      BY Numbers DEF Sound
    <2>3. Slots(m.fdt, FdSlot, x) \in Nat /\ Slots(m.sdt, SdSlot, x) \in Nat
      BY Numbers DEF Sound
    <2> QED
      BY <1>1, <2>1, <2>2, <2>3 DEF ObjGap, SameTables
  <1> QED
    BY <1>1, <1>2, <1>3 DEF n

\* What Collect leaves when the new counts are natural numbers.
LEMMA CollectCounts ==
    ASSUME NEW m, Sound(m), NEW fut \in [Proc -> Nat], NEW obj \in [Objects -> Nat]
    PROVE  LET n == Collect(m, fut, obj)
           IN  /\ Sound(n) /\ SameTables(m, n) /\ Keeps(m, n)
               /\ n.pcb = m.pcb /\ n.fut = fut /\ n.obj = obj /\ n.fs = m.fs
  <1> DEFINE n == Collect(m, fut, obj)
  <1>1. /\ DOMAIN n = Fields /\ SameTables(m, n)
        /\ n.pcb = m.pcb /\ n.fut = fut /\ n.obj = obj /\ n.fs = m.fs
        /\ n.exited = [p \in Proc |-> IF fut[p] = 0 THEN NoFuture ELSE m.exited[p]]
    BY DEF Collect, Sound, IsMem, Fields, SameTables
  <1> HIDE DEF n
  <1>2. IsFuture(NoFuture) /\ Unset(NoFuture)
    BY DEF IsFuture, Unset, NoFuture
  <1>3. Keeps(m, n)
    BY <1>1, <1>2 DEF Keeps
  <1>4. IsMem(n)
    <2>1. Futures(n)
      BY <1>1, <1>2 DEF Sound, IsMem, Futures
    <2> QED
      BY <1>1, <2>1 DEF Sound, IsMem, Tables, Counters, SameTables
  <1>5. Gone(n)
    BY <1>1, <1>2 DEF Sound, Gone, NoTables, SameTables
  <1> QED
    BY <1>1, <1>3, <1>4, <1>5 DEF n, Sound

\* A reference less to an object that has one.
LEMMA DropCounts ==
    ASSUME NEW m, Sound(m), NEW o \in Objects, m.obj[o] >= 1
    PROVE  LET n == Drop(m, o)
           IN  /\ Sound(n) /\ SameTables(m, n) /\ Keeps(m, n)
               /\ n.pcb = m.pcb /\ n.fut = m.fut /\ n.fs = m.fs
               /\ \A x \in Objects : ObjGap(n, x) = ObjGap(m, x) - IF x = o THEN 1 ELSE 0
  <1> DEFINE n == Drop(m, o)
  <1>1. m.fut \in [Proc -> Nat] /\ [m.obj EXCEPT ![o] = @ - 1] \in [Objects -> Nat]
    BY DEF Sound, IsMem, Counters
  <1>2. /\ Sound(n) /\ SameTables(m, n) /\ Keeps(m, n)
        /\ n.pcb = m.pcb /\ n.fut = m.fut /\ n.fs = m.fs /\ n.obj = [m.obj EXCEPT ![o] = @ - 1]
    BY <1>1, CollectCounts DEF Drop
  <1> HIDE DEF n
  <1>3. ASSUME NEW x \in Objects
        PROVE  ObjGap(n, x) = ObjGap(m, x) - IF x = o THEN 1 ELSE 0
    <2>1. n.obj[x] = m.obj[x] - IF x = o THEN 1 ELSE 0
      BY <1>2 DEF Sound, IsMem, Counters
    <2>2. m.obj[x] \in Nat
      BY Numbers DEF Sound
    <2>3. Slots(m.fdt, FdSlot, x) \in Nat /\ Slots(m.sdt, SdSlot, x) \in Nat
      BY Numbers DEF Sound
    <2> QED
      BY <1>2, <2>1, <2>2, <2>3 DEF ObjGap, SameTables
  <1> QED
    BY <1>2, <1>3 DEF n

\* A reference less to an exit status that has one.
LEMMA DropFutureCounts ==
    ASSUME NEW m, Sound(m), NEW p \in Proc, m.fut[p] >= 1
    PROVE  LET n == DropFuture(m, p)
           IN  /\ Sound(n) /\ SameTables(m, n) /\ Keeps(m, n)
               /\ n.pcb = m.pcb /\ n.obj = m.obj /\ n.fs = m.fs
               /\ \A q \in Proc : FutGap(n, q) = FutGap(m, q) - IF q = p THEN 1 ELSE 0
  <1> DEFINE n == DropFuture(m, p)
  <1>1. [m.fut EXCEPT ![p] = @ - 1] \in [Proc -> Nat] /\ m.obj \in [Objects -> Nat]
    BY DEF Sound, IsMem, Counters
  <1>2. /\ Sound(n) /\ SameTables(m, n) /\ Keeps(m, n)
        /\ n.pcb = m.pcb /\ n.obj = m.obj /\ n.fs = m.fs /\ n.fut = [m.fut EXCEPT ![p] = @ - 1]
    BY <1>1, CollectCounts DEF DropFuture
  <1> HIDE DEF n
  <1>3. ASSUME NEW q \in Proc
        PROVE  FutGap(n, q) = FutGap(m, q) - IF q = p THEN 1 ELSE 0
    <2>1. n.fut[q] = m.fut[q] - IF q = p THEN 1 ELSE 0
      BY <1>2 DEF Sound, IsMem, Counters
    <2>2. m.fut[q] \in Nat /\ Slots(m.pdt, PdSlot, q) \in Nat
      BY Numbers DEF Sound
    <2> QED
      BY <1>2, <2>1, <2>2 DEF FutGap, SameTables
  <1> QED
    BY <1>2, <1>3 DEF n

\* The processes with a PCB are as many when a count changes between positive numbers.
LEMMA SameAlive ==
    ASSUME NEW m, NEW n, DOMAIN m.pcb = Proc, DOMAIN n.pcb = Proc, n.fs = m.fs,
           \A q \in Proc : n.pcb[q] > 0 <=> m.pcb[q] > 0
    PROVE  FsGap(n) = FsGap(m)
  <1>1. {q \in Proc : n.pcb[q] > 0} = {q \in Proc : m.pcb[q] > 0}
    OBVIOUS
  <1> QED
    BY <1>1 DEF FsGap

\* A reference more to a PCB there is.
LEMMA HoldingCounts ==
    ASSUME NEW m, Sound(m), NEW p \in Proc, m.pcb[p] >= 1
    PROVE  LET n == Holding(m, p)
           IN  /\ Sound(n) /\ SameTables(m, n)
               /\ n.pcb = [m.pcb EXCEPT ![p] = @ + 1]
               /\ n.fut = m.fut /\ n.obj = m.obj /\ n.fs = m.fs /\ n.exited = m.exited
               /\ \A q \in Proc : FutGap(n, q) = FutGap(m, q)
               /\ \A o \in Objects : ObjGap(n, o) = ObjGap(m, o)
               /\ FsGap(n) = FsGap(m)
  <1> DEFINE n == Holding(m, p)
  <1>1. /\ DOMAIN n = Fields /\ SameTables(m, n)
        /\ n.pcb = [m.pcb EXCEPT ![p] = @ + 1]
        /\ n.fut = m.fut /\ n.obj = m.obj /\ n.fs = m.fs /\ n.exited = m.exited
    BY DEF Holding, Sound, IsMem, Fields, SameTables
  <1> HIDE DEF n
  <1>2. /\ n.pcb \in [Proc -> Nat] /\ m.pcb \in [Proc -> Nat]
        /\ \A q \in Proc : /\ n.pcb[q] > 0 <=> m.pcb[q] > 0
                           /\ n.pcb[q] = 0 <=> m.pcb[q] = 0
    BY <1>1 DEF Sound, IsMem, Counters
  <1>3. Sound(n)
    BY <1>1, <1>2 DEF Sound, IsMem, Tables, Counters, Futures, Gone, NoTables, SameTables
  <1>4. FsGap(n) = FsGap(m)
    BY <1>1, <1>2, SameAlive
  <1>5. \A q \in Proc : FutGap(n, q) = FutGap(m, q)
    BY <1>1, <1>2 DEF FutGap, SameTables
  <1>6. \A o \in Objects : ObjGap(n, o) = ObjGap(m, o)
    BY <1>1 DEF ObjGap, SameTables
  <1> QED
    BY <1>1, <1>3, <1>4, <1>5, <1>6 DEF n

\* A table of a new process refers to nothing.
LEMMA NoneUsed ==
    /\ \A o \in Objects : Uses(NoFds, o) = 0 /\ Uses(NoSds, o) = 0
    /\ \A q \in Proc : Uses(NoPds, q) = 0
  <1>1. /\ \A o \in Objects : /\ {i \in DOMAIN NoFds : NoFds[i] = o} = {}
                              /\ {i \in DOMAIN NoSds : NoSds[i] = o} = {}
        /\ \A q \in Proc : {i \in DOMAIN NoPds : NoPds[i] = q} = {}
    BY Constants DEF NoFds, NoPds, NoSds
  <1> QED
    BY <1>1, FS_EmptySet DEF Uses

\* The last reference to a PCB goes, and with it everything the process refers to.
LEMMA DestroyCounts ==
    ASSUME NEW m, Sound(m), NEW p \in Proc, m.pcb[p] = 1,
           \A q \in Proc : FutGap(m, q) >= 0, \A o \in Objects : ObjGap(m, o) >= 0
    PROVE  LET n == DropPcb(m, p)
           IN  /\ Sound(n) /\ Keeps(m, n) /\ Fewer(m, n)
               /\ n.pcb = [m.pcb EXCEPT ![p] = @ - 1]
               /\ \A q \in Proc : q # p => n.pdt[q] = m.pdt[q]
               /\ \A q \in Proc : FutGap(n, q) = FutGap(m, q)
               /\ \A o \in Objects : ObjGap(n, o) = ObjGap(m, o)
               /\ FsGap(n) = FsGap(m)
  <1> DEFINE n == DropPcb(m, p)
             fut == [q \in Proc |-> m.fut[q] - (IF q = p THEN 1 ELSE 0) - Uses(m.pdt[p], q)]
             obj == [o \in Objects |-> m.obj[o] - Uses(m.fdt[p], o) - Uses(m.sdt[p], o)]
  <1>1. /\ DOMAIN n = Fields
        /\ n.fdt = [m.fdt EXCEPT ![p] = NoFds]
        /\ n.pdt = [m.pdt EXCEPT ![p] = NoPds]
        /\ n.sdt = [m.sdt EXCEPT ![p] = NoSds]
        /\ n.pcb = [m.pcb EXCEPT ![p] = @ - 1]
        /\ n.fut = fut /\ n.obj = obj /\ n.fs = m.fs - 1
        /\ n.exited = [q \in Proc |-> IF fut[q] = 0 THEN NoFuture ELSE m.exited[q]]
    <2> DEFINE less == [m EXCEPT !.pcb[p] = @ - 1]
               c == Collect(less, [q \in Proc |-> less.fut[q] - (IF q = p THEN 1 ELSE 0)
                                                 - Uses(less.pdt[p], q)],
                            [o \in Files \cup Sems |-> less.obj[o] - Uses(less.fdt[p], o)
                                                     - Uses(less.sdt[p], o)])
    <2>1. /\ DOMAIN less = Fields /\ SameTables(m, less)
          /\ less.pcb = [m.pcb EXCEPT ![p] = @ - 1]
          /\ less.fut = m.fut /\ less.obj = m.obj /\ less.fs = m.fs /\ less.exited = m.exited
      BY DEF Sound, IsMem, Fields, SameTables
    <2>2. n = [c EXCEPT !.fdt[p] = NoFds, !.pdt[p] = NoPds, !.sdt[p] = NoSds, !.fs = @ - 1]
      <3>1. n = IF m.pcb[p] = 1 THEN Destroy(less, p) ELSE less
        BY DEF DropPcb
      <3>2. Destroy(less, p)
            = [c EXCEPT !.fdt[p] = NoFds, !.pdt[p] = NoPds, !.sdt[p] = NoSds, !.fs = @ - 1]
        BY DEF Destroy
      <3> QED
        BY <3>1, <3>2
    <2> HIDE DEF n, less
    <2>3. /\ DOMAIN c = Fields /\ SameTables(less, c)
          /\ c.pcb = less.pcb /\ c.fs = less.fs /\ c.fut = fut /\ c.obj = obj
          /\ c.exited = [q \in Proc |-> IF fut[q] = 0 THEN NoFuture ELSE less.exited[q]]
      BY <2>1 DEF Collect, Fields, SameTables, Objects
    <2> HIDE DEF c, fut, obj
    <2> QED
      BY <2>1, <2>2, <2>3 DEF Fields, SameTables
  <1> HIDE DEF n
  <1>2. /\ NoFds \in [FdSlot -> Files \cup {Empty}]
        /\ NoPds \in [PdSlot -> Proc \cup {Empty}]
        /\ NoSds \in [SdSlot -> Sems \cup {Empty}]
    BY DEF NoFds, NoPds, NoSds
  <1>3. Tables(n)
    BY <1>1, <1>2 DEF Sound, IsMem, Tables
  <1>5. ASSUME NEW q \in Proc
        PROVE  /\ Slots(n.pdt, PdSlot, q) = Slots(m.pdt, PdSlot, q) - Uses(m.pdt[p], q)
               /\ Slots(n.pdt, PdSlot, q) \in Nat
               /\ Slots(m.pdt, PdSlot, q) >= Uses(m.pdt[p], q)
               /\ Slots(m.pdt, PdSlot, q) \in Nat
               /\ Uses(m.pdt[p], q) \in Nat
    <2>1. DOMAIN m.pdt = Proc /\ DOMAIN m.pdt[p] = PdSlot /\ DOMAIN NoPds = PdSlot
      BY DEF Sound, IsMem, Tables, NoPds
    <2>2. Uses(m.pdt[p], q) \in Nat
      BY <2>1, UsesNat, Constants
    <2> QED
      BY SMTT(20), <1>1, <2>1, <2>2, SlotsRow, Constants, NoneUsed
  <1>6. ASSUME NEW o \in Objects
        PROVE  /\ Slots(n.fdt, FdSlot, o) = Slots(m.fdt, FdSlot, o) - Uses(m.fdt[p], o)
               /\ Slots(n.fdt, FdSlot, o) \in Nat
               /\ Slots(m.fdt, FdSlot, o) >= Uses(m.fdt[p], o)
               /\ Slots(m.fdt, FdSlot, o) \in Nat
               /\ Uses(m.fdt[p], o) \in Nat
    <2>1. DOMAIN m.fdt = Proc /\ DOMAIN m.fdt[p] = FdSlot /\ DOMAIN NoFds = FdSlot
      BY DEF Sound, IsMem, Tables, NoFds
    <2>2. Uses(m.fdt[p], o) \in Nat
      BY <2>1, UsesNat, Constants
    <2> QED
      BY SMTT(20), <1>1, <2>1, <2>2, SlotsRow, Constants, NoneUsed
  <1>7. ASSUME NEW o \in Objects
        PROVE  /\ Slots(n.sdt, SdSlot, o) = Slots(m.sdt, SdSlot, o) - Uses(m.sdt[p], o)
               /\ Slots(n.sdt, SdSlot, o) \in Nat
               /\ Slots(m.sdt, SdSlot, o) >= Uses(m.sdt[p], o)
               /\ Slots(m.sdt, SdSlot, o) \in Nat
               /\ Uses(m.sdt[p], o) \in Nat
    <2>1. DOMAIN m.sdt = Proc /\ DOMAIN m.sdt[p] = SdSlot /\ DOMAIN NoSds = SdSlot
      BY DEF Sound, IsMem, Tables, NoSds
    <2>2. Uses(m.sdt[p], o) \in Nat
      BY <2>1, UsesNat, Constants
    <2> QED
      BY SMTT(20), <1>1, <2>1, <2>2, SlotsRow, Constants, NoneUsed
  <1>8. /\ m.pcb \in [Proc -> Nat] /\ m.fut \in [Proc -> Nat] /\ m.obj \in [Objects -> Nat]
        /\ m.fs \in Int
    BY DEF Sound, IsMem, Counters
  <1>9. n.pcb \in [Proc -> Nat] /\ n.pcb[p] = 0 /\ \A q \in Proc \ {p} : n.pcb[q] = m.pcb[q]
    BY <1>1, <1>8
  <1>10. \A q \in Proc : fut[q] \in Nat
    BY <1>5, <1>8 DEF FutGap
  <1>11. \A o \in Objects : obj[o] \in Nat
    BY <1>6, <1>7, <1>8 DEF ObjGap
  <1>12. \A q \in Proc : FutGap(n, q) = FutGap(m, q)
    <2> TAKE q \in Proc
    <2>1. n.fut[q] = m.fut[q] - (IF q = p THEN 1 ELSE 0) - Uses(m.pdt[p], q)
      BY <1>1
    <2>2. (IF n.pcb[q] > 0 THEN 1 ELSE 0) = (IF m.pcb[q] > 0 THEN 1 ELSE 0) - (IF q = p THEN 1 ELSE 0)
      BY <1>8, <1>9
    <2> QED
      BY <1>5, <1>8, <2>1, <2>2 DEF FutGap
  <1>13. \A o \in Objects : ObjGap(n, o) = ObjGap(m, o)
    <2> TAKE o \in Objects
    <2>1. n.obj[o] = m.obj[o] - Uses(m.fdt[p], o) - Uses(m.sdt[p], o)
      BY <1>1
    <2> QED
      BY <1>6, <1>7, <1>8, <2>1 DEF ObjGap
  <1>14. FsGap(n) = FsGap(m)
    <2> DEFINE S == {q \in Proc : m.pcb[q] > 0}
               T == {q \in Proc : n.pcb[q] > 0}
    <2>1. IsFiniteSet(S) /\ T \ {p} = S \ {p} /\ p \in S /\ p \notin T
      BY <1>8, <1>9, CountNat, Constants
    <2> HIDE DEF S, T
    <2>2. Cardinality(T) = Cardinality(S) - 1 /\ Cardinality(S) \in Nat
      BY <2>1, CountChange
    <2> QED
      BY <1>1, <1>8, <2>2 DEF FsGap, S, T
  <1>22. Fewer(m, n)
    BY <1>1, <1>5, <1>8, <1>10 DEF Fewer
  <1> HIDE DEF fut, obj
  <1>15. fut \in [Proc -> Nat] /\ obj \in [Objects -> Nat]
    BY <1>10, <1>11 DEF fut, obj
  <1>16. Counters(n)
    BY <1>1, <1>8, <1>9, <1>15 DEF Counters
  <1>17. IsFuture(NoFuture) /\ Unset(NoFuture)
    BY DEF IsFuture, Unset, NoFuture
  <1>18. Futures(n)
    BY <1>1, <1>17 DEF Futures, Sound, IsMem
  <1>19. Gone(n)
    <2>1. \A q \in Proc : n.pcb[q] = 0 => NoTables(n, q)
      BY <1>1, <1>3, <1>9 DEF Sound, Gone, NoTables, IsMem, Tables
    <2> QED
      BY <1>1, <1>17, <2>1 DEF Gone
  <1>20. Keeps(m, n)
    BY <1>1, <1>17 DEF Keeps
  <1>21. \A q \in Proc : q # p => n.pdt[q] = m.pdt[q]
    BY <1>1 DEF Sound, IsMem, Tables
  <1> QED
    BY <1>1, <1>3, <1>12, <1>13, <1>14, <1>16, <1>18, <1>19, <1>20, <1>21, <1>22 DEF n, Sound, IsMem

\* A reference less to a PCB there is.
LEMMA DropPcbCounts ==
    ASSUME NEW m, Sound(m), NEW p \in Proc, m.pcb[p] >= 1,
           \A q \in Proc : FutGap(m, q) >= 0, \A o \in Objects : ObjGap(m, o) >= 0
    PROVE  LET n == DropPcb(m, p)
           IN  /\ Sound(n) /\ Keeps(m, n) /\ Fewer(m, n)
               /\ n.pcb = [m.pcb EXCEPT ![p] = @ - 1]
               /\ \A q \in Proc : n.pcb[q] >= 1 => n.pdt[q] = m.pdt[q]
               /\ \A q \in Proc : FutGap(n, q) = FutGap(m, q)
               /\ \A o \in Objects : ObjGap(n, o) = ObjGap(m, o)
               /\ FsGap(n) = FsGap(m)
  <1> DEFINE n == DropPcb(m, p)
  <1>1. m.pcb \in [Proc -> Nat]
    BY DEF Sound, IsMem, Counters
  <1>2. CASE m.pcb[p] = 1
    <2>1. /\ Sound(n) /\ Keeps(m, n) /\ Fewer(m, n)
          /\ n.pcb = [m.pcb EXCEPT ![p] = @ - 1]
          /\ \A q \in Proc : q # p => n.pdt[q] = m.pdt[q]
          /\ \A q \in Proc : FutGap(n, q) = FutGap(m, q)
          /\ \A o \in Objects : ObjGap(n, o) = ObjGap(m, o)
          /\ FsGap(n) = FsGap(m)
      BY <1>2, DestroyCounts
    <2> HIDE DEF n
    <2>2. n.pcb[p] = 0
      BY <1>1, <1>2, <2>1
    <2> QED
      BY <2>1, <2>2 DEF n
  <1>3. CASE m.pcb[p] # 1
    <2>1. /\ DOMAIN n = Fields /\ SameTables(m, n)
          /\ n.pcb = [m.pcb EXCEPT ![p] = @ - 1]
          /\ n.fut = m.fut /\ n.obj = m.obj /\ n.fs = m.fs /\ n.exited = m.exited
      BY <1>3 DEF DropPcb, Sound, IsMem, Fields, SameTables
    <2> HIDE DEF n
    <2>2. /\ n.pcb \in [Proc -> Nat]
          /\ \A q \in Proc : /\ n.pcb[q] > 0 <=> m.pcb[q] > 0
                             /\ n.pcb[q] = 0 <=> m.pcb[q] = 0
      BY <1>1, <1>3, <2>1
    <2>3. Sound(n) /\ Keeps(m, n) /\ Fewer(m, n)
      BY <2>1, <2>2 DEF Sound, IsMem, Tables, Counters, Futures, Gone, NoTables, SameTables, Keeps, Fewer
    <2>4. FsGap(n) = FsGap(m)
      BY <1>1, <2>1, <2>2, SameAlive
    <2>5. \A q \in Proc : FutGap(n, q) = FutGap(m, q)
      BY <2>1, <2>2 DEF FutGap, SameTables
    <2>6. \A o \in Objects : ObjGap(n, o) = ObjGap(m, o)
      BY <2>1 DEF ObjGap, SameTables
    <2> QED
      BY <2>1, <2>3, <2>4, <2>5, <2>6 DEF n, SameTables
  <1> QED
    BY <1>2, <1>3

\* fork's copy: a process nobody refers to gets the files and semaphores of another.
LEMMA CloneCounts ==
    ASSUME NEW m, Sound(m), NEW p \in Proc, NEW c \in Proc, m.pcb[c] = 0, m.fut[c] = 0
    PROVE  LET n == Clone(m, p, c)
           IN  /\ Sound(n) /\ n.pdt = m.pdt /\ n.exited = m.exited
               /\ n.pcb = [m.pcb EXCEPT ![c] = 1]
               /\ \A q \in Proc : FutGap(n, q) = FutGap(m, q)
               /\ \A o \in Objects : ObjGap(n, o) = ObjGap(m, o)
               /\ FsGap(n) = FsGap(m)
  <1> DEFINE n == Clone(m, p, c)
             obj == [o \in Objects |-> m.obj[o] + Uses(m.fdt[p], o) + Uses(m.sdt[p], o)]
  <1>1. /\ DOMAIN n = Fields
        /\ n.fdt = [m.fdt EXCEPT ![c] = m.fdt[p]]
        /\ n.sdt = [m.sdt EXCEPT ![c] = m.sdt[p]]
        /\ n.pdt = [m.pdt EXCEPT ![c] = NoPds]
        /\ n.pcb = [m.pcb EXCEPT ![c] = 1]
        /\ n.fut = [m.fut EXCEPT ![c] = 1]
        /\ n.obj = obj /\ n.fs = m.fs + 1 /\ n.exited = m.exited
    BY DEF Clone, Sound, IsMem, Fields, Objects
  <1> HIDE DEF n
  <1>2. NoTables(m, c)
    BY DEF Sound, Gone
  <1>3. n.pdt = m.pdt
    BY <1>1, <1>2 DEF NoTables, Sound, IsMem, Tables
  <1>4. Tables(n)
    BY <1>1, <1>3 DEF Sound, IsMem, Tables
  <1>5. ASSUME NEW o \in Objects
        PROVE  /\ Slots(n.fdt, FdSlot, o) = Slots(m.fdt, FdSlot, o) + Uses(m.fdt[p], o)
               /\ Slots(m.fdt, FdSlot, o) \in Nat
               /\ Uses(m.fdt[p], o) \in Nat
    <2>1. /\ DOMAIN m.fdt = Proc /\ DOMAIN m.fdt[p] = FdSlot /\ DOMAIN m.fdt[c] = FdSlot
          /\ m.fdt[c] = NoFds
      BY <1>2 DEF Sound, IsMem, Tables, NoTables
    <2> DEFINE row == m.fdt[p]
    <2>2. Uses(row, o) \in Nat /\ DOMAIN row = FdSlot
      BY <2>1, UsesNat, Constants
    <2> HIDE DEF row
    <2>3. /\ Slots([m.fdt EXCEPT ![c] = row], FdSlot, o)
             = Slots(m.fdt, FdSlot, o) - Uses(m.fdt[c], o) + Uses(row, o)
          /\ Slots(m.fdt, FdSlot, o) \in Nat
      BY <2>1, <2>2, SlotsRow, Constants
    <2> QED
      BY <1>1, <2>1, <2>2, <2>3, NoneUsed DEF row
  <1>6. ASSUME NEW o \in Objects
        PROVE  /\ Slots(n.sdt, SdSlot, o) = Slots(m.sdt, SdSlot, o) + Uses(m.sdt[p], o)
               /\ Slots(m.sdt, SdSlot, o) \in Nat
               /\ Uses(m.sdt[p], o) \in Nat
    <2>1. /\ DOMAIN m.sdt = Proc /\ DOMAIN m.sdt[p] = SdSlot /\ DOMAIN m.sdt[c] = SdSlot
          /\ m.sdt[c] = NoSds
      BY <1>2 DEF Sound, IsMem, Tables, NoTables
    <2> DEFINE row == m.sdt[p]
    <2>2. Uses(row, o) \in Nat /\ DOMAIN row = SdSlot
      BY <2>1, UsesNat, Constants
    <2> HIDE DEF row
    <2>3. /\ Slots([m.sdt EXCEPT ![c] = row], SdSlot, o)
             = Slots(m.sdt, SdSlot, o) - Uses(m.sdt[c], o) + Uses(row, o)
          /\ Slots(m.sdt, SdSlot, o) \in Nat
      BY <2>1, <2>2, SlotsRow, Constants
    <2> QED
      BY <1>1, <2>1, <2>2, <2>3, NoneUsed DEF row
  <1>7. /\ m.pcb \in [Proc -> Nat] /\ m.fut \in [Proc -> Nat] /\ m.obj \in [Objects -> Nat]
        /\ m.fs \in Int
    BY DEF Sound, IsMem, Counters
  <1>8. \A q \in Proc : FutGap(n, q) = FutGap(m, q)
    <2> TAKE q \in Proc
    <2>1. /\ n.fut[q] = m.fut[q] + IF q = c THEN 1 ELSE 0
          /\ n.pcb[q] = m.pcb[q] + IF q = c THEN 1 ELSE 0
      BY <1>1, <1>7
    <2>2. Slots(m.pdt, PdSlot, q) \in Nat
      BY Numbers DEF Sound
    <2> QED
      BY <1>3, <1>7, <2>1, <2>2 DEF FutGap
  <1>9. \A o \in Objects : ObjGap(n, o) = ObjGap(m, o)
    <2> TAKE o \in Objects
    <2>1. n.obj[o] = m.obj[o] + Uses(m.fdt[p], o) + Uses(m.sdt[p], o)
      BY <1>1
    <2> QED
      BY <1>5, <1>6, <1>7, <2>1 DEF ObjGap
  <1>10. FsGap(n) = FsGap(m)
    <2> DEFINE S == {q \in Proc : m.pcb[q] > 0}
               T == {q \in Proc : n.pcb[q] > 0}
    <2>1. IsFiniteSet(S) /\ T \ {c} = S \ {c} /\ c \notin S /\ c \in T
      BY <1>1, <1>7, CountNat, Constants
    <2> HIDE DEF S, T
    <2>2. Cardinality(T) = Cardinality(S) + 1 /\ Cardinality(S) \in Nat
      BY <2>1, CountChange
    <2> QED
      BY <1>1, <1>7, <2>2 DEF FsGap, S, T
  <1>11. Counters(n)
    <2>1. \A o \in Objects : obj[o] \in Nat
      BY <1>5, <1>6, <1>7
    <2>2. obj \in [Objects -> Nat]
      BY <2>1
    <2> QED
      BY <1>1, <1>7, <2>2 DEF Counters
  <1>12. Futures(n) /\ Gone(n)
    BY <1>1, <1>3, <1>7 DEF Sound, IsMem, Futures, Gone, NoTables, Tables
  <1> QED
    BY <1>1, <1>3, <1>4, <1>8, <1>9, <1>10, <1>11, <1>12 DEF n, Sound, IsMem

\* A slot for an open file is given another content, and nothing counted is changed yet.
LEMMA PutFd ==
    ASSUME NEW m, Sound(m), NEW p \in Proc, m.pcb[p] >= 1, NEW i \in FdSlot,
           NEW v \in Files \cup {Empty}, NEW n, DOMAIN n = Fields,
           n.fdt = [m.fdt EXCEPT ![p][i] = v], n.pdt = m.pdt, n.sdt = m.sdt,
           n.pcb = m.pcb, n.fut = m.fut, n.obj = m.obj, n.fs = m.fs, n.exited = m.exited
    PROVE  /\ Sound(n) /\ FsGap(n) = FsGap(m)
           /\ \A q \in Proc : FutGap(n, q) = FutGap(m, q)
           /\ \A o \in Objects : ObjGap(n, o) = ObjGap(m, o) + (IF m.fdt[p][i] = o THEN 1 ELSE 0)
                                                          - (IF v = o THEN 1 ELSE 0)
  <1>1. Sound(n)
    BY DEF Sound, IsMem, Tables, Counters, Futures, Gone, NoTables
  <1>2. FsGap(n) = FsGap(m)
    BY DEF FsGap
  <1>3. ASSUME NEW x
        PROVE  /\ Slots(n.fdt, FdSlot, x) = Slots(m.fdt, FdSlot, x) - (IF m.fdt[p][i] = x THEN 1 ELSE 0)
                                                             + (IF v = x THEN 1 ELSE 0)
               /\ Slots(m.fdt, FdSlot, x) \in Nat
    <2>0. p \in Proc /\ i \in FdSlot
      OBVIOUS
    <2> DEFINE old == m.fdt
               new == n.fdt
    <2>1. /\ DOMAIN old = Proc /\ DOMAIN old[p] = FdSlot /\ DOMAIN new = Proc /\ DOMAIN new[p] = FdSlot
          /\ \A q \in Proc : q # p => new[q] = old[q]
          /\ \A j \in FdSlot : j # i => new[p][j] = old[p][j]
          /\ new[p][i] = v
      BY DEF Sound, IsMem, Tables
    <2> HIDE DEF old, new
    <2>2. /\ Slots(new, FdSlot, x) = Slots(old, FdSlot, x) - (IF old[p][i] = x THEN 1 ELSE 0)
                                                    + (IF v = x THEN 1 ELSE 0)
          /\ Slots(old, FdSlot, x) \in Nat
      BY ONLY <2>0, <2>1, SlotsPut, Constants
    <2> QED
      BY <2>2 DEF old, new
  <1>4. ASSUME NEW o \in Objects
        PROVE  ObjGap(n, o) = ObjGap(m, o) + (IF m.fdt[p][i] = o THEN 1 ELSE 0)
                                           - (IF v = o THEN 1 ELSE 0)
    <2>1. m.obj[o] \in Nat /\ Slots(m.sdt, SdSlot, o) \in Nat
      BY Numbers DEF Sound
    <2> QED
      BY <1>3, <2>1 DEF ObjGap
  <1>5. \A q \in Proc : FutGap(n, q) = FutGap(m, q)
    BY DEF FutGap
  <1> QED
    BY <1>1, <1>2, <1>4, <1>5

\* A slot for a semaphore is given another content, and nothing counted is changed yet.
LEMMA PutSd ==
    ASSUME NEW m, Sound(m), NEW p \in Proc, m.pcb[p] >= 1, NEW i \in SdSlot,
           NEW v \in Sems \cup {Empty}, NEW n, DOMAIN n = Fields,
           n.sdt = [m.sdt EXCEPT ![p][i] = v], n.fdt = m.fdt, n.pdt = m.pdt,
           n.pcb = m.pcb, n.fut = m.fut, n.obj = m.obj, n.fs = m.fs, n.exited = m.exited
    PROVE  /\ Sound(n) /\ FsGap(n) = FsGap(m)
           /\ \A q \in Proc : FutGap(n, q) = FutGap(m, q)
           /\ \A o \in Objects : ObjGap(n, o) = ObjGap(m, o) + (IF m.sdt[p][i] = o THEN 1 ELSE 0)
                                                          - (IF v = o THEN 1 ELSE 0)
  <1>1. Sound(n)
    BY DEF Sound, IsMem, Tables, Counters, Futures, Gone, NoTables
  <1>2. FsGap(n) = FsGap(m)
    BY DEF FsGap
  <1>3. ASSUME NEW x
        PROVE  /\ Slots(n.sdt, SdSlot, x) = Slots(m.sdt, SdSlot, x) - (IF m.sdt[p][i] = x THEN 1 ELSE 0)
                                                             + (IF v = x THEN 1 ELSE 0)
               /\ Slots(m.sdt, SdSlot, x) \in Nat
    <2>0. p \in Proc /\ i \in SdSlot
      OBVIOUS
    <2> DEFINE old == m.sdt
               new == n.sdt
    <2>1. /\ DOMAIN old = Proc /\ DOMAIN old[p] = SdSlot /\ DOMAIN new = Proc /\ DOMAIN new[p] = SdSlot
          /\ \A q \in Proc : q # p => new[q] = old[q]
          /\ \A j \in SdSlot : j # i => new[p][j] = old[p][j]
          /\ new[p][i] = v
      BY DEF Sound, IsMem, Tables
    <2> HIDE DEF old, new
    <2>2. /\ Slots(new, SdSlot, x) = Slots(old, SdSlot, x) - (IF old[p][i] = x THEN 1 ELSE 0)
                                                    + (IF v = x THEN 1 ELSE 0)
          /\ Slots(old, SdSlot, x) \in Nat
      BY ONLY <2>0, <2>1, SlotsPut, Constants
    <2> QED
      BY <2>2 DEF old, new
  <1>4. ASSUME NEW o \in Objects
        PROVE  ObjGap(n, o) = ObjGap(m, o) + (IF m.sdt[p][i] = o THEN 1 ELSE 0)
                                           - (IF v = o THEN 1 ELSE 0)
    <2>1. m.obj[o] \in Nat /\ Slots(m.fdt, FdSlot, o) \in Nat
      BY Numbers DEF Sound
    <2> QED
      BY <1>3, <2>1 DEF ObjGap
  <1>5. \A q \in Proc : FutGap(n, q) = FutGap(m, q)
    BY DEF FutGap
  <1> QED
    BY <1>1, <1>2, <1>4, <1>5

\* A slot for a child is given another content, and nothing counted is changed yet.
LEMMA PutPd ==
    ASSUME NEW m, Sound(m), NEW p \in Proc, m.pcb[p] >= 1, NEW i \in PdSlot,
           NEW v \in Proc \cup {Empty}, NEW n, DOMAIN n = Fields,
           n.pdt = [m.pdt EXCEPT ![p][i] = v], n.fdt = m.fdt, n.sdt = m.sdt,
           n.pcb = m.pcb, n.fut = m.fut, n.obj = m.obj, n.fs = m.fs, n.exited = m.exited
    PROVE  /\ Sound(n) /\ FsGap(n) = FsGap(m)
           /\ \A q \in Proc : FutGap(n, q) = FutGap(m, q) + (IF m.pdt[p][i] = q THEN 1 ELSE 0)
                                                       - (IF v = q THEN 1 ELSE 0)
           /\ \A o \in Objects : ObjGap(n, o) = ObjGap(m, o)
  <1>1. Sound(n)
    BY DEF Sound, IsMem, Tables, Counters, Futures, Gone, NoTables
  <1>2. FsGap(n) = FsGap(m)
    BY DEF FsGap
  <1>3. ASSUME NEW x
        PROVE  /\ Slots(n.pdt, PdSlot, x) = Slots(m.pdt, PdSlot, x) - (IF m.pdt[p][i] = x THEN 1 ELSE 0)
                                                             + (IF v = x THEN 1 ELSE 0)
               /\ Slots(m.pdt, PdSlot, x) \in Nat
    <2>0. p \in Proc /\ i \in PdSlot
      OBVIOUS
    <2> DEFINE old == m.pdt
               new == n.pdt
    <2>1. /\ DOMAIN old = Proc /\ DOMAIN old[p] = PdSlot /\ DOMAIN new = Proc /\ DOMAIN new[p] = PdSlot
          /\ \A q \in Proc : q # p => new[q] = old[q]
          /\ \A j \in PdSlot : j # i => new[p][j] = old[p][j]
          /\ new[p][i] = v
      BY DEF Sound, IsMem, Tables
    <2> HIDE DEF old, new
    <2>2. /\ Slots(new, PdSlot, x) = Slots(old, PdSlot, x) - (IF old[p][i] = x THEN 1 ELSE 0)
                                                    + (IF v = x THEN 1 ELSE 0)
          /\ Slots(old, PdSlot, x) \in Nat
      BY ONLY <2>0, <2>1, SlotsPut, Constants
    <2> QED
      BY <2>2 DEF old, new
  <1>4. ASSUME NEW q \in Proc
        PROVE  FutGap(n, q) = FutGap(m, q) + (IF m.pdt[p][i] = q THEN 1 ELSE 0)
                                           - (IF v = q THEN 1 ELSE 0)
    <2>1. m.fut[q] \in Nat
      BY Numbers DEF Sound
    <2> QED
      BY <1>3, <2>1 DEF FutGap
  <1>5. \A o \in Objects : ObjGap(n, o) = ObjGap(m, o)
    BY DEF ObjGap
  <1> QED
    BY <1>1, <1>2, <1>4, <1>5

\* An exit status that somebody refers to changes, or what is not counted at all.
LEMMA PutStatus ==
    ASSUME NEW m, Sound(m), NEW n, DOMAIN n = Fields, SameTables(m, n), n.pcb = m.pcb,
           n.fut = m.fut, n.obj = m.obj, n.fs = m.fs, Futures(n),
           \A q \in Proc : n.exited[q] = m.exited[q] \/ m.fut[q] >= 1
    PROVE  /\ Sound(n) /\ FsGap(n) = FsGap(m)
           /\ \A q \in Proc : FutGap(n, q) = FutGap(m, q)
           /\ \A o \in Objects : ObjGap(n, o) = ObjGap(m, o)
  <1>1. Sound(n)
    BY DEF Sound, IsMem, Tables, Counters, Gone, NoTables, SameTables
  <1>2. FsGap(n) = FsGap(m)
    BY DEF FsGap
  <1>3. /\ \A q \in Proc : FutGap(n, q) = FutGap(m, q)
        /\ \A o \in Objects : ObjGap(n, o) = ObjGap(m, o)
    BY DEF FutGap, ObjGap, SameTables
  <1> QED
    BY <1>1, <1>2, <1>3

\* A reference more to an exit status.
LEMMA ReferFuture ==
    ASSUME NEW m, Sound(m), NEW c \in Proc, NEW n, DOMAIN n = Fields, SameTables(m, n),
           n.pcb = m.pcb, n.fut \in [Proc -> Nat],
           \A q \in Proc : n.fut[q] = m.fut[q] + (IF q = c THEN 1 ELSE 0),
           n.obj = m.obj, n.fs = m.fs, n.exited = m.exited
    PROVE  /\ Sound(n) /\ FsGap(n) = FsGap(m)
           /\ \A q \in Proc : FutGap(n, q) = FutGap(m, q) + IF q = c THEN 1 ELSE 0
           /\ \A o \in Objects : ObjGap(n, o) = ObjGap(m, o)
  <1>1. /\ m.fut \in [Proc -> Nat] /\ n.fut \in [Proc -> Nat]
        /\ \A q \in Proc : n.fut[q] = m.fut[q] + IF q = c THEN 1 ELSE 0
    BY DEF Sound, IsMem, Counters
  <1>2. Sound(n)
    <2>1. IsMem(n)
      BY <1>1 DEF Sound, IsMem, Tables, Counters, Futures, SameTables
    <2>2. \A q \in Proc : n.fut[q] = 0 => m.fut[q] = 0
      BY <1>1
    <2>3. Gone(n)
      BY <2>2 DEF Sound, Gone, NoTables, SameTables
    <2> QED
      BY <2>1, <2>3 DEF Sound
  <1>3. \A q \in Proc : FutGap(n, q) = FutGap(m, q) + IF q = c THEN 1 ELSE 0
    <2> TAKE q \in Proc
    <2>1. m.pcb[q] \in Nat /\ Slots(m.pdt, PdSlot, q) \in Nat
      BY Numbers DEF Sound
    <2> QED
      BY <1>1, <2>1 DEF FutGap, SameTables
  <1> QED
    BY <1>2, <1>3 DEF FsGap, ObjGap, SameTables

\* A reference more, or less, to the file system.
LEMMA PutFs ==
    ASSUME NEW m, Sound(m), NEW n, DOMAIN n = Fields, SameTables(m, n), n.pcb = m.pcb,
           n.fut = m.fut, n.obj = m.obj, n.fs \in Int, n.exited = m.exited
    PROVE  /\ Sound(n) /\ FsGap(n) = FsGap(m) + n.fs - m.fs
           /\ \A q \in Proc : FutGap(n, q) = FutGap(m, q)
           /\ \A o \in Objects : ObjGap(n, o) = ObjGap(m, o)
  <1>1. Sound(n)
    BY DEF Sound, IsMem, Tables, Counters, Futures, Gone, NoTables, SameTables
  <1>2. FsGap(n) = FsGap(m) + n.fs - m.fs
    <2>1. m.fs \in Int /\ Cardinality({q \in Proc : m.pcb[q] > 0}) \in Nat
      BY Numbers DEF Sound
    <2> QED
      BY <2>1 DEF FsGap
  <1>3. /\ \A q \in Proc : FutGap(n, q) = FutGap(m, q)
        /\ \A o \in Objects : ObjGap(n, o) = ObjGap(m, o)
    BY DEF FutGap, ObjGap, SameTables
  <1> QED
    BY <1>1, <1>2, <1>3

\* execl lets all semaphores of a process go.
LEMMA SemsGone ==
    ASSUME NEW m, Sound(m), NEW p \in Proc, m.pcb[p] >= 1, \A o \in Objects : ObjGap(m, o) >= 0
    PROVE  LET n == [Collect(m, m.fut, [o \in Files \cup Sems |-> m.obj[o] - Uses(m.sdt[p], o)])
                     EXCEPT !.sdt[p] = NoSds]
           IN  /\ Sound(n) /\ Keeps(m, n) /\ n.pcb = m.pcb /\ n.pdt = m.pdt /\ n.fs = m.fs
               /\ \A q \in Proc : FutGap(n, q) = FutGap(m, q)
               /\ \A o \in Objects : ObjGap(n, o) = ObjGap(m, o)
               /\ FsGap(n) = FsGap(m)
  <1> DEFINE obj == [o \in Files \cup Sems |-> m.obj[o] - Uses(m.sdt[p], o)]
             c == Collect(m, m.fut, obj)
             n == [c EXCEPT !.sdt[p] = NoSds]
  <1>1. /\ m.pcb \in [Proc -> Nat] /\ m.fut \in [Proc -> Nat] /\ m.obj \in [Objects -> Nat]
        /\ m.fs \in Int
    BY DEF Sound, IsMem, Counters
  <1>2. /\ DOMAIN m.sdt = Proc /\ DOMAIN m.sdt[p] = SdSlot /\ DOMAIN NoSds = SdSlot
        /\ NoSds \in [SdSlot -> Sems \cup {Empty}]
    BY DEF Sound, IsMem, Tables, NoSds
  <1>3. ASSUME NEW o \in Objects
        PROVE  /\ Slots([m.sdt EXCEPT ![p] = NoSds], SdSlot, o)
                  = Slots(m.sdt, SdSlot, o) - Uses(m.sdt[p], o)
               /\ Slots(m.sdt, SdSlot, o) >= Uses(m.sdt[p], o)
               /\ Slots(m.sdt, SdSlot, o) \in Nat /\ Slots(m.fdt, FdSlot, o) \in Nat
               /\ Uses(m.sdt[p], o) \in Nat
    <2>1. Uses(m.sdt[p], o) \in Nat /\ Slots(m.fdt, FdSlot, o) \in Nat
      BY <1>2, UsesNat, Constants, Numbers DEF Sound
    <2> QED
      BY <1>2, <2>1, SlotsRow, Constants, NoneUsed
  <1>4. obj \in [Objects -> Nat]
    <2>1. \A o \in Objects : obj[o] \in Nat
      BY <1>1, <1>3 DEF ObjGap, Objects
    <2> QED
      BY <2>1 DEF Objects
  <1>5. \A o \in Objects : obj[o] = m.obj[o] - Uses(m.sdt[p], o)
    BY DEF Objects
  <1> HIDE DEF obj
  <1>6. /\ Sound(c) /\ SameTables(m, c) /\ Keeps(m, c)
        /\ c.pcb = m.pcb /\ c.fut = m.fut /\ c.obj = obj /\ c.fs = m.fs
    BY <1>1, <1>4, CollectCounts
  <1> HIDE DEF c
  <1>7. /\ DOMAIN n = Fields /\ n.fdt = m.fdt /\ n.pdt = m.pdt
        /\ n.sdt = [m.sdt EXCEPT ![p] = NoSds]
        /\ n.pcb = m.pcb /\ n.fut = m.fut /\ n.obj = obj /\ n.fs = m.fs
        /\ n.exited = c.exited
    BY <1>6 DEF Sound, IsMem, Fields, SameTables
  <1> HIDE DEF n
  <1>8. Sound(n) /\ Keeps(m, n)
    BY <1>1, <1>2, <1>4, <1>6, <1>7
       DEF Sound, IsMem, Tables, Counters, Futures, Gone, NoTables, Keeps
  <1>9. \A o \in Objects : ObjGap(n, o) = ObjGap(m, o)
    BY <1>1, <1>3, <1>5, <1>7 DEF ObjGap
  <1>10. FsGap(n) = FsGap(m) /\ \A q \in Proc : FutGap(n, q) = FutGap(m, q)
    BY <1>7 DEF FsGap, FutGap
  <1> QED
    BY <1>7, <1>8, <1>9, <1>10 DEF n, c, obj

-----------------------------------------------------------------------------
(* The threads and the memory.                                              *)

\* What one thread's change does to who is about to hand a child its process.
LEMMA ForkingChange ==
    ASSUME NEW f, NEW g, NEW p \in Proc, \A q \in Proc : q # p => g[q] = f[q], NEW o
    PROVE  Cardinality(Forking(g, o)) = Cardinality(Forking(f, o)) - Bears(f[p], o) + Bears(g[p], o)
  <1>1. IsFiniteSet(Forking(f, o)) /\ Forking(g, o) \ {p} = Forking(f, o) \ {p}
    BY CountNat, Constants DEF Forking
  <1>2. /\ p \in Forking(f, o) <=> f[p].pc = "fork" /\ f[p].obj = o
        /\ p \in Forking(g, o) <=> g[p].pc = "fork" /\ g[p].obj = o
    BY DEF Forking
  <1> QED
    BY <1>1, <1>2, CountChange DEF Bears

\* What one thread's change does to who has an object in hand.
LEMMA InHandsChange ==
    ASSUME NEW f, NEW g, NEW p \in Proc, \A q \in Proc : q # p => g[q] = f[q], NEW o
    PROVE  Cardinality(InHands(g, o)) = Cardinality(InHands(f, o)) - Hands(f[p], o) + Hands(g[p], o)
  <1>1. IsFiniteSet(InHands(f, o)) /\ InHands(g, o) \ {p} = InHands(f, o) \ {p}
    BY CountNat, Constants DEF InHands
  <1>2. /\ p \in InHands(f, o) <=> f[p].pc \in {"down", "read", "add"} /\ f[p].obj = o
        /\ p \in InHands(g, o) <=> g[p].pc \in {"down", "read", "add"} /\ g[p].obj = o
    BY DEF InHands
  <1> QED
    BY <1>1, <1>2, CountChange DEF Hands

\* What one thread's change does to who has the permit of a status.
LEMMA AskingChange ==
    ASSUME NEW f, NEW g, NEW p \in Proc, \A q \in Proc : q # p => g[q] = f[q], NEW o
    PROVE  Cardinality(Asking(g, o)) = Cardinality(Asking(f, o)) - Asks(f[p], o) + Asks(g[p], o)
  <1>1. IsFiniteSet(Asking(f, o)) /\ Asking(g, o) \ {p} = Asking(f, o) \ {p}
    BY CountNat, Constants DEF Asking
  <1>2. /\ p \in Asking(f, o) <=> f[p].pc = "got" /\ f[p].obj = o
        /\ p \in Asking(g, o) <=> g[p].pc = "got" /\ g[p].obj = o
    BY DEF Asking
  <1> QED
    BY <1>1, <1>2, CountChange DEF Asks

\* What is counted of the threads is numbers.
LEMMA ThreadNumbers ==
    ASSUME NEW f, NEW o
    PROVE  /\ Cardinality(Forking(f, o)) \in Nat
           /\ Cardinality(InHands(f, o)) \in Nat
           /\ Cardinality(Asking(f, o)) \in Nat
           /\ \A q \in Forking(f, o) : Cardinality(Forking(f, o)) >= 1
           /\ \A q \in InHands(f, o) : Cardinality(InHands(f, o)) >= 1
           /\ Cardinality(Asking(f, o)) = 0 <=> Asking(f, o) = {}
  <1>1. /\ Forking(f, o) \in SUBSET Proc /\ InHands(f, o) \in SUBSET Proc
        /\ Asking(f, o) \in SUBSET Proc
    BY DEF Forking, InHands, Asking
  <1>2. IsFiniteSet(Asking(f, o))
    BY <1>1, CountNat, Constants
  <1> QED
    BY <1>1, <1>2, CountNat, Constants, FS_EmptySet

\* What a thread weighs and has in hand at each stage.
LEMMA StageCounts ==
    ASSUME NEW t, IsThread(t)
    PROVE  /\ Weighs(t) \in Nat /\ \A x : Bears(t, x) \in Nat /\ Hands(t, x) \in Nat
           /\ t.pc # "none" => Weighs(t) = t.refs + 1
           /\ t.pc = "none" => Weighs(t) = t.refs
           /\ t.pc # "fork" => \A x : Bears(t, x) = 0
           /\ t.pc \notin {"down", "read", "add"} => \A x : Hands(t, x) = 0
  BY DEF IsThread, Weighs, Bears, Hands

\* The threads that the steps of the model make.
LEMMA Threaded ==
    /\ User.pc = "user" /\ IsThread(User)
    /\ None.pc = "none" /\ None.refs = 0 /\ IsThread(None)
    /\ \A pc, slot, obj, val, refs :
           LET t == Thread(pc, slot, obj, val, refs)
           IN  /\ DOMAIN t = {"pc", "slot", "obj", "val", "refs"}
               /\ t.pc = pc /\ t.slot = slot /\ t.obj = obj /\ t.val = val /\ t.refs = refs
  BY DEF User, None, Thread, IsThread, Stages, Calling

\* A process with a thread has a PCB and an exit status.
LEMMA Alive ==
    ASSUME NEW f, NEW b, NEW m, Threads(f), Sound(m), Counted(f, b, m), NEW p \in Proc,
           f[p].pc # "none"
    PROVE  m.pcb[p] >= 1 + f[p].refs /\ m.fut[p] >= 1
  <1>1. /\ Cardinality(Forking(f, p)) \in Nat /\ f[p].refs \in Nat
    BY ThreadNumbers DEF Threads, IsThread
  <1>2. m.pcb[p] \in Nat /\ m.fut[p] \in Nat /\ Slots(m.pdt, PdSlot, p) \in Nat
    BY Numbers DEF Sound
  <1>3. m.pcb[p] >= 1 + f[p].refs
    BY <1>1, <1>2 DEF Counted, Owed, Num, Weighs
  <1> QED
    BY <1>1, <1>2, <1>3 DEF Counted, FutGap

\* A status somebody waits for is there.
LEMMA Awaited ==
    ASSUME NEW f, NEW b, NEW m, Threads(f), Sound(m), Counted(f, b, m), Slotted(f, m),
           NEW p \in Proc, f[p].pc \in {"wait", "got", "waited"}
    PROVE  f[p].obj \in Proc /\ m.fut[f[p].obj] >= 1 /\ Slots(m.pdt, PdSlot, f[p].obj) >= 1
  <1>1. /\ f[p].obj \in Proc /\ f[p].slot \in PdSlot
        /\ m.pdt[p][f[p].slot] = f[p].obj
    BY DEF Threads, IsThread, Slotted
  <1> DEFINE c == f[p].obj
             t == m.pdt
  <1>2. DOMAIN t = Proc /\ DOMAIN t[p] = PdSlot
    BY DEF Sound, IsMem, Tables
  <1>3. /\ t[p][f[p].slot] = c /\ f[p].slot \in PdSlot
    BY <1>1
  <1> HIDE DEF t, c
  <1>4. Slots(t, PdSlot, c) >= 1 /\ Slots(t, PdSlot, c) \in Nat
    BY <1>2, <1>3, SlotsPut, Constants
  <1>5. m.fut[c] \in Nat /\ m.pcb[c] \in Nat /\ FutGap(m, c) = 0
    BY <1>1, Numbers DEF Sound, Counted, c
  <1> QED
    BY <1>1, <1>4, <1>5 DEF FutGap, c, t

\* A step of process p keeps the counts when memory changes by what the thread gains and loses.
LEMMA StepCounts ==
    ASSUME NEW f, NEW b, NEW m, State(f, b, m), NEW p \in Proc,
           NEW g, DOMAIN g = Proc, IsThread(g[p]), \A q \in Proc : q # p => g[q] = f[q],
           NEW n, Sound(n),
           \A q \in Proc :
               n.pcb[q] = m.pcb[q] + (IF q = p THEN Weighs(g[p]) - Weighs(f[p]) ELSE 0)
                                   + Bears(g[p], q) - Bears(f[p], q),
           \A q \in Proc : FutGap(n, q) = 0,
           \A o \in Objects :
               ObjGap(n, o) = ObjGap(m, o) + Hands(g[p], o) - Hands(f[p], o),
           FsGap(n) >= FsGap(m)
    PROVE  Threads(g) /\ Counted(g, b, n)
  <1>1. Threads(g)
    BY DEF Threads, State
  <1>2. \A q \in Proc : g[q].refs \in Nat /\ f[q].refs \in Nat
    BY <1>1 DEF Threads, IsThread, State
  <1>0. p \in Proc /\ \A q \in Proc : q # p => g[q] = f[q]
    OBVIOUS
  <1>3. \A q \in Proc : n.pcb[q] = Owed(g, b, q)
    <2> TAKE q \in Proc
    <2>1. Cardinality(Forking(g, q)) = Cardinality(Forking(f, q))
              - Bears(f[p], q) + Bears(g[p], q)
      BY ONLY <1>0, ForkingChange
    <2>2. m.pcb[q] = Weighs(f[q]) + Num(b /\ q = First) + Cardinality(Forking(f, q))
      BY DEF State, Counted, Owed
    <2>3. /\ Cardinality(Forking(f, q)) \in Nat /\ Cardinality(Forking(g, q)) \in Nat
      BY ThreadNumbers
    <2> DEFINE N1 == Cardinality(Forking(f, q))
               N2 == Cardinality(Forking(g, q))
    <2>4. /\ Weighs(f[q]) \in Nat /\ Weighs(g[q]) \in Nat /\ Num(b /\ q = First) \in Nat
          /\ Bears(f[p], q) \in Nat /\ Bears(g[p], q) \in Nat
      BY <1>2 DEF Num, Bears, Weighs
    <2>5. CASE q = p
      BY <1>2, <2>1, <2>2, <2>3, <2>4, <2>5 DEF Owed
    <2>6. CASE q # p
      BY <1>2, <2>1, <2>2, <2>3, <2>4, <2>6 DEF Owed
    <2> QED
      BY <2>5, <2>6
  <1>4. \A o \in Objects : ObjGap(n, o) = Cardinality(InHands(g, o))
    <2> TAKE o \in Objects
    <2>1. Cardinality(InHands(g, o)) = Cardinality(InHands(f, o))
                  - Hands(f[p], o)
                  + Hands(g[p], o)
      BY ONLY <1>0, InHandsChange
    <2>2. ObjGap(m, o) = Cardinality(InHands(f, o)) /\ ObjGap(m, o) \in Int
      BY Numbers DEF State, Counted, Sound
    <2>3. /\ Hands(f[p], o) \in Nat
          /\ Hands(g[p], o) \in Nat
      BY DEF Hands
    <2> QED
      BY <2>1, <2>2, <2>3
  <1>5. FsGap(n) >= Num(b)
    <2>1. FsGap(n) \in Int /\ FsGap(m) \in Int /\ FsGap(m) >= Num(b) /\ Num(b) \in Nat
      BY Numbers DEF State, Counted, Sound, Num
    <2> QED
      BY <2>1
  <1> QED
    BY <1>1, <1>3, <1>4, <1>5 DEF Counted

\* Who waits, or makes a child, keeps the slot it was given.
LEMMA StepSlots ==
    ASSUME NEW f, NEW b, NEW m, State(f, b, m), NEW p \in Proc,
           NEW g, \A q \in Proc : q # p => g[q] = f[q], NEW n,
           \A q \in Proc : q # p /\ f[q].pc # "none" => n.pdt[q] = m.pdt[q],
           g[p].pc = "fork" => n.pdt[p][g[p].slot] = Empty,
           g[p].pc \in {"wait", "got", "waited"} => n.pdt[p][g[p].slot] = g[p].obj
    PROVE  Slotted(g, n)
  BY DEF State, Slotted

\* A step that is none of those of the exit status keeps what it promises.
LEMMA StepAnswers ==
    ASSUME NEW f, NEW b, NEW m, State(f, b, m), NEW p \in Proc,
           NEW g, \A q \in Proc : q # p => g[q] = f[q],
           \/ g[p] = f[p]
           \/ /\ f[p].pc \notin {"got", "set"} /\ g[p].pc \notin {"got", "set", "waited"}
              /\ \/ f[p].pc \in {"none", "up", "stopped"} => g[p].pc \in {"none", "up", "stopped"}
                 \/ ~m.exited[p].set,
           NEW n, Sound(n), Threads(g), NEW a, Counted(g, a, n), Slotted(g, n), Keeps(m, n)
    PROVE  Answered(g, n)
  <1>1. \A c \in Proc : Asking(g, c) = Asking(f, c)
    BY DEF Asking
  <1>2. ASSUME NEW c \in Proc, n.exited[c] # m.exited[c]
        PROVE  /\ n.fut[c] = 0 /\ Unset(n.exited[c])
               /\ Asking(g, c) = {} /\ g[c].pc # "set"
               /\ \A q \in Proc : g[q].pc = "waited" => g[q].obj # c
    <2>1. n.fut[c] = 0 /\ Unset(n.exited[c])
      BY <1>2 DEF Keeps
    <2>2. \A q \in Proc : g[q].pc \in {"wait", "got", "waited"} => n.fut[g[q].obj] >= 1
      BY Awaited
    <2>3. g[c].pc # "none" => n.fut[c] >= 1
      BY Alive
    <2> QED
      BY <2>1, <2>2, <2>3 DEF Asking
  <1> SUFFICES ASSUME NEW c \in Proc
               PROVE  /\ n.exited[c].set => g[c].pc \in {"none", "set", "up", "stopped"}
                      /\ g[c].pc = "set" => n.exited[c].set
                      /\ IF n.exited[c].set /\ g[c].pc # "set"
                         THEN n.exited[c].permits + Cardinality(Asking(g, c)) = 1
                         ELSE n.exited[c].permits = 0 /\ Asking(g, c) = {}
                      /\ g[c].pc = "waited" => /\ n.exited[g[c].obj].set
                                               /\ g[c].val = n.exited[g[c].obj].value
    BY DEF Answered
  <1>3. /\ n.exited[c].set => g[c].pc \in {"none", "set", "up", "stopped"}
        /\ g[c].pc = "set" => n.exited[c].set
    BY <1>2 DEF State, Answered, Unset
  <1>4. IF n.exited[c].set /\ g[c].pc # "set"
        THEN n.exited[c].permits + Cardinality(Asking(g, c)) = 1
        ELSE n.exited[c].permits = 0 /\ Asking(g, c) = {}
    BY <1>1, <1>2 DEF State, Answered, Unset
  <1>5. g[c].pc = "waited" => /\ n.exited[g[c].obj].set
                              /\ g[c].val = n.exited[g[c].obj].value
    <2> HAVE g[c].pc = "waited"
    <2>1. g[c] = f[c] /\ f[c].obj \in Proc
      BY DEF State, Threads, IsThread
    <2>2. n.exited[f[c].obj] = m.exited[f[c].obj]
      BY <1>2, <2>1
    <2> QED
      BY <2>1, <2>2 DEF State, Answered
  <1> QED
    BY <1>3, <1>4, <1>5

\* The counts of a state are even, and numbers.
LEMMA StateNumbers ==
    ASSUME NEW f, NEW b, NEW m, State(f, b, m)
    PROVE  /\ Sound(m) /\ FsGap(m) \in Int
           /\ \A q \in Proc : FutGap(m, q) = 0 /\ m.pcb[q] \in Nat /\ m.fut[q] \in Nat
           /\ \A o \in Objects : ObjGap(m, o) \in Nat /\ m.obj[o] \in Nat
           /\ m.pcb \in [Proc -> Nat]
  <1>1. Sound(m) /\ IsMem(m) /\ m.pcb \in [Proc -> Nat]
    BY DEF State, Sound, IsMem, Counters
  <1>2. \A o \in Objects : ObjGap(m, o) \in Nat
    BY ThreadNumbers DEF State, Counted
  <1>3. \A q \in Proc : FutGap(m, q) = 0
    BY DEF State, Counted
  <1> QED
    BY <1>1, <1>2, <1>3, Numbers

\* A process with a thread has a PCB.
LEMMA Present ==
    ASSUME NEW f, NEW b, NEW m, State(f, b, m), NEW p \in Proc, f[p].pc # "none"
    PROVE  m.pcb[p] >= 1 + f[p].refs /\ m.pcb[p] >= 1 /\ m.fut[p] >= 1
  <1>1. m.pcb[p] >= 1 + f[p].refs /\ f[p].refs \in Nat /\ m.fut[p] >= 1
    BY Alive DEF State, Threads, IsThread
  <1> QED
    BY <1>1, StateNumbers

\* All of a step that is none of those of the exit status.
LEMMA StepKeeps ==
    ASSUME NEW f, NEW b, NEW m, State(f, b, m), NEW p \in Proc,
           NEW g, DOMAIN g = Proc, IsThread(g[p]), \A q \in Proc : q # p => g[q] = f[q],
           f[p].pc \notin {"got", "set"}, g[p].pc \notin {"got", "set", "waited"},
           \/ f[p].pc \in {"none", "up", "stopped"} => g[p].pc \in {"none", "up", "stopped"}
           \/ ~m.exited[p].set,
           NEW n, Sound(n), Keeps(m, n),
           \A q \in Proc :
               n.pcb[q] = m.pcb[q] + (IF q = p THEN Weighs(g[p]) - Weighs(f[p]) ELSE 0)
                                   + Bears(g[p], q) - Bears(f[p], q),
           \A q \in Proc : FutGap(n, q) = 0,
           \A o \in Objects :
               ObjGap(n, o) = ObjGap(m, o) + Hands(g[p], o) - Hands(f[p], o),
           FsGap(n) >= FsGap(m),
           \A q \in Proc : q # p /\ f[q].pc # "none" => n.pdt[q] = m.pdt[q],
           g[p].pc = "fork" => n.pdt[p][g[p].slot] = Empty,
           g[p].pc = "wait" => n.pdt[p][g[p].slot] = g[p].obj
    PROVE  State(g, b, n)
  <1>1. Threads(g) /\ Counted(g, b, n)
    BY StepCounts
  <1>2. Slotted(g, n)
    BY StepSlots
  <1>3. Answered(g, n)
    BY <1>1, <1>2, StepAnswers
  <1> QED
    BY <1>1, <1>2, <1>3 DEF State

\* A call of one step.
LEMMA CallKeeps ==
    ASSUME NEW f, NEW b, NEW m, State(f, b, m), NEW p \in Proc, f[p].pc = "user",
           NEW n, Sound(n), Keeps(m, n), n.pcb = m.pcb,
           \A q \in Proc : FutGap(n, q) = 0,
           \A o \in Objects : ObjGap(n, o) = ObjGap(m, o),
           FsGap(n) >= FsGap(m),
           \A q \in Proc : q # p => n.pdt[q] = m.pdt[q]
    PROVE  State(f, b, n)
  <1>1. DOMAIN f = Proc /\ IsThread(f[p])
    BY DEF State, Threads
  <1>2. \A q \in Proc : m.pcb[q] \in Nat /\ Weighs(f[p]) \in Nat /\ Bears(f[p], q) = 0
    <2>1. Weighs(f[p]) \in Nat /\ \A q \in Proc : Bears(f[p], q) = 0
      BY <1>1 DEF IsThread, Weighs, Bears
    <2> QED
      BY <2>1, StateNumbers
  <1>3. \A o \in Objects : ObjGap(m, o) \in Int /\ Hands(f[p], o) = 0
    BY StateNumbers DEF Hands
  <1>4. \A q \in Proc :
            n.pcb[q] = m.pcb[q] + (IF q = p THEN Weighs(f[p]) - Weighs(f[p]) ELSE 0)
                                + Bears(f[p], q) - Bears(f[p], q)
    BY <1>2
  <1>5. \A o \in Objects : ObjGap(n, o) = ObjGap(m, o) + Hands(f[p], o) - Hands(f[p], o)
    BY <1>3
  <1> QED
    BY <1>1, <1>4, <1>5, StepKeeps

\* What is said of n is said of the memory that has become n.
LEMMA Arrive ==
    ASSUME NEW f, NEW b, NEW n, State(f, b, n), Become(n)
    PROVE  State(f, b, mem')
  <1> DEFINE k == mem'
  <1>1. /\ DOMAIN k = Fields /\ SameTables(n, k) /\ k.pcb = n.pcb /\ k.fut = n.fut
        /\ k.obj = n.obj /\ k.fs = n.fs /\ k.exited = n.exited
    BY DEF mem, Become, Fields, SameTables
  <1> HIDE DEF k
  <1>2. Sound(n)
    BY DEF State
  <1>3. Futures(k)
    BY <1>1, <1>2 DEF Sound, IsMem, Futures
  <1>4. /\ Sound(k) /\ FsGap(k) = FsGap(n)
        /\ \A q \in Proc : FutGap(k, q) = FutGap(n, q)
        /\ \A o \in Objects : ObjGap(k, o) = ObjGap(n, o)
    BY <1>1, <1>2, <1>3, PutStatus
  <1>5. Counted(f, b, k)
    BY <1>1, <1>4 DEF State, Counted
  <1>6. Slotted(f, k) /\ Answered(f, k)
    BY <1>1 DEF State, Slotted, Answered, SameTables
  <1> QED
    BY <1>4, <1>5, <1>6 DEF State, k

\* A thread in user mode has a PCB.
LEMMA Entered ==
    ASSUME NEW f, NEW b, NEW m, State(f, b, m), NEW p \in Proc, f[p].pc = "user"
    PROVE  m.pcb[p] >= 1 /\ f[p].refs = 0
  <1>1. f[p].refs = 0
    BY DEF State, Threads, IsThread
  <1>2. m.pcb[p] >= 1 + f[p].refs
    BY Alive DEF State
  <1> QED
    BY <1>1, <1>2

\* A gap above 0 is a count above 0.
LEMMA Backed ==
    ASSUME NEW m, Sound(m)
    PROVE  /\ \A o \in Objects : ObjGap(m, o) >= 1 => m.obj[o] >= 1
           /\ \A q \in Proc : FutGap(m, q) >= 1 => m.fut[q] >= 1
  <1>1. ASSUME NEW o \in Objects
        PROVE  ObjGap(m, o) >= 1 => m.obj[o] >= 1
    <2>1. /\ m.obj[o] \in Nat
          /\ Slots(m.fdt, FdSlot, o) \in Nat /\ Slots(m.sdt, SdSlot, o) \in Nat
      BY Numbers DEF Sound
    <2> QED
      BY <2>1 DEF ObjGap
  <1>2. ASSUME NEW q \in Proc
        PROVE  FutGap(m, q) >= 1 => m.fut[q] >= 1
    <2>1. m.fut[q] \in Nat /\ m.pcb[q] \in Nat /\ Slots(m.pdt, PdSlot, q) \in Nat
      BY Numbers DEF Sound
    <2> QED
      BY <2>1 DEF FutGap
  <1> QED
    BY <1>1, <1>2

-----------------------------------------------------------------------------
(* Calls of one step.                                                       *)

\* open puts a file nobody refers to into the first free slot.
LEMMA OpenKeeps ==
    ASSUME Inv, NEW p \in Proc, NEW i, NEW x, Open(p, i, x)
    PROVE  Inv'
  <1>1. PICK f, b, m : f = th /\ b = booting /\ m = mem
    OBVIOUS
  <1>2. PICK o : o = New(Unopened)
    OBVIOUS
  <1>3. State(f, b, m) /\ Sound(m) /\ f[p].pc = "user" /\ i \in FdSlot /\ m.fdt[p][i] = Empty
    <2>1. State(f, b, m)
      BY <1>1 DEF Inv
    <2>2. i \in DOMAIN m.fdt[p] /\ m.fdt[p][i] = Empty /\ f[p].pc = "user"
      BY <1>1 DEF Open, Enters, FirstFree, mem
    <2> QED
      BY <2>1, <2>2 DEF State, Sound, IsMem, Tables
  <1>4. o \in Files
    <2>1. Unopened # {} /\ Unopened \subseteq Files
      BY DEF Open, Unopened
    <2> QED
      BY <1>2, <2>1 DEF New
  <1>5. PICK k : k = [m EXCEPT !.fdt[p][i] = o, !.node[o] = x]
    OBVIOUS
  <1>6. PICK n : n = Refer(k, o)
    OBVIOUS
  <1>7. th' = f /\ booting' = b /\ Become(n)
    BY <1>1, <1>2, <1>5, <1>6 DEF Open, Enters
  <1>8. m.pcb[p] >= 1
    BY <1>3, Alive DEF State, Threads, IsThread
  <1>9. /\ DOMAIN k = Fields /\ k.fdt = [m.fdt EXCEPT ![p][i] = o] /\ k.pdt = m.pdt
        /\ k.sdt = m.sdt /\ k.pcb = m.pcb /\ k.fut = m.fut /\ k.obj = m.obj /\ k.fs = m.fs
        /\ k.exited = m.exited
    BY <1>3, <1>5 DEF Sound, IsMem, Fields
  <1>10. o \in Objects /\ o # Empty
    BY <1>4, Constants DEF Objects
  <1>11. /\ Sound(k) /\ FsGap(k) = FsGap(m)
         /\ \A q \in Proc : FutGap(k, q) = FutGap(m, q)
         /\ \A y \in Objects : ObjGap(k, y) = ObjGap(m, y) + (IF m.fdt[p][i] = y THEN 1 ELSE 0)
                                                           - (IF o = y THEN 1 ELSE 0)
    BY <1>3, <1>4, <1>8, <1>9, PutFd
  <1>12. /\ Sound(n) /\ SameTables(k, n)
         /\ n.pcb = k.pcb /\ n.fut = k.fut /\ n.fs = k.fs /\ n.exited = k.exited
         /\ \A y \in Objects : ObjGap(n, y) = ObjGap(k, y) + IF y = o THEN 1 ELSE 0
    BY <1>6, <1>10, <1>11, ReferCounts
  <1>13. \A y \in Objects : ObjGap(n, y) = ObjGap(m, y)
    <2> TAKE y \in Objects
    <2>1. ObjGap(m, y) \in Nat /\ m.fdt[p][i] # y
      BY <1>3, Constants, StateNumbers
    <2> QED
      BY <1>11, <1>12, <2>1
  <1>14. FsGap(n) >= FsGap(m) /\ \A q \in Proc : FutGap(n, q) = 0
    <2>1. FsGap(n) = FsGap(k) /\ \A q \in Proc : FutGap(n, q) = FutGap(k, q)
      BY <1>12 DEF FsGap, FutGap, SameTables
    <2> QED
      BY <1>3, <1>11, <2>1, StateNumbers
  <1>15. State(f, b, n)
    BY <1>3, <1>9, <1>12, <1>13, <1>14, CallKeeps DEF SameTables, Keeps
  <1> QED
    BY <1>7, <1>15, Arrive DEF Inv

\* sem puts a semaphore nobody refers to into the first free slot.
LEMMA SemKeeps ==
    ASSUME Inv, NEW p \in Proc, NEW i, NEW x, Sem(p, i, x)
    PROVE  Inv'
  <1>1. PICK f, b, m : f = th /\ b = booting /\ m = mem
    OBVIOUS
  <1>2. PICK o : o = New(Unmade)
    OBVIOUS
  <1>3. State(f, b, m) /\ Sound(m) /\ f[p].pc = "user" /\ i \in SdSlot /\ m.sdt[p][i] = Empty
    <2>1. State(f, b, m)
      BY <1>1 DEF Inv
    <2>2. i \in DOMAIN m.sdt[p] /\ m.sdt[p][i] = Empty /\ f[p].pc = "user"
      BY <1>1 DEF Sem, Enters, FirstFree, mem
    <2> QED
      BY <2>1, <2>2 DEF State, Sound, IsMem, Tables
  <1>4. o \in Sems
    <2>1. Unmade # {} /\ Unmade \subseteq Sems
      BY DEF Sem, Unmade
    <2> QED
      BY <1>2, <2>1 DEF New
  <1>5. PICK k : k = [m EXCEPT !.sdt[p][i] = o, !.permits[o] = x]
    OBVIOUS
  <1>6. PICK n : n = Refer(k, o)
    OBVIOUS
  <1>7. th' = f /\ booting' = b /\ Become(n)
    BY <1>1, <1>2, <1>5, <1>6 DEF Sem, Enters
  <1>8. m.pcb[p] >= 1
    BY <1>3, Alive DEF State, Threads, IsThread
  <1>9. /\ DOMAIN k = Fields /\ k.sdt = [m.sdt EXCEPT ![p][i] = o] /\ k.pdt = m.pdt
        /\ k.fdt = m.fdt /\ k.pcb = m.pcb /\ k.fut = m.fut /\ k.obj = m.obj /\ k.fs = m.fs
        /\ k.exited = m.exited
    BY <1>3, <1>5 DEF Sound, IsMem, Fields
  <1>10. o \in Objects /\ o # Empty
    BY <1>4, Constants DEF Objects
  <1>11. /\ Sound(k) /\ FsGap(k) = FsGap(m)
         /\ \A q \in Proc : FutGap(k, q) = FutGap(m, q)
         /\ \A y \in Objects : ObjGap(k, y) = ObjGap(m, y) + (IF m.sdt[p][i] = y THEN 1 ELSE 0)
                                                           - (IF o = y THEN 1 ELSE 0)
    BY <1>3, <1>4, <1>8, <1>9, PutSd
  <1>12. /\ Sound(n) /\ SameTables(k, n)
         /\ n.pcb = k.pcb /\ n.fut = k.fut /\ n.fs = k.fs /\ n.exited = k.exited
         /\ \A y \in Objects : ObjGap(n, y) = ObjGap(k, y) + IF y = o THEN 1 ELSE 0
    BY <1>6, <1>10, <1>11, ReferCounts
  <1>13. \A y \in Objects : ObjGap(n, y) = ObjGap(m, y)
    <2> TAKE y \in Objects
    <2>1. ObjGap(m, y) \in Nat /\ m.sdt[p][i] # y
      BY <1>3, Constants, StateNumbers
    <2> QED
      BY <1>11, <1>12, <2>1
  <1>14. FsGap(n) >= FsGap(m) /\ \A q \in Proc : FutGap(n, q) = 0
    <2>1. FsGap(n) = FsGap(k) /\ \A q \in Proc : FutGap(n, q) = FutGap(k, q)
      BY <1>12 DEF FsGap, FutGap, SameTables
    <2> QED
      BY <1>3, <1>11, <2>1, StateNumbers
  <1>15. State(f, b, n)
    BY <1>3, <1>9, <1>12, <1>13, <1>14, CallKeeps DEF SameTables, Keeps
  <1> QED
    BY <1>7, <1>15, Arrive DEF Inv

\* close of an open file.
LEMMA CloseFdKeeps ==
    ASSUME Inv, NEW p \in Proc, NEW i, CloseFd(p, i)
    PROVE  Inv'
  <1>1. PICK f, b, m : f = th /\ b = booting /\ m = mem
    OBVIOUS
  <1>2. PICK o : o = m.fdt[p][i]
    OBVIOUS
  <1>3. State(f, b, m) /\ f[p].pc = "user" /\ m.pcb[p] >= 1
    BY <1>1, Entered DEF Inv, CloseFd, Enters
  <1>4. i \in FdSlot /\ o \in Files /\ o # Empty /\ o \in Objects
    <2>1. i \in DOMAIN m.fdt[p] /\ o # Empty
      BY <1>1, <1>2 DEF CloseFd, InUse, mem
    <2>2. m.fdt[p] \in [FdSlot -> Files \cup {Empty}]
      BY <1>3 DEF State, Sound, IsMem, Tables
    <2> QED
      BY <1>2, <2>1, <2>2 DEF Objects
  <1>5. PICK k : k = [m EXCEPT !.fdt[p][i] = Empty]
    OBVIOUS
  <1>6. PICK n : n = Drop(k, o)
    OBVIOUS
  <1>7. th' = f /\ booting' = b /\ Become(n)
    BY <1>1, <1>2, <1>5, <1>6 DEF CloseFd, Enters, mem
  <1>8. /\ DOMAIN k = Fields /\ k.fdt = [m.fdt EXCEPT ![p][i] = Empty]
        /\ k.pdt = m.pdt /\ k.sdt = m.sdt
        /\ k.pcb = m.pcb /\ k.fut = m.fut /\ k.obj = m.obj /\ k.fs = m.fs /\ k.exited = m.exited
    BY <1>3, <1>5 DEF State, Sound, IsMem, Fields
  <1>9. /\ Sound(k) /\ FsGap(k) = FsGap(m)
        /\ \A q \in Proc : FutGap(k, q) = FutGap(m, q)
        /\ \A y \in Objects : ObjGap(k, y) = ObjGap(m, y) + (IF m.fdt[p][i] = y THEN 1 ELSE 0)
                                                          - (IF Empty = y THEN 1 ELSE 0)
    <2>1. Sound(m) /\ Empty \in Files \cup {Empty}
      BY <1>3, StateNumbers
    <2> QED
      BY <1>3, <1>4, <1>8, <2>1, PutFd
  <1>10. \A y \in Objects : ObjGap(k, y) = ObjGap(m, y) + (IF y = o THEN 1 ELSE 0)
    <2> TAKE y \in Objects
    <2>1. ObjGap(m, y) \in Nat /\ Empty # y
      BY <1>3, Constants, StateNumbers
    <2> QED
      BY <1>2, <1>9, <2>1
  <1>11. k.obj[o] >= 1
    <2>1. ObjGap(k, o) >= 1
      BY <1>3, <1>4, <1>10, StateNumbers
    <2> QED
      BY <1>4, <1>9, <2>1, Backed
  <1>12. /\ Sound(n) /\ SameTables(k, n) /\ Keeps(k, n)
         /\ n.pcb = k.pcb /\ n.fut = k.fut /\ n.fs = k.fs
         /\ \A y \in Objects : ObjGap(n, y) = ObjGap(k, y) - IF y = o THEN 1 ELSE 0
    BY <1>4, <1>6, <1>9, <1>11, DropCounts
  <1>13. \A y \in Objects : ObjGap(n, y) = ObjGap(m, y)
    BY <1>3, <1>10, <1>12, StateNumbers
  <1>14. FsGap(n) >= FsGap(m) /\ \A q \in Proc : FutGap(n, q) = 0
    <2>1. FsGap(n) = FsGap(k) /\ \A q \in Proc : FutGap(n, q) = FutGap(k, q)
      BY <1>12 DEF FsGap, FutGap, SameTables
    <2> QED
      BY <1>3, <1>9, <2>1, StateNumbers
  <1>15. State(f, b, n)
    BY <1>3, <1>8, <1>12, <1>13, <1>14, CallKeeps DEF SameTables, Keeps
  <1> QED
    BY <1>7, <1>15, Arrive DEF Inv

\* close of a semaphore.
LEMMA CloseSdKeeps ==
    ASSUME Inv, NEW p \in Proc, NEW i, CloseSd(p, i)
    PROVE  Inv'
  <1>1. PICK f, b, m : f = th /\ b = booting /\ m = mem
    OBVIOUS
  <1>2. PICK o : o = m.sdt[p][i]
    OBVIOUS
  <1>3. State(f, b, m) /\ f[p].pc = "user" /\ m.pcb[p] >= 1
    BY <1>1, Entered DEF Inv, CloseSd, Enters
  <1>4. i \in SdSlot /\ o \in Sems /\ o # Empty /\ o \in Objects
    <2>1. i \in DOMAIN m.sdt[p] /\ o # Empty
      BY <1>1, <1>2 DEF CloseSd, InUse, mem
    <2>2. m.sdt[p] \in [SdSlot -> Sems \cup {Empty}]
      BY <1>3 DEF State, Sound, IsMem, Tables
    <2> QED
      BY <1>2, <2>1, <2>2 DEF Objects
  <1>5. PICK k : k = [m EXCEPT !.sdt[p][i] = Empty]
    OBVIOUS
  <1>6. PICK n : n = Drop(k, o)
    OBVIOUS
  <1>7. th' = f /\ booting' = b /\ Become(n)
    BY <1>1, <1>2, <1>5, <1>6 DEF CloseSd, Enters, mem
  <1>8. /\ DOMAIN k = Fields /\ k.sdt = [m.sdt EXCEPT ![p][i] = Empty]
        /\ k.pdt = m.pdt /\ k.fdt = m.fdt
        /\ k.pcb = m.pcb /\ k.fut = m.fut /\ k.obj = m.obj /\ k.fs = m.fs /\ k.exited = m.exited
    BY <1>3, <1>5 DEF State, Sound, IsMem, Fields
  <1>9. /\ Sound(k) /\ FsGap(k) = FsGap(m)
        /\ \A q \in Proc : FutGap(k, q) = FutGap(m, q)
        /\ \A y \in Objects : ObjGap(k, y) = ObjGap(m, y) + (IF m.sdt[p][i] = y THEN 1 ELSE 0)
                                                          - (IF Empty = y THEN 1 ELSE 0)
    <2>1. Sound(m) /\ Empty \in Sems \cup {Empty}
      BY <1>3, StateNumbers
    <2> QED
      BY <1>3, <1>4, <1>8, <2>1, PutSd
  <1>10. \A y \in Objects : ObjGap(k, y) = ObjGap(m, y) + (IF y = o THEN 1 ELSE 0)
    <2> TAKE y \in Objects
    <2>1. ObjGap(m, y) \in Nat /\ Empty # y
      BY <1>3, Constants, StateNumbers
    <2> QED
      BY <1>2, <1>9, <2>1
  <1>11. k.obj[o] >= 1
    <2>1. ObjGap(k, o) >= 1
      BY <1>3, <1>4, <1>10, StateNumbers
    <2> QED
      BY <1>4, <1>9, <2>1, Backed
  <1>12. /\ Sound(n) /\ SameTables(k, n) /\ Keeps(k, n)
         /\ n.pcb = k.pcb /\ n.fut = k.fut /\ n.fs = k.fs
         /\ \A y \in Objects : ObjGap(n, y) = ObjGap(k, y) - IF y = o THEN 1 ELSE 0
    BY <1>4, <1>6, <1>9, <1>11, DropCounts
  <1>13. \A y \in Objects : ObjGap(n, y) = ObjGap(m, y)
    BY <1>3, <1>10, <1>12, StateNumbers
  <1>14. FsGap(n) >= FsGap(m) /\ \A q \in Proc : FutGap(n, q) = 0
    <2>1. FsGap(n) = FsGap(k) /\ \A q \in Proc : FutGap(n, q) = FutGap(k, q)
      BY <1>12 DEF FsGap, FutGap, SameTables
    <2> QED
      BY <1>3, <1>9, <2>1, StateNumbers
  <1>15. State(f, b, n)
    BY <1>3, <1>8, <1>12, <1>13, <1>14, CallKeeps DEF SameTables, Keeps
  <1> QED
    BY <1>7, <1>15, Arrive DEF Inv

\* close of a child: its exit status is let go.
LEMMA ClosePdKeeps ==
    ASSUME Inv, NEW p \in Proc, NEW i, ClosePd(p, i)
    PROVE  Inv'
  <1>1. PICK f, b, m : f = th /\ b = booting /\ m = mem
    OBVIOUS
  <1>2. PICK c : c = m.pdt[p][i]
    OBVIOUS
  <1>3. State(f, b, m) /\ f[p].pc = "user" /\ m.pcb[p] >= 1
    BY <1>1, Entered DEF Inv, ClosePd, Enters
  <1>4. i \in PdSlot /\ c \in Proc /\ c # Empty
    <2>1. i \in DOMAIN m.pdt[p] /\ c # Empty
      BY <1>1, <1>2 DEF ClosePd, InUse, mem
    <2>2. m.pdt[p] \in [PdSlot -> Proc \cup {Empty}]
      BY <1>3 DEF State, Sound, IsMem, Tables
    <2> QED
      BY <1>2, <2>1, <2>2
  <1>5. PICK k : k = [m EXCEPT !.pdt[p][i] = Empty]
    OBVIOUS
  <1>6. PICK n : n = DropFuture(k, c)
    OBVIOUS
  <1>7. th' = f /\ booting' = b /\ Become(n)
    BY <1>1, <1>2, <1>5, <1>6 DEF ClosePd, Enters, mem
  <1>8. /\ DOMAIN k = Fields /\ k.pdt = [m.pdt EXCEPT ![p][i] = Empty]
        /\ k.fdt = m.fdt /\ k.sdt = m.sdt
        /\ k.pcb = m.pcb /\ k.fut = m.fut /\ k.obj = m.obj /\ k.fs = m.fs /\ k.exited = m.exited
    BY <1>3, <1>5 DEF State, Sound, IsMem, Fields
  <1>9. /\ Sound(k) /\ FsGap(k) = FsGap(m)
        /\ \A q \in Proc : FutGap(k, q) = FutGap(m, q) + (IF m.pdt[p][i] = q THEN 1 ELSE 0)
                                                       - (IF Empty = q THEN 1 ELSE 0)
        /\ \A y \in Objects : ObjGap(k, y) = ObjGap(m, y)
    <2>1. Sound(m) /\ Empty \in Proc \cup {Empty}
      BY <1>3, StateNumbers
    <2> QED
      BY <1>3, <1>4, <1>8, <2>1, PutPd
  <1>10. \A q \in Proc : FutGap(k, q) = IF q = c THEN 1 ELSE 0
    <2> TAKE q \in Proc
    <2>1. FutGap(m, q) = 0 /\ Empty # q
      BY <1>3, Constants, StateNumbers
    <2> QED
      BY <1>2, <1>9, <2>1
  <1>11. k.fut[c] >= 1
    BY <1>4, <1>9, <1>10, Backed
  <1>12. /\ Sound(n) /\ SameTables(k, n) /\ Keeps(k, n)
         /\ n.pcb = k.pcb /\ n.obj = k.obj /\ n.fs = k.fs
         /\ \A q \in Proc : FutGap(n, q) = FutGap(k, q) - IF q = c THEN 1 ELSE 0
    BY <1>4, <1>6, <1>9, <1>11, DropFutureCounts
  <1>13. \A q \in Proc : FutGap(n, q) = 0
    BY <1>10, <1>12
  <1>14. FsGap(n) >= FsGap(m) /\ \A y \in Objects : ObjGap(n, y) = ObjGap(m, y)
    <2>1. FsGap(n) = FsGap(k) /\ \A y \in Objects : ObjGap(n, y) = ObjGap(k, y)
      BY <1>12 DEF FsGap, ObjGap, SameTables
    <2> QED
      BY <1>3, <1>9, <2>1, StateNumbers
  <1>15. \A q \in Proc : q # p => n.pdt[q] = m.pdt[q]
    BY <1>3, <1>8, <1>12 DEF SameTables, State, Sound, IsMem, Tables
  <1>16. State(f, b, n)
    BY <1>3, <1>8, <1>12, <1>13, <1>14, <1>15, CallKeeps DEF Keeps
  <1> QED
    BY <1>7, <1>16, Arrive DEF Inv

\* What is counted nowhere changes.
LEMMA UncountedKeeps ==
    ASSUME NEW f, NEW b, NEW m, State(f, b, m), NEW p \in Proc, f[p].pc = "user",
           NEW n, DOMAIN n = Fields, SameTables(m, n), n.pcb = m.pcb, n.fut = m.fut,
           n.obj = m.obj, n.fs = m.fs, n.exited = m.exited
    PROVE  State(f, b, n)
  <1>1. Sound(m) /\ Futures(n)
    BY DEF State, Sound, IsMem, Futures
  <1>2. /\ Sound(n) /\ FsGap(n) = FsGap(m)
        /\ \A q \in Proc : FutGap(n, q) = FutGap(m, q)
        /\ \A o \in Objects : ObjGap(n, o) = ObjGap(m, o)
    BY <1>1, PutStatus
  <1>3. FsGap(n) >= FsGap(m) /\ \A q \in Proc : FutGap(n, q) = 0
    BY <1>2, StateNumbers
  <1>4. Keeps(m, n) /\ \A q \in Proc : q # p => n.pdt[q] = m.pdt[q]
    BY DEF Keeps, SameTables
  <1> QED
    BY <1>2, <1>3, <1>4, CallKeeps

\* up and seek change what is counted nowhere.
LEMMA UpKeeps ==
    ASSUME Inv, NEW p \in Proc, NEW i, Up(p, i)
    PROVE  Inv'
  <1>1. PICK f, b, m : f = th /\ b = booting /\ m = mem
    OBVIOUS
  <1>2. PICK n : n = [m EXCEPT !.permits[sdt[p][i]] = @ + 1]
    OBVIOUS
  <1>3. th' = f /\ booting' = b /\ Become(n)
    BY <1>1, <1>2 DEF Up, Enters
  <1>4. State(f, b, m) /\ f[p].pc = "user"
    BY <1>1 DEF Inv, Up, Enters
  <1>5. /\ DOMAIN n = Fields /\ SameTables(m, n) /\ n.pcb = m.pcb /\ n.fut = m.fut
        /\ n.obj = m.obj /\ n.fs = m.fs /\ n.exited = m.exited
    BY <1>2, <1>4 DEF State, Sound, IsMem, Fields, SameTables
  <1> QED
    BY <1>3, <1>4, <1>5, UncountedKeeps, Arrive DEF Inv

\* seek moves the offset.
LEMMA SeekKeeps ==
    ASSUME Inv, NEW p \in Proc, NEW i, NEW x, Seek(p, i, x)
    PROVE  Inv'
  <1>1. PICK f, b, m : f = th /\ b = booting /\ m = mem
    OBVIOUS
  <1>2. PICK n : n = [m EXCEPT !.offset[fdt[p][i]] = x]
    OBVIOUS
  <1>3. th' = f /\ booting' = b /\ Become(n)
    BY <1>1, <1>2 DEF Seek, Enters
  <1>4. State(f, b, m) /\ f[p].pc = "user"
    BY <1>1 DEF Inv, Seek, Enters
  <1>5. /\ DOMAIN n = Fields /\ SameTables(m, n) /\ n.pcb = m.pcb /\ n.fut = m.fut
        /\ n.obj = m.obj /\ n.fs = m.fs /\ n.exited = m.exited
    BY <1>2, <1>4 DEF State, Sound, IsMem, Fields, SameTables
  <1> QED
    BY <1>3, <1>4, <1>5, UncountedKeeps, Arrive DEF Inv

\* execl lets the semaphores go and keeps a reference to the file system.
LEMMA ExeclKeeps ==
    ASSUME Inv, NEW p \in Proc, Execl(p)
    PROVE  Inv'
  <1>1. PICK f, b, m : f = th /\ b = booting /\ m = mem
    OBVIOUS
  <1>2. PICK k : k = [Collect(m, m.fut, [o \in Files \cup Sems |-> m.obj[o] - Uses(m.sdt[p], o)])
                      EXCEPT !.sdt[p] = NoSds]
    OBVIOUS
  <1>3. PICK n : n = ReferFs(k)
    OBVIOUS
  <1>4. th' = f /\ booting' = b /\ Become(n)
    <2>1. m.fut = futRefs /\ m.obj = objRefs /\ m.sdt = sdt
      BY <1>1 DEF mem
    <2> QED
      BY <1>1, <1>2, <1>3, <2>1 DEF Execl, Enters
  <1>5. State(f, b, m) /\ f[p].pc = "user" /\ m.pcb[p] >= 1
    BY <1>1, Entered DEF Inv, Execl, Enters
  <1>6. Sound(m) /\ \A o \in Objects : ObjGap(m, o) >= 0
    BY <1>5, StateNumbers
  <1>7. /\ Sound(k) /\ Keeps(m, k) /\ k.pcb = m.pcb /\ k.pdt = m.pdt /\ k.fs = m.fs
        /\ \A q \in Proc : FutGap(k, q) = FutGap(m, q)
        /\ \A o \in Objects : ObjGap(k, o) = ObjGap(m, o)
        /\ FsGap(k) = FsGap(m)
    BY <1>2, <1>5, <1>6, SemsGone
  <1>8. /\ DOMAIN n = Fields /\ SameTables(k, n) /\ n.pcb = k.pcb /\ n.fut = k.fut
        /\ n.obj = k.obj /\ n.fs = k.fs + 1 /\ n.exited = k.exited /\ k.fs \in Int
    BY <1>3, <1>7 DEF ReferFs, Sound, IsMem, Counters, Fields, SameTables
  <1>9. /\ Sound(n) /\ FsGap(n) = FsGap(k) + n.fs - k.fs
        /\ \A q \in Proc : FutGap(n, q) = FutGap(k, q)
        /\ \A o \in Objects : ObjGap(n, o) = ObjGap(k, o)
    BY <1>7, <1>8, PutFs
  <1>10. FsGap(n) >= FsGap(m) /\ \A q \in Proc : FutGap(n, q) = 0
    BY <1>5, <1>7, <1>8, <1>9, StateNumbers
  <1>11. State(f, b, n)
    BY <1>5, <1>7, <1>8, <1>9, <1>10, CallKeeps DEF SameTables, Keeps
  <1> QED
    BY <1>4, <1>11, Arrive DEF Inv

-----------------------------------------------------------------------------
(* down, read and wait; exit and faults.                                    *)

\* down and read take a reference to the object and one to the PCB, and wait.
LEMMA TakeKeeps ==
    ASSUME NEW f, NEW b, NEW m, State(f, b, m), NEW p \in Proc, f[p].pc = "user",
           NEW o \in Objects, NEW stage \in {"down", "read"},
           NEW g, DOMAIN g = Proc, \A q \in Proc : q # p => g[q] = f[q],
           DOMAIN g[p] = {"pc", "slot", "obj", "val", "refs"},
           g[p].pc = stage, g[p].obj = o, g[p].refs = 1,
           NEW n, n = Refer(Holding(m, p), o)
    PROVE  State(g, b, n)
  <1>1. PICK k : k = Holding(m, p)
    OBVIOUS
  <1>2. m.pcb[p] >= 1 /\ f[p].refs = 0 /\ Sound(m)
    BY Entered, StateNumbers
  <1>3. /\ Sound(k) /\ SameTables(m, k)
        /\ k.pcb = [m.pcb EXCEPT ![p] = @ + 1]
        /\ k.fut = m.fut /\ k.obj = m.obj /\ k.fs = m.fs /\ k.exited = m.exited
        /\ \A q \in Proc : FutGap(k, q) = FutGap(m, q)
        /\ \A x \in Objects : ObjGap(k, x) = ObjGap(m, x)
        /\ FsGap(k) = FsGap(m)
    BY <1>1, <1>2, HoldingCounts
  <1>4. /\ Sound(n) /\ SameTables(k, n)
        /\ n.pcb = k.pcb /\ n.fut = k.fut /\ n.fs = k.fs /\ n.exited = k.exited
        /\ \A x \in Objects : ObjGap(n, x) = ObjGap(k, x) + IF x = o THEN 1 ELSE 0
    BY <1>1, <1>3, ReferCounts
  <1>5. FsGap(n) >= FsGap(m) /\ \A q \in Proc : FutGap(n, q) = 0
    <2>1. FsGap(n) = FsGap(k) /\ \A q \in Proc : FutGap(n, q) = FutGap(k, q)
      BY <1>4 DEF FsGap, FutGap, SameTables
    <2> QED
      BY <1>3, <2>1, StateNumbers
  <1>6. IsThread(g[p]) /\ Weighs(g[p]) = 2 /\ \A x : Bears(g[p], x) = 0
    BY DEF IsThread, Stages, Calling, Weighs, Bears
  <1>7. Weighs(f[p]) = 1 /\ \A x : Bears(f[p], x) = 0 /\ Hands(f[p], x) = 0
    BY <1>2 DEF Weighs, Bears, Hands
  <1>8. \A q \in Proc :
            n.pcb[q] = m.pcb[q] + (IF q = p THEN Weighs(g[p]) - Weighs(f[p]) ELSE 0)
                                + Bears(g[p], q) - Bears(f[p], q)
    BY <1>3, <1>4, <1>6, <1>7, StateNumbers
  <1>9. \A x \in Objects : ObjGap(n, x) = ObjGap(m, x) + Hands(g[p], x) - Hands(f[p], x)
    <2> TAKE x \in Objects
    <2>1. Hands(g[p], x) = IF x = o THEN 1 ELSE 0
      BY DEF Hands
    <2> QED
      BY <1>3, <1>4, <1>7, <2>1, StateNumbers
  <1>10. Keeps(m, n) /\ SameTables(m, n)
    BY <1>3, <1>4 DEF Keeps, SameTables
  <1> QED
    BY <1>4, <1>5, <1>6, <1>8, <1>9, <1>10, StepKeeps DEF SameTables

\* down of a semaphore the process has.
LEMMA DownKeeps ==
    ASSUME Inv, NEW p \in Proc, NEW i, Down(p, i)
    PROVE  Inv'
  <1>1. PICK f, b, m : f = th /\ b = booting /\ m = mem
    OBVIOUS
  <1>2. PICK o : o = m.sdt[p][i]
    OBVIOUS
  <1>3. PICK n : n = Refer(Holding(m, p), o)
    OBVIOUS
  <1>4. PICK g : g = [f EXCEPT ![p] = Thread("down", i, o, 0, 1)]
    OBVIOUS
  <1>5. th' = g /\ booting' = b /\ Become(n)
    <2>1. o = sdt[p][i]
      BY <1>1, <1>2 DEF mem
    <2> QED
      BY <1>1, <1>3, <1>4, <2>1 DEF Down, Enters, Goes
  <1>6. State(f, b, m) /\ f[p].pc = "user" /\ DOMAIN f = Proc
    BY <1>1 DEF Inv, Down, Enters, State, Threads
  <1>7. o \in Objects
    <2>1. i \in DOMAIN m.sdt[p] /\ o # Empty
      BY <1>1, <1>2 DEF Down, InUse, mem
    <2>2. m.sdt[p] \in [SdSlot -> Sems \cup {Empty}]
      BY <1>6 DEF State, Sound, IsMem, Tables
    <2> QED
      BY <1>2, <2>1, <2>2 DEF Objects
  <1>8. /\ DOMAIN g = Proc /\ \A q \in Proc : q # p => g[q] = f[q]
        /\ DOMAIN g[p] = {"pc", "slot", "obj", "val", "refs"}
        /\ g[p].pc = "down" /\ g[p].obj = o /\ g[p].refs = 1
    BY <1>4, <1>6, Threaded
  <1>9. State(g, b, n)
    BY <1>3, <1>6, <1>7, <1>8, TakeKeeps
  <1> QED
    BY <1>5, <1>9, Arrive DEF Inv

\* read of a file the process has open.
LEMMA ReadKeeps ==
    ASSUME Inv, NEW p \in Proc, NEW i, NEW x, Read(p, i, x)
    PROVE  Inv'
  <1>1. PICK f, b, m : f = th /\ b = booting /\ m = mem
    OBVIOUS
  <1>2. PICK o : o = m.fdt[p][i]
    OBVIOUS
  <1>3. PICK n : n = Refer(Holding(m, p), o)
    OBVIOUS
  <1>4. PICK g : g = [f EXCEPT ![p] = Thread("read", i, o, x, 1)]
    OBVIOUS
  <1>5. th' = g /\ booting' = b /\ Become(n)
    <2>1. o = fdt[p][i]
      BY <1>1, <1>2 DEF mem
    <2> QED
      BY <1>1, <1>3, <1>4, <2>1 DEF Read, Enters, Goes
  <1>6. State(f, b, m) /\ f[p].pc = "user" /\ DOMAIN f = Proc
    BY <1>1 DEF Inv, Read, Enters, State, Threads
  <1>7. o \in Objects
    <2>1. i \in DOMAIN m.fdt[p] /\ o # Empty
      BY <1>1, <1>2 DEF Read, Readable, InUse, mem
    <2>2. m.fdt[p] \in [FdSlot -> Files \cup {Empty}]
      BY <1>6 DEF State, Sound, IsMem, Tables
    <2> QED
      BY <1>2, <2>1, <2>2 DEF Objects
  <1>8. /\ DOMAIN g = Proc /\ \A q \in Proc : q # p => g[q] = f[q]
        /\ DOMAIN g[p] = {"pc", "slot", "obj", "val", "refs"}
        /\ g[p].pc = "read" /\ g[p].obj = o /\ g[p].refs = 1
    BY <1>4, <1>6, Threaded
  <1>9. State(g, b, n)
    BY <1>3, <1>6, <1>7, <1>8, TakeKeeps
  <1> QED
    BY <1>5, <1>9, Arrive DEF Inv

\* Reading from the disk changes nothing that is counted.
LEMMA ReadAllKeeps ==
    ASSUME Inv, NEW p \in Proc, ReadAll(p)
    PROVE  Inv'
  <1>1. PICK f, b, m : f = th /\ b = booting /\ m = mem
    OBVIOUS
  <1>2. PICK x : th' = [th EXCEPT ![p] = [th[p] EXCEPT !.pc = "add", !.val = x]]
    BY DEF ReadAll, Goes
  <1>3. PICK g : g = [f EXCEPT ![p] = [f[p] EXCEPT !.pc = "add", !.val = x]]
    OBVIOUS
  <1>4. th' = g /\ booting' = b /\ Become(m)
    BY <1>1, <1>2, <1>3 DEF ReadAll, At, Become, mem, memVars
  <1>5. State(f, b, m) /\ f[p].pc = "read" /\ DOMAIN f = Proc /\ IsThread(f[p])
    BY <1>1 DEF Inv, ReadAll, At, State, Threads
  <1>6. /\ DOMAIN g = Proc /\ \A q \in Proc : q # p => g[q] = f[q]
        /\ DOMAIN g[p] = {"pc", "slot", "obj", "val", "refs"}
        /\ g[p].pc = "add" /\ g[p].obj = f[p].obj /\ g[p].refs = f[p].refs
    BY <1>3, <1>5 DEF IsThread
  <1>7. /\ IsThread(g[p]) /\ Weighs(g[p]) = Weighs(f[p]) /\ Weighs(f[p]) \in Nat
        /\ \A x1 : /\ Bears(g[p], x1) = 0 /\ Bears(f[p], x1) = 0
                   /\ Hands(g[p], x1) = Hands(f[p], x1) /\ Hands(f[p], x1) \in Nat
    BY <1>5, <1>6 DEF IsThread, Stages, Calling, Weighs, Bears, Hands
  <1>8. /\ \A q \in Proc :
               m.pcb[q] = m.pcb[q] + (IF q = p THEN Weighs(g[p]) - Weighs(f[p]) ELSE 0)
                                   + Bears(g[p], q) - Bears(f[p], q)
        /\ \A y \in Objects : ObjGap(m, y) = ObjGap(m, y) + Hands(g[p], y) - Hands(f[p], y)
    BY <1>5, <1>7, StateNumbers
  <1>9. Keeps(m, m) /\ FsGap(m) >= FsGap(m) /\ Sound(m) /\ \A q \in Proc : FutGap(m, q) = 0
    BY <1>5, StateNumbers DEF Keeps
  <1>10. State(g, b, m)
    BY <1>5, <1>6, <1>7, <1>8, <1>9, StepKeeps
  <1> QED
    BY <1>4, <1>10, Arrive DEF Inv

\* down and read let the object and the PCB go, when what they wait for is there.
LEMMA ReleaseKeeps ==
    ASSUME NEW f, NEW b, NEW m, State(f, b, m), NEW p \in Proc,
           f[p].pc \in {"down", "add"},
           NEW k, DOMAIN k = Fields, SameTables(m, k), k.pcb = m.pcb, k.fut = m.fut,
           k.obj = m.obj, k.fs = m.fs, k.exited = m.exited,
           NEW n, n = DropPcb(Drop(k, f[p].obj), p)
    PROVE  State([f EXCEPT ![p] = User], b, n)
  <1>1. PICK o : o = f[p].obj
    OBVIOUS
  <1>2. PICK l : l = Drop(k, o)
    OBVIOUS
  <1>3. PICK g : g = [f EXCEPT ![p] = User]
    OBVIOUS
  <1>4. /\ Sound(m) /\ Futures(k) /\ DOMAIN f = Proc /\ IsThread(f[p])
        /\ o \in Objects /\ f[p].refs = 1
    BY <1>1 DEF State, Sound, IsMem, Futures, Threads, IsThread, Calling
  <1>5. /\ Sound(k) /\ FsGap(k) = FsGap(m)
        /\ \A q \in Proc : FutGap(k, q) = FutGap(m, q)
        /\ \A y \in Objects : ObjGap(k, y) = ObjGap(m, y)
    BY <1>4, PutStatus
  <1>6. ObjGap(m, o) >= 1 /\ k.obj[o] >= 1
    <2>1. p \in InHands(f, o)
      BY <1>1 DEF InHands
    <2>2. ObjGap(m, o) >= 1
      BY <1>4, <2>1, ThreadNumbers DEF State, Counted
    <2> QED
      BY <1>4, <1>5, <2>2, Backed
  <1>7. /\ Sound(l) /\ SameTables(k, l) /\ Keeps(k, l)
        /\ l.pcb = k.pcb /\ l.fut = k.fut /\ l.fs = k.fs
        /\ \A y \in Objects : ObjGap(l, y) = ObjGap(k, y) - IF y = o THEN 1 ELSE 0
    BY <1>2, <1>4, <1>5, <1>6, DropCounts
  <1>8. FsGap(l) = FsGap(k) /\ \A q \in Proc : FutGap(l, q) = 0
    <2>1. FsGap(l) = FsGap(k) /\ \A q \in Proc : FutGap(l, q) = FutGap(k, q)
      BY <1>7 DEF FsGap, FutGap, SameTables
    <2> QED
      BY <1>5, <2>1, StateNumbers
  <1>9. m.pcb[p] >= 2
    BY <1>4, Alive DEF State
  <1>10. (\A q \in Proc : FutGap(l, q) >= 0) /\ \A y \in Objects : ObjGap(l, y) >= 0
    BY <1>5, <1>6, <1>7, <1>8, StateNumbers
  <1>11. /\ Sound(n) /\ Keeps(l, n) /\ Fewer(l, n)
         /\ n.pcb = [l.pcb EXCEPT ![p] = @ - 1]
         /\ \A q \in Proc : n.pcb[q] >= 1 => n.pdt[q] = l.pdt[q]
         /\ \A q \in Proc : FutGap(n, q) = FutGap(l, q)
         /\ \A y \in Objects : ObjGap(n, y) = ObjGap(l, y)
         /\ FsGap(n) = FsGap(l)
    <2>1. l.pcb[p] >= 1 /\ n = DropPcb(l, p)
      BY <1>1, <1>2, <1>7, <1>9, StateNumbers
    <2> QED
      BY SMTT(20), <1>7, <1>10, <2>1, DropPcbCounts
  <1>12. /\ DOMAIN g = Proc /\ g[p] = User /\ \A q \in Proc : q # p => g[q] = f[q]
    BY <1>3, <1>4
  <1>13. /\ IsThread(g[p]) /\ g[p].pc = "user" /\ Weighs(g[p]) = 1 /\ Weighs(f[p]) = 2
         /\ \A x : Bears(g[p], x) = 0 /\ Bears(f[p], x) = 0 /\ Hands(g[p], x) = 0
    BY <1>4, <1>12, Threaded DEF IsThread, Weighs, Bears, Hands
  <1>14. \A q \in Proc :
             n.pcb[q] = m.pcb[q] + (IF q = p THEN Weighs(g[p]) - Weighs(f[p]) ELSE 0)
                                 + Bears(g[p], q) - Bears(f[p], q)
    BY <1>7, <1>11, <1>13, StateNumbers
  <1>15. \A y \in Objects : ObjGap(n, y) = ObjGap(m, y) + Hands(g[p], y) - Hands(f[p], y)
    <2> TAKE y \in Objects
    <2>1. Hands(f[p], y) = IF y = o THEN 1 ELSE 0
      BY <1>1 DEF Hands
    <2> QED
      BY <1>5, <1>7, <1>11, <1>13, <2>1, StateNumbers
  <1>16. FsGap(n) >= FsGap(m) /\ \A q \in Proc : FutGap(n, q) = 0
    BY <1>5, <1>8, <1>11, StateNumbers
  <1>17. Keeps(m, n)
    <2>1. Keeps(m, l)
      BY <1>7 DEF Keeps
    <2> QED
      BY <1>11, <2>1, KeepsMore
  <1>18. \A q \in Proc : q # p /\ f[q].pc # "none" => n.pdt[q] = m.pdt[q]
    <2> SUFFICES ASSUME NEW q \in Proc, q # p, f[q].pc # "none"
                 PROVE  n.pdt[q] = m.pdt[q]
      OBVIOUS
    <2>1. m.pcb[q] >= 1
      BY Present
    <2> QED
      BY <1>7, <1>11, <2>1, StateNumbers DEF SameTables
  <1>19. /\ DOMAIN g = Proc /\ IsThread(g[p]) /\ \A q \in Proc : q # p => g[q] = f[q]
         /\ f[p].pc \notin {"got", "set", "none", "up", "stopped"} /\ g[p].pc = "user"
         /\ Sound(n) /\ State(f, b, m) /\ p \in Proc
    BY <1>11, <1>12, <1>13
  <1>20. State(g, b, n)
    BY ONLY <1>14, <1>15, <1>16, <1>17, <1>18, <1>19, StepKeeps
  <1> QED
    BY <1>3, <1>20

\* down goes on with the permit it has taken.
LEMMA DownedKeeps ==
    ASSUME Inv, NEW p \in Proc, Downed(p)
    PROVE  Inv'
  <1>1. PICK f, b, m : f = th /\ b = booting /\ m = mem
    OBVIOUS
  <1>2. PICK k : k = [m EXCEPT !.permits[f[p].obj] = @ - 1]
    OBVIOUS
  <1>3. PICK n : n = DropPcb(Drop(k, f[p].obj), p)
    OBVIOUS
  <1>4. th' = [f EXCEPT ![p] = User] /\ booting' = b /\ Become(n)
    BY <1>1, <1>2, <1>3 DEF Downed, At, Goes
  <1>5. State(f, b, m) /\ f[p].pc \in {"down", "add"}
    BY <1>1 DEF Inv, Downed, At
  <1>6. /\ DOMAIN k = Fields /\ SameTables(m, k) /\ k.pcb = m.pcb /\ k.fut = m.fut
        /\ k.obj = m.obj /\ k.fs = m.fs /\ k.exited = m.exited
    BY <1>2, <1>5 DEF State, Sound, IsMem, Fields, SameTables
  <1>7. State([f EXCEPT ![p] = User], b, n)
    BY <1>3, <1>5, <1>6, ReleaseKeeps
  <1> QED
    BY <1>4, <1>7, Arrive DEF Inv

\* read moves the offset it has read from.
LEMMA AddKeeps ==
    ASSUME Inv, NEW p \in Proc, Add(p)
    PROVE  Inv'
  <1>1. PICK f, b, m : f = th /\ b = booting /\ m = mem
    OBVIOUS
  <1>2. PICK k : k = [m EXCEPT !.offset[f[p].obj] = (@ + f[p].val) % Word]
    OBVIOUS
  <1>3. PICK n : n = DropPcb(Drop(k, f[p].obj), p)
    OBVIOUS
  <1>4. th' = [f EXCEPT ![p] = User] /\ booting' = b /\ Become(n)
    BY <1>1, <1>2, <1>3 DEF Add, At, Goes
  <1>5. State(f, b, m) /\ f[p].pc \in {"down", "add"}
    BY <1>1 DEF Inv, Add, At
  <1>6. /\ DOMAIN k = Fields /\ SameTables(m, k) /\ k.pcb = m.pcb /\ k.fut = m.fut
        /\ k.obj = m.obj /\ k.fs = m.fs /\ k.exited = m.exited
    BY <1>2, <1>5 DEF State, Sound, IsMem, Fields, SameTables
  <1>7. State([f EXCEPT ![p] = User], b, n)
    BY <1>3, <1>5, <1>6, ReleaseKeeps
  <1> QED
    BY <1>4, <1>7, Arrive DEF Inv

\* A call that takes a reference to the PCB more.
LEMMA HoldKeeps ==
    ASSUME NEW f, NEW b, NEW m, State(f, b, m), NEW p \in Proc, f[p].pc \in {"user", "waited"},
           NEW g, DOMAIN g = Proc, \A q \in Proc : q # p => g[q] = f[q],
           IsThread(g[p]), g[p].pc \in {"wait", "exit"}, g[p].refs = f[p].refs + 1,
           g[p].pc = "wait" => m.pdt[p][g[p].slot] = g[p].obj,
           NEW n, n = Holding(m, p)
    PROVE  State(g, b, n)
  <1>1. m.pcb[p] >= 1 /\ Sound(m)
    BY Present, StateNumbers
  <1>2. /\ Sound(n) /\ SameTables(m, n)
        /\ n.pcb = [m.pcb EXCEPT ![p] = @ + 1]
        /\ n.fut = m.fut /\ n.obj = m.obj /\ n.fs = m.fs /\ n.exited = m.exited
        /\ \A q \in Proc : FutGap(n, q) = FutGap(m, q)
        /\ \A x \in Objects : ObjGap(n, x) = ObjGap(m, x)
        /\ FsGap(n) = FsGap(m)
    BY <1>1, HoldingCounts
  <1>3. IsThread(f[p]) /\ f[p].refs \in Nat
    BY DEF State, Threads, IsThread
  <1>4. /\ Weighs(g[p]) = f[p].refs + 2 /\ Weighs(f[p]) = f[p].refs + 1
        /\ \A x : /\ Bears(g[p], x) = 0 /\ Hands(g[p], x) = 0
                  /\ Bears(f[p], x) = 0 /\ Hands(f[p], x) = 0
    BY <1>3 DEF Weighs, Bears, Hands
  <1>5. \A q \in Proc :
            n.pcb[q] = m.pcb[q] + (IF q = p THEN Weighs(g[p]) - Weighs(f[p]) ELSE 0)
                                + Bears(g[p], q) - Bears(f[p], q)
    BY <1>2, <1>3, <1>4, StateNumbers
  <1>6. \A x \in Objects : ObjGap(n, x) = ObjGap(m, x) + Hands(g[p], x) - Hands(f[p], x)
    BY <1>2, <1>4, StateNumbers
  <1>7. /\ FsGap(n) >= FsGap(m) /\ \A q \in Proc : FutGap(n, q) = 0
        /\ Keeps(m, n)
    BY <1>2, StateNumbers DEF Keeps
  <1>8. /\ f[p].pc \notin {"got", "set", "none", "up", "stopped"}
        /\ g[p].pc \notin {"got", "set", "waited", "fork"}
        /\ g[p].pc = "wait" => n.pdt[p][g[p].slot] = g[p].obj
        /\ \A q \in Proc : q # p /\ f[q].pc # "none" => n.pdt[q] = m.pdt[q]
    BY <1>2 DEF SameTables
  <1>9. /\ State(f, b, m) /\ p \in Proc /\ DOMAIN g = Proc /\ IsThread(g[p])
        /\ \A q \in Proc : q # p => g[q] = f[q]
        /\ Sound(n)
    BY <1>2
  <1> QED
    BY ONLY <1>5, <1>6, <1>7, <1>8, <1>9, StepKeeps

\* wait for a child the process has.
LEMMA WaitKeeps ==
    ASSUME Inv, NEW p \in Proc, NEW i, Wait(p, i)
    PROVE  Inv'
  <1>1. PICK f, b, m : f = th /\ b = booting /\ m = mem
    OBVIOUS
  <1>2. PICK c : c = m.pdt[p][i]
    OBVIOUS
  <1>3. PICK n : n = Holding(m, p)
    OBVIOUS
  <1>4. PICK g : g = [f EXCEPT ![p] = Thread("wait", i, c, 0, 1)]
    OBVIOUS
  <1>5. th' = g /\ booting' = b /\ Become(n)
    <2>1. c = pdt[p][i]
      BY <1>1, <1>2 DEF mem
    <2> QED
      BY <1>1, <1>3, <1>4, <2>1 DEF Wait, Enters, Goes
  <1>6. State(f, b, m) /\ f[p].pc = "user" /\ DOMAIN f = Proc /\ f[p].refs = 0
    BY <1>1, Entered DEF Inv, Wait, Enters, State, Threads
  <1>7. i \in PdSlot /\ c \in Proc
    <2>1. i \in DOMAIN m.pdt[p] /\ c # Empty
      BY <1>1, <1>2 DEF Wait, InUse, mem
    <2>2. m.pdt[p] \in [PdSlot -> Proc \cup {Empty}]
      BY <1>6 DEF State, Sound, IsMem, Tables
    <2> QED
      BY <1>2, <2>1, <2>2
  <1>8. /\ DOMAIN g = Proc /\ \A q \in Proc : q # p => g[q] = f[q]
        /\ DOMAIN g[p] = {"pc", "slot", "obj", "val", "refs"}
        /\ g[p].pc = "wait" /\ g[p].slot = i /\ g[p].obj = c /\ g[p].refs = 1
    BY <1>4, <1>6, Threaded
  <1>9. IsThread(g[p]) /\ g[p].refs = f[p].refs + 1
    BY <1>6, <1>7, <1>8 DEF IsThread, Stages, Calling
  <1>10. State(g, b, n)
    BY <1>2, <1>3, <1>6, <1>8, <1>9, HoldKeeps
  <1> QED
    BY <1>5, <1>10, Arrive DEF Inv

\* The thread on its way out.
LEMMA ExitThread ==
    \A v : \A r \in {1, 2} :
        LET t == Thread("exit", 0, Empty, v, r)
        IN  IsThread(t) /\ t.pc = "exit" /\ t.refs = r
  BY DEF Thread, IsThread, Stages, Calling

\* exit and a fault take a reference to the PCB, which they will drop.
LEMMA LeaveKeeps ==
    ASSUME Inv, NEW p \in Proc, NEW v, th[p].pc = "user", UNCHANGED booting,
           Goes(p, Thread("exit", 0, Empty, v, 1)), Become(Holding(mem, p))
    PROVE  Inv'
  <1>1. PICK f, b, m : f = th /\ b = booting /\ m = mem
    OBVIOUS
  <1>2. PICK n : n = Holding(m, p)
    OBVIOUS
  <1>3. PICK g : g = [f EXCEPT ![p] = Thread("exit", 0, Empty, v, 1)]
    OBVIOUS
  <1>4. th' = g /\ booting' = b /\ Become(n)
    BY <1>1, <1>2, <1>3 DEF Goes
  <1>5. State(f, b, m) /\ f[p].pc = "user" /\ DOMAIN f = Proc /\ f[p].refs = 0
    BY <1>1, Entered DEF Inv, State, Threads
  <1>6. /\ DOMAIN g = Proc /\ \A q \in Proc : q # p => g[q] = f[q]
        /\ IsThread(g[p]) /\ g[p].pc = "exit" /\ g[p].refs = 1
    BY <1>3, <1>5, ExitThread
  <1>7. State(g, b, n)
    BY <1>2, <1>5, <1>6, HoldKeeps
  <1> QED
    BY <1>4, <1>7, Arrive DEF Inv

\* exit, of any status.
LEMMA ExitKeeps ==
    ASSUME Inv, NEW p \in Proc, NEW v, Exit(p, v)
    PROVE  Inv'
  BY LeaveKeeps DEF Exit, Enters

\* A fault in user mode ends the process.
LEMMA FaultKeeps ==
    ASSUME Inv, NEW p \in Proc, Fault(p)
    PROVE  Inv'
  BY LeaveKeeps DEF Fault, Enters

\* A fault at the place wait was to store to: wait's reference stays.
LEMMA FaultInWaitKeeps ==
    ASSUME Inv, NEW p \in Proc, FaultInWait(p)
    PROVE  Inv'
  <1>1. PICK f, b, m : f = th /\ b = booting /\ m = mem
    OBVIOUS
  <1>2. PICK n : n = Holding(m, p)
    OBVIOUS
  <1>3. PICK g : g = [f EXCEPT ![p] = Thread("exit", 0, Empty, -1, 2)]
    OBVIOUS
  <1>4. th' = g /\ booting' = b /\ Become(n)
    BY <1>1, <1>2, <1>3 DEF FaultInWait, At, Goes
  <1>5. State(f, b, m) /\ f[p].pc = "waited" /\ DOMAIN f = Proc /\ f[p].refs = 1
    BY <1>1 DEF Inv, FaultInWait, At, State, Threads, IsThread, Calling
  <1>6. /\ DOMAIN g = Proc /\ \A q \in Proc : q # p => g[q] = f[q]
        /\ IsThread(g[p]) /\ g[p].pc = "exit" /\ g[p].refs = 2
    BY <1>3, <1>5, ExitThread
  <1>7. State(g, b, n)
    BY <1>2, <1>5, <1>6, HoldKeeps
  <1> QED
    BY <1>4, <1>7, Arrive DEF Inv

\* A fault at the path open was given: open's references to the PCB and the file system stay.
LEMMA FaultInOpenKeeps ==
    ASSUME Inv, NEW p \in Proc, FaultInOpen(p)
    PROVE  Inv'
  <1>1. PICK f, b, m : f = th /\ b = booting /\ m = mem
    OBVIOUS
  <1>2. PICK k : k = Holding(m, p)
    OBVIOUS
  <1>3. PICK l : l = Holding(k, p)
    OBVIOUS
  <1>4. PICK n : n = ReferFs(l)
    OBVIOUS
  <1>5. PICK g : g = [f EXCEPT ![p] = Thread("exit", 0, Empty, -1, 2)]
    OBVIOUS
  <1>6. th' = g /\ booting' = b /\ Become(n)
    BY <1>1, <1>2, <1>3, <1>4, <1>5 DEF FaultInOpen, Enters, Goes
  <1>7. /\ State(f, b, m) /\ f[p].pc = "user" /\ DOMAIN f = Proc /\ f[p].refs = 0
        /\ m.pcb[p] >= 1 /\ m.pcb \in [Proc -> Nat] /\ Sound(m)
    <2>1. State(f, b, m) /\ f[p].pc = "user"
      BY <1>1 DEF Inv, FaultInOpen, Enters
    <2> QED
      BY <2>1, Entered, StateNumbers DEF State, Threads
  <1>8. /\ DOMAIN g = Proc /\ \A q \in Proc : q # p => g[q] = f[q]
        /\ IsThread(g[p]) /\ g[p].pc = "exit" /\ g[p].refs = 2
    BY <1>5, <1>7, ExitThread
  <1>9. /\ Sound(k) /\ SameTables(m, k)
        /\ k.pcb = [m.pcb EXCEPT ![p] = @ + 1] /\ k.exited = m.exited
        /\ \A q \in Proc : FutGap(k, q) = FutGap(m, q)
        /\ \A x \in Objects : ObjGap(k, x) = ObjGap(m, x)
        /\ FsGap(k) = FsGap(m)
    BY <1>2, <1>7, HoldingCounts
  <1>10. k.pcb[p] >= 1
    BY <1>7, <1>9
  <1>11. /\ Sound(l) /\ SameTables(k, l)
         /\ l.pcb = [k.pcb EXCEPT ![p] = @ + 1] /\ l.exited = k.exited
         /\ \A q \in Proc : FutGap(l, q) = FutGap(k, q)
         /\ \A x \in Objects : ObjGap(l, x) = ObjGap(k, x)
         /\ FsGap(l) = FsGap(k)
    <2>1. Sound(k) /\ p \in Proc /\ k.pcb[p] >= 1
      BY <1>9, <1>10
    <2> QED
      BY ONLY <1>3, <2>1, HoldingCounts
  <1>12. /\ DOMAIN n = Fields /\ SameTables(l, n) /\ n.pcb = l.pcb /\ n.fut = l.fut
         /\ n.obj = l.obj /\ n.fs = l.fs + 1 /\ n.exited = l.exited /\ l.fs \in Int
    BY <1>4, <1>11 DEF ReferFs, Sound, IsMem, Counters, Fields, SameTables
  <1>13. /\ Sound(n) /\ FsGap(n) = FsGap(l) + n.fs - l.fs
         /\ \A q \in Proc : FutGap(n, q) = FutGap(l, q)
         /\ \A o \in Objects : ObjGap(n, o) = ObjGap(l, o)
    BY <1>11, <1>12, PutFs
  <1>14. /\ FsGap(n) >= FsGap(m) /\ \A q \in Proc : FutGap(n, q) = 0
    BY <1>7, <1>9, <1>11, <1>12, <1>13, StateNumbers
  <1>15. /\ Weighs(g[p]) = 3 /\ Weighs(f[p]) = 1
         /\ \A x : /\ Bears(g[p], x) = 0 /\ Hands(g[p], x) = 0
                   /\ Bears(f[p], x) = 0 /\ Hands(f[p], x) = 0
    BY <1>7, <1>8 DEF Weighs, Bears, Hands
  <1>16. \A q \in Proc :
             n.pcb[q] = m.pcb[q] + (IF q = p THEN Weighs(g[p]) - Weighs(f[p]) ELSE 0)
                                 + Bears(g[p], q) - Bears(f[p], q)
    BY <1>7, <1>9, <1>11, <1>12, <1>15
  <1>17. \A x \in Objects : ObjGap(n, x) = ObjGap(m, x) + Hands(g[p], x) - Hands(f[p], x)
    BY <1>7, <1>9, <1>11, <1>13, <1>15, StateNumbers
  <1>18. Keeps(m, n) /\ SameTables(m, n)
    BY <1>9, <1>11, <1>12 DEF Keeps, SameTables
  <1>19. \A q \in Proc : q # p /\ f[q].pc # "none" => n.pdt[q] = m.pdt[q]
    BY <1>18 DEF SameTables
  <1>20. State(g, b, n)
    BY <1>7, <1>8, <1>13, <1>14, <1>16, <1>17, <1>18, <1>19, StepKeeps
  <1> QED
    BY <1>6, <1>20, Arrive DEF Inv

-----------------------------------------------------------------------------
(* The end of a thread, and its exit status.                                *)

\* A thread on its way out lets a reference to the PCB go.
LEMMA LetGoKeeps ==
    ASSUME NEW f, NEW b, NEW m, State(f, b, m), NEW p \in Proc, f[p].pc \in {"up", "stopped"},
           NEW g, DOMAIN g = Proc, \A q \in Proc : q # p => g[q] = f[q],
           IsThread(g[p]), g[p].pc \in {"stopped", "none"}, Weighs(g[p]) = Weighs(f[p]) - 1,
           NEW n, n = DropPcb(m, p)
    PROVE  State(g, b, n)
  <1>1. /\ m.pcb[p] >= 1 /\ Sound(m)
        /\ \A q \in Proc : FutGap(m, q) >= 0
        /\ \A o \in Objects : ObjGap(m, o) >= 0
    BY Present, StateNumbers
  <1>2. /\ Sound(n) /\ Keeps(m, n)
        /\ n.pcb = [m.pcb EXCEPT ![p] = @ - 1]
        /\ \A q \in Proc : n.pcb[q] >= 1 => n.pdt[q] = m.pdt[q]
        /\ \A q \in Proc : FutGap(n, q) = FutGap(m, q)
        /\ \A o \in Objects : ObjGap(n, o) = ObjGap(m, o)
        /\ FsGap(n) = FsGap(m)
    BY <1>1, DropPcbCounts
  <1>3. IsThread(f[p]) /\ Weighs(f[p]) \in Nat
    BY StageCounts DEF State, Threads
  <1>4. \A x : /\ Bears(g[p], x) = 0 /\ Hands(g[p], x) = 0
               /\ Bears(f[p], x) = 0 /\ Hands(f[p], x) = 0
    BY DEF Bears, Hands
  <1>5. \A q \in Proc :
            n.pcb[q] = m.pcb[q] + (IF q = p THEN Weighs(g[p]) - Weighs(f[p]) ELSE 0)
                                + Bears(g[p], q) - Bears(f[p], q)
    BY <1>2, <1>3, <1>4, StateNumbers
  <1>6. \A x \in Objects : ObjGap(n, x) = ObjGap(m, x) + Hands(g[p], x) - Hands(f[p], x)
    BY <1>2, <1>4, StateNumbers
  <1>7. FsGap(n) >= FsGap(m) /\ \A q \in Proc : FutGap(n, q) = 0
    BY <1>2, StateNumbers
  <1>8. \A q \in Proc : q # p /\ f[q].pc # "none" => n.pdt[q] = m.pdt[q]
    BY <1>2, Present, StateNumbers
  <1>9. /\ State(f, b, m) /\ p \in Proc /\ DOMAIN g = Proc /\ IsThread(g[p])
        /\ \A q \in Proc : q # p => g[q] = f[q]
        /\ Sound(n) /\ Keeps(m, n)
        /\ f[p].pc \notin {"got", "set"}
        /\ g[p].pc \in {"none", "up", "stopped"}
    BY <1>2
  <1> QED
    BY ONLY <1>5, <1>6, <1>7, <1>8, <1>9, StepKeeps

\* exit lets its PCB go by hand.
LEMMA StopKeeps ==
    ASSUME Inv, NEW p \in Proc, Stop(p)
    PROVE  Inv'
  <1>1. PICK f, b, m : f = th /\ b = booting /\ m = mem
    OBVIOUS
  <1>2. PICK n : n = DropPcb(m, p)
    OBVIOUS
  <1>3. PICK g : g = [f EXCEPT ![p] = Thread("stopped", 0, Empty, 0, f[p].refs - 1)]
    OBVIOUS
  <1>4. th' = g /\ booting' = b /\ Become(n)
    BY <1>1, <1>2, <1>3 DEF Stop, At, Goes
  <1>5. State(f, b, m) /\ f[p].pc = "up" /\ DOMAIN f = Proc /\ IsThread(f[p])
    BY <1>1 DEF Inv, Stop, At, State, Threads
  <1>6. f[p].refs \in Nat /\ f[p].refs >= 1
    BY <1>5 DEF IsThread
  <1>7. /\ DOMAIN g = Proc /\ \A q \in Proc : q # p => g[q] = f[q]
        /\ DOMAIN g[p] = {"pc", "slot", "obj", "val", "refs"}
        /\ g[p].pc = "stopped" /\ g[p].refs = f[p].refs - 1
    BY <1>3, <1>5, Threaded
  <1>8. IsThread(g[p]) /\ Weighs(g[p]) = Weighs(f[p]) - 1
    BY <1>5, <1>6, <1>7 DEF IsThread, Stages, Calling, Weighs
  <1>9. State(g, b, n)
    BY <1>2, <1>5, <1>7, <1>8, LetGoKeeps
  <1> QED
    BY <1>4, <1>9, Arrive DEF Inv

\* The thread is deleted, and its reference dropped.
LEMMA ReapKeeps ==
    ASSUME Inv, NEW p \in Proc, Reap(p)
    PROVE  Inv'
  <1>1. PICK f, b, m : f = th /\ b = booting /\ m = mem
    OBVIOUS
  <1>2. PICK n : n = DropPcb(m, p)
    OBVIOUS
  <1>3. PICK g : g = [f EXCEPT ![p] = [None EXCEPT !.refs = f[p].refs]]
    OBVIOUS
  <1>4. th' = g /\ booting' = b /\ Become(n)
    BY <1>1, <1>2, <1>3 DEF Reap, At, Goes
  <1>5. State(f, b, m) /\ f[p].pc = "stopped" /\ DOMAIN f = Proc /\ IsThread(f[p])
    BY <1>1 DEF Inv, Reap, At, State, Threads
  <1>6. /\ DOMAIN g = Proc /\ \A q \in Proc : q # p => g[q] = f[q]
        /\ DOMAIN g[p] = {"pc", "slot", "obj", "val", "refs"}
        /\ g[p].pc = "none" /\ g[p].refs = f[p].refs
    BY <1>3, <1>5 DEF None, Thread
  <1>7. IsThread(g[p]) /\ Weighs(g[p]) = Weighs(f[p]) - 1
    BY <1>5, <1>6 DEF IsThread, Stages, Calling, Weighs
  <1>8. State(g, b, n)
    BY <1>2, <1>5, <1>6, <1>7, LetGoKeeps
  <1> QED
    BY <1>4, <1>8, Arrive DEF Inv

\* A step of the exit status: it changes no count.
LEMMA StatusCounts ==
    ASSUME NEW f, NEW b, NEW m, State(f, b, m), NEW p \in Proc,
           f[p].pc \notin {"none", "fork", "down", "read", "add"},
           NEW g, DOMAIN g = Proc, \A q \in Proc : q # p => g[q] = f[q],
           IsThread(g[p]), g[p].pc \notin {"none", "fork", "down", "read", "add"},
           g[p].refs = f[p].refs,
           g[p].pc \in {"wait", "got", "waited"} => m.pdt[p][g[p].slot] = g[p].obj,
           NEW n, DOMAIN n = Fields, SameTables(m, n), n.pcb = m.pcb, n.fut = m.fut,
           n.obj = m.obj, n.fs = m.fs, Futures(n),
           \A q \in Proc : n.exited[q] = m.exited[q] \/ m.fut[q] >= 1,
           Answered(g, n)
    PROVE  State(g, b, n)
  <1>1. Sound(m) /\ IsThread(f[p])
    BY StateNumbers DEF State, Threads
  <1>2. /\ Sound(n) /\ FsGap(n) = FsGap(m)
        /\ \A q \in Proc : FutGap(n, q) = FutGap(m, q)
        /\ \A o \in Objects : ObjGap(n, o) = ObjGap(m, o)
    BY <1>1, PutStatus
  <1>3. /\ Weighs(g[p]) = Weighs(f[p]) /\ Weighs(f[p]) \in Nat
        /\ \A x : /\ Bears(g[p], x) = 0 /\ Hands(g[p], x) = 0
                  /\ Bears(f[p], x) = 0 /\ Hands(f[p], x) = 0
    BY <1>1 DEF Weighs, Bears, Hands, IsThread
  <1>4. \A q \in Proc :
            n.pcb[q] = m.pcb[q] + (IF q = p THEN Weighs(g[p]) - Weighs(f[p]) ELSE 0)
                                + Bears(g[p], q) - Bears(f[p], q)
    BY <1>3, StateNumbers
  <1>5. \A x \in Objects : ObjGap(n, x) = ObjGap(m, x) + Hands(g[p], x) - Hands(f[p], x)
    BY <1>2, <1>3, StateNumbers
  <1>6. FsGap(n) >= FsGap(m) /\ \A q \in Proc : FutGap(n, q) = 0
    BY <1>2, StateNumbers
  <1>7. /\ State(f, b, m) /\ p \in Proc /\ DOMAIN g = Proc /\ IsThread(g[p])
        /\ \A q \in Proc : q # p => g[q] = f[q]
        /\ Sound(n)
    BY <1>2
  <1>8. Threads(g) /\ Counted(g, b, n)
    BY ONLY <1>4, <1>5, <1>6, <1>7, StepCounts
  <1>9. Slotted(g, n)
    BY <1>7, StepSlots DEF SameTables
  <1> QED
    BY <1>2, <1>8, <1>9 DEF State

\* wait takes the permit of a status that is there.
LEMMA GetKeeps ==
    ASSUME Inv, NEW p \in Proc, Get(p)
    PROVE  Inv'
  <1>1. PICK f, b, m : f = th /\ b = booting /\ m = mem
    OBVIOUS
  <1>2. PICK c : c = f[p].obj
    OBVIOUS
  <1>3. PICK n : n = [m EXCEPT !.exited[c].permits = @ - 1]
    OBVIOUS
  <1>4. PICK g : g = [f EXCEPT ![p] = [f[p] EXCEPT !.pc = "got"]]
    OBVIOUS
  <1>5. th' = g /\ booting' = b /\ Become(n)
    BY <1>1, <1>2, <1>3, <1>4 DEF Get, At, Goes
  <1>6. /\ State(f, b, m) /\ f[p].pc = "wait" /\ DOMAIN f = Proc /\ IsThread(f[p])
        /\ m.exited[c].permits > 0
    BY <1>1, <1>2 DEF Inv, Get, At, State, Threads, mem
  <1>7. c \in Proc /\ m.fut[c] >= 1 /\ m.pdt[p][f[p].slot] = c
    BY <1>2, <1>6, Awaited DEF State, Slotted
  <1>8. /\ DOMAIN g = Proc /\ \A q \in Proc : q # p => g[q] = f[q]
        /\ DOMAIN g[p] = {"pc", "slot", "obj", "val", "refs"}
        /\ g[p].pc = "got" /\ g[p].slot = f[p].slot /\ g[p].obj = c /\ g[p].refs = f[p].refs
    BY <1>2, <1>4, <1>6 DEF IsThread
  <1>9. IsThread(g[p])
    BY <1>2, <1>6, <1>8 DEF IsThread, Stages, Calling
  <1>10. /\ DOMAIN m = Fields /\ DOMAIN m.exited = Proc /\ \A q \in Proc : IsFuture(m.exited[q])
    BY <1>6 DEF State, Sound, IsMem, Futures
  <1>11. /\ DOMAIN n = Fields /\ SameTables(m, n) /\ n.pcb = m.pcb /\ n.fut = m.fut
         /\ n.obj = m.obj /\ n.fs = m.fs
         /\ n.exited = [m.exited EXCEPT ![c].permits = @ - 1]
    BY <1>3, <1>10 DEF Fields, SameTables
  <1>12. /\ DOMAIN n.exited = Proc /\ \A q \in Proc : q # c => n.exited[q] = m.exited[q]
         /\ DOMAIN n.exited[c] = {"set", "value", "permits"}
         /\ n.exited[c].set = m.exited[c].set /\ n.exited[c].value = m.exited[c].value
         /\ n.exited[c].permits = m.exited[c].permits - 1
    BY <1>7, <1>10, <1>11 DEF IsFuture
  <1>13. Futures(n)
    BY <1>6, <1>7, <1>10, <1>12 DEF Futures, IsFuture
  <1>14. Answered(g, n)
    <2>1. /\ m.exited[c].set /\ f[c].pc # "set" /\ m.exited[c].permits \in Nat
          /\ m.exited[c].permits + Cardinality(Asking(f, c)) = 1
      BY <1>6, <1>7, <1>10 DEF State, Answered, IsFuture
    <2>2. /\ p \in Proc /\ c \in Proc /\ \A q \in Proc : q # p => g[q] = f[q]
      BY <1>7, <1>8
    <2>3. Cardinality(Asking(g, c)) = Cardinality(Asking(f, c)) + 1
      <3>1. Asks(f[p], c) = 0 /\ Asks(g[p], c) = 1
        BY <1>6, <1>8 DEF Asks
      <3>2. Cardinality(Asking(g, c)) = Cardinality(Asking(f, c)) - Asks(f[p], c) + Asks(g[p], c)
        BY ONLY <2>2, AskingChange
      <3> QED
        BY <3>1, <3>2, ThreadNumbers
    <2>4. \A q \in Proc : q # c => Asking(g, q) = Asking(f, q)
      BY <1>6, <1>8 DEF Asking
    <2> SUFFICES ASSUME NEW q \in Proc
                 PROVE  /\ n.exited[q].set => g[q].pc \in {"none", "set", "up", "stopped"}
                        /\ g[q].pc = "set" => n.exited[q].set
                        /\ IF n.exited[q].set /\ g[q].pc # "set"
                           THEN n.exited[q].permits + Cardinality(Asking(g, q)) = 1
                           ELSE n.exited[q].permits = 0 /\ Asking(g, q) = {}
                        /\ g[q].pc = "waited" => /\ n.exited[g[q].obj].set
                                                 /\ g[q].val = n.exited[g[q].obj].value
      BY DEF Answered
    <2>5. /\ n.exited[q].set = m.exited[q].set /\ n.exited[q].value = m.exited[q].value
      BY <1>12
    <2>6. /\ n.exited[q].set => g[q].pc \in {"none", "set", "up", "stopped"}
          /\ g[q].pc = "set" => n.exited[q].set
      BY <1>6, <1>8, <2>5 DEF State, Answered
    <2>7. g[q].pc = "waited" => /\ n.exited[g[q].obj].set
                                /\ g[q].val = n.exited[g[q].obj].value
      <3> HAVE g[q].pc = "waited"
      <3>1. g[q] = f[q] /\ f[q].obj \in Proc
        BY <1>6, <1>8 DEF State, Threads, IsThread
      <3> QED
        BY <1>6, <1>12, <3>1 DEF State, Answered
    <2>8. IF n.exited[q].set /\ g[q].pc # "set"
          THEN n.exited[q].permits + Cardinality(Asking(g, q)) = 1
          ELSE n.exited[q].permits = 0 /\ Asking(g, q) = {}
      <3>1. CASE q = c
        <4>1. g[c].pc # "set"
          BY <1>7, <1>8, <2>1
        <4> QED
          <5>1. n.exited[c].permits = m.exited[c].permits - 1 /\ n.exited[c].set
            BY <1>12, <2>1
          <5>2. Cardinality(Asking(f, c)) \in Nat
            BY ThreadNumbers
          <5>3. n.exited[c].permits + Cardinality(Asking(g, c)) = 1
            BY <2>1, <2>3, <5>1, <5>2
          <5> QED
            BY <3>1, <4>1, <5>1, <5>3
      <3>2. CASE q # c
        <4>1. g[q].pc = "set" <=> f[q].pc = "set"
          BY <1>6, <1>8
        <4> QED
          BY <1>6, <1>12, <2>4, <3>2, <4>1 DEF State, Answered
      <3> QED
        BY <3>1, <3>2
    <2> QED
      BY <2>6, <2>7, <2>8
  <1>15. \A q \in Proc : n.exited[q] = m.exited[q] \/ m.fut[q] >= 1
    BY <1>7, <1>12
  <1>16. /\ p \in Proc /\ f[p].pc \notin {"none", "fork", "down", "read", "add"}
         /\ g[p].pc \notin {"none", "fork", "down", "read", "add"}
         /\ m.pdt[p][g[p].slot] = g[p].obj /\ g[p].refs = f[p].refs
         /\ State(f, b, m) /\ DOMAIN g = Proc /\ \A q \in Proc : q # p => g[q] = f[q]
         /\ DOMAIN n = Fields /\ SameTables(m, n) /\ n.pcb = m.pcb /\ n.fut = m.fut
         /\ n.obj = m.obj /\ n.fs = m.fs
    BY <1>6, <1>7, <1>8, <1>11
  <1>17. State(g, b, n)
    BY ONLY <1>9, <1>13, <1>14, <1>15, <1>16, StatusCounts
  <1> QED
    BY <1>5, <1>17, Arrive DEF Inv

\* wait gives the permit back, and has the status.
LEMMA GiveBackKeeps ==
    ASSUME Inv, NEW p \in Proc, GiveBack(p)
    PROVE  Inv'
  <1>1. PICK f, b, m : f = th /\ b = booting /\ m = mem
    OBVIOUS
  <1>2. PICK c : c = f[p].obj
    OBVIOUS
  <1>3. PICK n : n = [m EXCEPT !.exited[c].permits = @ + 1]
    OBVIOUS
  <1>4. PICK g : g = [f EXCEPT ![p] = [f[p] EXCEPT !.pc = "waited", !.val = m.exited[c].value]]
    OBVIOUS
  <1>5. th' = g /\ booting' = b /\ Become(n)
    <2>1. m.exited = exited
      BY <1>1 DEF mem
    <2> QED
      BY <1>1, <1>2, <1>3, <1>4, <2>1 DEF GiveBack, At, Goes
  <1>6. State(f, b, m) /\ f[p].pc = "got" /\ DOMAIN f = Proc /\ IsThread(f[p])
    BY <1>1 DEF Inv, GiveBack, At, State, Threads
  <1>7. c \in Proc /\ m.fut[c] >= 1 /\ m.pdt[p][f[p].slot] = c
    BY <1>2, <1>6, Awaited DEF State, Slotted
  <1>8. /\ DOMAIN g = Proc /\ \A q \in Proc : q # p => g[q] = f[q]
        /\ DOMAIN g[p] = {"pc", "slot", "obj", "val", "refs"}
        /\ g[p].pc = "waited" /\ g[p].slot = f[p].slot /\ g[p].obj = c /\ g[p].refs = f[p].refs
        /\ g[p].val = m.exited[c].value
    BY <1>2, <1>4, <1>6 DEF IsThread
  <1>9. IsThread(g[p])
    BY <1>2, <1>6, <1>8 DEF IsThread, Stages, Calling
  <1>10. /\ DOMAIN m = Fields /\ DOMAIN m.exited = Proc /\ \A q \in Proc : IsFuture(m.exited[q])
    BY <1>6 DEF State, Sound, IsMem, Futures
  <1>11. /\ DOMAIN n = Fields /\ SameTables(m, n) /\ n.pcb = m.pcb /\ n.fut = m.fut
         /\ n.obj = m.obj /\ n.fs = m.fs
         /\ n.exited = [m.exited EXCEPT ![c].permits = @ + 1]
    BY <1>3, <1>10 DEF Fields, SameTables
  <1>12. /\ DOMAIN n.exited = Proc /\ \A q \in Proc : q # c => n.exited[q] = m.exited[q]
         /\ DOMAIN n.exited[c] = {"set", "value", "permits"}
         /\ n.exited[c].set = m.exited[c].set /\ n.exited[c].value = m.exited[c].value
         /\ n.exited[c].permits = m.exited[c].permits + 1
    BY <1>7, <1>10, <1>11 DEF IsFuture
  <1>13. Futures(n)
    BY <1>7, <1>10, <1>12 DEF Futures, IsFuture
  <1>14. Answered(g, n)
    <2>1. /\ m.exited[c].set /\ f[c].pc # "set" /\ m.exited[c].permits \in Nat
          /\ m.exited[c].permits + Cardinality(Asking(f, c)) = 1
      <3>1. p \in Asking(f, c)
        BY <1>2, <1>6 DEF Asking
      <3> QED
        BY <1>6, <1>7, <1>10, <3>1 DEF State, Answered, IsFuture
    <2>2. /\ p \in Proc /\ c \in Proc /\ \A q \in Proc : q # p => g[q] = f[q]
      BY <1>7, <1>8
    <2>3. Cardinality(Asking(g, c)) = Cardinality(Asking(f, c)) - 1
      <3>1. Asks(f[p], c) = 1 /\ Asks(g[p], c) = 0
        BY <1>2, <1>6, <1>8 DEF Asks
      <3>2. Cardinality(Asking(g, c)) = Cardinality(Asking(f, c)) - Asks(f[p], c) + Asks(g[p], c)
        BY ONLY <2>2, AskingChange
      <3> QED
        BY <3>1, <3>2, ThreadNumbers
    <2>4. \A q \in Proc : q # c => Asking(g, q) = Asking(f, q)
      BY <1>2, <1>6, <1>8 DEF Asking
    <2> SUFFICES ASSUME NEW q \in Proc
                 PROVE  /\ n.exited[q].set => g[q].pc \in {"none", "set", "up", "stopped"}
                        /\ g[q].pc = "set" => n.exited[q].set
                        /\ IF n.exited[q].set /\ g[q].pc # "set"
                           THEN n.exited[q].permits + Cardinality(Asking(g, q)) = 1
                           ELSE n.exited[q].permits = 0 /\ Asking(g, q) = {}
                        /\ g[q].pc = "waited" => /\ n.exited[g[q].obj].set
                                                 /\ g[q].val = n.exited[g[q].obj].value
      BY DEF Answered
    <2>5. /\ n.exited[q].set = m.exited[q].set /\ n.exited[q].value = m.exited[q].value
      BY <1>12
    <2>6. /\ n.exited[q].set => g[q].pc \in {"none", "set", "up", "stopped"}
          /\ g[q].pc = "set" => n.exited[q].set
      BY <1>6, <1>8, <2>5 DEF State, Answered
    <2>7. g[q].pc = "waited" => /\ n.exited[g[q].obj].set
                                /\ g[q].val = n.exited[g[q].obj].value
      <3> HAVE g[q].pc = "waited"
      <3>1. CASE q = p
        BY <1>8, <1>12, <2>1, <3>1
      <3>2. CASE q # p
        <4>1. g[q] = f[q] /\ f[q].obj \in Proc
          BY <1>6, <1>8, <3>2 DEF State, Threads, IsThread
        <4> QED
          BY <1>6, <1>12, <4>1 DEF State, Answered
      <3> QED
        BY <3>1, <3>2
    <2>8. IF n.exited[q].set /\ g[q].pc # "set"
          THEN n.exited[q].permits + Cardinality(Asking(g, q)) = 1
          ELSE n.exited[q].permits = 0 /\ Asking(g, q) = {}
      <3>1. CASE q = c
        <4>1. g[c].pc # "set"
          BY <1>7, <1>8, <2>1
        <4>2. n.exited[c].permits = m.exited[c].permits + 1 /\ n.exited[c].set
          BY <1>12, <2>1
        <4>3. Cardinality(Asking(f, c)) \in Nat
          BY ThreadNumbers
        <4>4. n.exited[c].permits + Cardinality(Asking(g, c)) = 1
          BY <2>1, <2>3, <4>2, <4>3
        <4> QED
          BY <3>1, <4>1, <4>2, <4>4
      <3>2. CASE q # c
        <4>1. g[q].pc = "set" <=> f[q].pc = "set"
          BY <1>6, <1>8
        <4> QED
          BY <1>6, <1>12, <2>4, <3>2, <4>1 DEF State, Answered
      <3> QED
        BY <3>1, <3>2
    <2> QED
      BY <2>6, <2>7, <2>8
  <1>15. \A q \in Proc : n.exited[q] = m.exited[q] \/ m.fut[q] >= 1
    BY <1>7, <1>12
  <1>16. /\ p \in Proc /\ f[p].pc \notin {"none", "fork", "down", "read", "add"}
         /\ g[p].pc \notin {"none", "fork", "down", "read", "add"}
         /\ m.pdt[p][g[p].slot] = g[p].obj /\ g[p].refs = f[p].refs
         /\ State(f, b, m) /\ DOMAIN g = Proc /\ \A q \in Proc : q # p => g[q] = f[q]
         /\ DOMAIN n = Fields /\ SameTables(m, n) /\ n.pcb = m.pcb /\ n.fut = m.fut
         /\ n.obj = m.obj /\ n.fs = m.fs
    BY <1>6, <1>7, <1>8, <1>11
  <1>17. State(g, b, n)
    BY ONLY <1>9, <1>13, <1>14, <1>15, <1>16, StatusCounts
  <1> QED
    BY <1>5, <1>17, Arrive DEF Inv

\* The thread of a process on its way out goes on, with its own status e as it is then.
LEMMA TellKeeps ==
    ASSUME NEW f, NEW b, NEW m, State(f, b, m), NEW p \in Proc,
           NEW g, DOMAIN g = Proc, \A q \in Proc : q # p => g[q] = f[q],
           DOMAIN g[p] = {"pc", "slot", "obj", "val", "refs"}, g[p].refs = f[p].refs,
           NEW n, DOMAIN n = Fields, SameTables(m, n), n.pcb = m.pcb, n.fut = m.fut,
           n.obj = m.obj, n.fs = m.fs, Futures(n),
           \A q \in Proc : q # p => n.exited[q] = m.exited[q],
           n.exited[p].set,
           \/ f[p].pc = "exit" /\ g[p].pc = "set" /\ n.exited[p].permits = m.exited[p].permits
           \/ /\ f[p].pc = "set" /\ g[p].pc = "up"
              /\ n.exited[p].permits = m.exited[p].permits + 1
              /\ n.exited[p].value = m.exited[p].value
    PROVE  State(g, b, n)
  <1>1. IsThread(f[p]) /\ f[p].pc \in {"exit", "set"} /\ m.fut[p] >= 1
    BY Present DEF State, Threads
  <1>2. IsThread(g[p]) /\ g[p].pc \in {"set", "up"}
    BY <1>1 DEF IsThread, Stages, Calling
  <1>3. \A q \in Proc : Asking(g, q) = Asking(f, q)
    BY <1>1, <1>2 DEF Asking
  <1>4. m.exited[p].permits = 0 /\ Asking(f, p) = {} /\ (m.exited[p].set <=> f[p].pc = "set")
    BY <1>1 DEF State, Answered
  <1>5. Cardinality(Asking(g, p)) = 0
    BY <1>3, <1>4, ThreadNumbers
  <1>6. Answered(g, n)
    <2> SUFFICES ASSUME NEW q \in Proc
                 PROVE  /\ n.exited[q].set => g[q].pc \in {"none", "set", "up", "stopped"}
                        /\ g[q].pc = "set" => n.exited[q].set
                        /\ IF n.exited[q].set /\ g[q].pc # "set"
                           THEN n.exited[q].permits + Cardinality(Asking(g, q)) = 1
                           ELSE n.exited[q].permits = 0 /\ Asking(g, q) = {}
                        /\ g[q].pc = "waited" => /\ n.exited[g[q].obj].set
                                                 /\ g[q].val = n.exited[g[q].obj].value
      BY DEF Answered
    <2>1. /\ n.exited[q].set => g[q].pc \in {"none", "set", "up", "stopped"}
          /\ g[q].pc = "set" => n.exited[q].set
      BY <1>2 DEF State, Answered
    <2>2. IF n.exited[q].set /\ g[q].pc # "set"
          THEN n.exited[q].permits + Cardinality(Asking(g, q)) = 1
          ELSE n.exited[q].permits = 0 /\ Asking(g, q) = {}
      <3>1. CASE q = p
        BY <1>2, <1>3, <1>4, <1>5, <3>1
      <3>2. CASE q # p
        <4>1. n.exited[q] = m.exited[q] /\ g[q] = f[q] /\ Asking(g, q) = Asking(f, q)
          BY <1>3, <3>2
        <4> QED
          BY <4>1 DEF State, Answered
      <3> QED
        BY <3>1, <3>2
    <2>3. g[q].pc = "waited" => /\ n.exited[g[q].obj].set
                                /\ g[q].val = n.exited[g[q].obj].value
      <3> HAVE g[q].pc = "waited"
      <3>1. g[q] = f[q] /\ f[q].obj \in Proc
        BY <1>2 DEF State, Threads, IsThread
      <3>2. m.exited[f[q].obj].set /\ f[q].val = m.exited[f[q].obj].value
        BY <3>1 DEF State, Answered
      <3> QED
        BY <1>4, <3>1, <3>2
    <2> QED
      BY <2>1, <2>2, <2>3
  <1>7. /\ f[p].pc \notin {"none", "fork", "down", "read", "add"}
        /\ g[p].pc \notin {"none", "fork", "down", "read", "add", "wait", "got", "waited"}
        /\ \A q \in Proc : n.exited[q] = m.exited[q] \/ m.fut[q] >= 1
    BY <1>1, <1>2
  <1> QED
    BY <1>2, <1>6, <1>7, StatusCounts

\* Future::set stores the status, which nobody may take yet.
LEMMA SetValueKeeps ==
    ASSUME Inv, NEW p \in Proc, SetValue(p)
    PROVE  Inv'
  <1>1. PICK f, b, m : f = th /\ b = booting /\ m = mem
    OBVIOUS
  <1>2. PICK n : n = [m EXCEPT !.exited[p].value = f[p].val, !.exited[p].set = TRUE]
    OBVIOUS
  <1>3. PICK g : g = [f EXCEPT ![p] = [f[p] EXCEPT !.pc = "set"]]
    OBVIOUS
  <1>4. th' = g /\ booting' = b /\ Become(n)
    BY <1>1, <1>2, <1>3 DEF SetValue, At, Goes
  <1>5. State(f, b, m) /\ f[p].pc = "exit" /\ DOMAIN f = Proc /\ IsThread(f[p])
    BY <1>1 DEF Inv, SetValue, At, State, Threads
  <1>6. /\ DOMAIN g = Proc /\ \A q \in Proc : q # p => g[q] = f[q]
        /\ DOMAIN g[p] = {"pc", "slot", "obj", "val", "refs"}
        /\ g[p].pc = "set" /\ g[p].refs = f[p].refs
    BY <1>3, <1>5 DEF IsThread
  <1>7. /\ DOMAIN m = Fields /\ DOMAIN m.exited = Proc /\ \A q \in Proc : IsFuture(m.exited[q])
    BY <1>5 DEF State, Sound, IsMem, Futures
  <1>8. /\ DOMAIN n = Fields /\ SameTables(m, n) /\ n.pcb = m.pcb /\ n.fut = m.fut
        /\ n.obj = m.obj /\ n.fs = m.fs
        /\ n.exited = [m.exited EXCEPT ![p].value = f[p].val, ![p].set = TRUE]
    BY <1>2, <1>7 DEF Fields, SameTables
  <1>9. /\ DOMAIN n.exited = Proc /\ \A q \in Proc : q # p => n.exited[q] = m.exited[q]
        /\ DOMAIN n.exited[p] = {"set", "value", "permits"}
        /\ n.exited[p].set = TRUE /\ n.exited[p].permits = m.exited[p].permits
    BY <1>7, <1>8 DEF IsFuture
  <1>10. Futures(n)
    BY <1>7, <1>9 DEF Futures, IsFuture
  <1>11. State(g, b, n)
    BY <1>5, <1>6, <1>8, <1>9, <1>10, TellKeeps
  <1> QED
    BY <1>4, <1>11, Arrive DEF Inv

\* Future::set gives the permit.
LEMMA SetUpKeeps ==
    ASSUME Inv, NEW p \in Proc, SetUp(p)
    PROVE  Inv'
  <1>1. PICK f, b, m : f = th /\ b = booting /\ m = mem
    OBVIOUS
  <1>2. PICK n : n = [m EXCEPT !.exited[p].permits = @ + 1]
    OBVIOUS
  <1>3. PICK g : g = [f EXCEPT ![p] = [f[p] EXCEPT !.pc = "up"]]
    OBVIOUS
  <1>4. th' = g /\ booting' = b /\ Become(n)
    BY <1>1, <1>2, <1>3 DEF SetUp, At, Goes
  <1>5. State(f, b, m) /\ f[p].pc = "set" /\ DOMAIN f = Proc /\ IsThread(f[p])
    BY <1>1 DEF Inv, SetUp, At, State, Threads
  <1>6. /\ DOMAIN g = Proc /\ \A q \in Proc : q # p => g[q] = f[q]
        /\ DOMAIN g[p] = {"pc", "slot", "obj", "val", "refs"}
        /\ g[p].pc = "up" /\ g[p].refs = f[p].refs
    BY <1>3, <1>5 DEF IsThread
  <1>7. /\ DOMAIN m = Fields /\ DOMAIN m.exited = Proc /\ \A q \in Proc : IsFuture(m.exited[q])
        /\ m.exited[p].set
    BY <1>5 DEF State, Sound, IsMem, Futures, Answered
  <1>8. /\ DOMAIN n = Fields /\ SameTables(m, n) /\ n.pcb = m.pcb /\ n.fut = m.fut
        /\ n.obj = m.obj /\ n.fs = m.fs
        /\ n.exited = [m.exited EXCEPT ![p].permits = @ + 1]
    BY <1>2, <1>7 DEF Fields, SameTables
  <1>9. /\ DOMAIN n.exited = Proc /\ \A q \in Proc : q # p => n.exited[q] = m.exited[q]
        /\ DOMAIN n.exited[p] = {"set", "value", "permits"}
        /\ n.exited[p].set = m.exited[p].set /\ n.exited[p].set
        /\ n.exited[p].permits = m.exited[p].permits + 1
        /\ n.exited[p].value = m.exited[p].value
    <2>1. n.exited[p] = [m.exited[p] EXCEPT !.permits = @ + 1]
      BY <1>7, <1>8
    <2>2. DOMAIN m.exited[p] = {"set", "value", "permits"}
      BY <1>7 DEF IsFuture
    <2> QED
      BY ONLY p \in Proc, <1>7, <1>8, <2>1, <2>2
  <1>10. Futures(n)
    <2>1. IsFuture(n.exited[p])
      <3>1. m.exited[p].set \in BOOLEAN /\ m.exited[p].permits \in Nat
        BY <1>7 DEF IsFuture
      <3> QED
        BY <1>9, <3>1 DEF IsFuture
    <2> QED
      BY <1>7, <1>9, <2>1 DEF Futures
  <1>11. State(g, b, n)
    BY <1>5, <1>6, <1>8, <1>9, <1>10, TellKeeps
  <1> QED
    BY <1>4, <1>11, Arrive DEF Inv

-----------------------------------------------------------------------------
(* fork and the end of wait.                                                *)

\* The descriptor wait was given is closed, and its references dropped.
LEMMA WaitedKeeps ==
    ASSUME Inv, NEW p \in Proc, Waited(p)
    PROVE  Inv'
  <1>1. PICK f, b, m : f = th /\ b = booting /\ m = mem
    OBVIOUS
  <1>2. PICK c, i : c = f[p].obj /\ i = f[p].slot
    OBVIOUS
  <1>3. PICK k : k = [m EXCEPT !.pdt[p][i] = Empty]
    OBVIOUS
  <1>4. PICK l : l = DropFuture(k, c)
    OBVIOUS
  <1>5. PICK n : n = DropPcb(l, p)
    OBVIOUS
  <1>6. PICK g : g = [f EXCEPT ![p] = User]
    OBVIOUS
  <1>7. th' = g /\ booting' = b /\ Become(n)
    BY <1>1, <1>2, <1>3, <1>4, <1>5, <1>6 DEF Waited, At, Goes
  <1>8. State(f, b, m) /\ f[p].pc = "waited" /\ DOMAIN f = Proc /\ IsThread(f[p])
    BY <1>1 DEF Inv, Waited, At, State, Threads
  <1>9. c \in Proc /\ i \in PdSlot /\ m.pdt[p][i] = c /\ f[p].refs = 1
    BY <1>2, <1>8 DEF IsThread, Calling, State, Slotted
  <1>10. m.pcb[p] >= 2 /\ m.pcb[p] >= 1 /\ Sound(m)
    BY <1>8, <1>9, Present, StateNumbers
  <1>11. /\ DOMAIN k = Fields /\ k.pdt = [m.pdt EXCEPT ![p][i] = Empty]
         /\ k.fdt = m.fdt /\ k.sdt = m.sdt
         /\ k.pcb = m.pcb /\ k.fut = m.fut /\ k.obj = m.obj /\ k.fs = m.fs /\ k.exited = m.exited
    BY <1>3, <1>10 DEF Sound, IsMem, Fields
  <1>12. /\ Sound(k) /\ FsGap(k) = FsGap(m)
         /\ \A q \in Proc : FutGap(k, q) = FutGap(m, q) + (IF m.pdt[p][i] = q THEN 1 ELSE 0)
                                                        - (IF Empty = q THEN 1 ELSE 0)
         /\ \A y \in Objects : ObjGap(k, y) = ObjGap(m, y)
    <2>1. Empty \in Proc \cup {Empty}
      OBVIOUS
    <2> QED
      BY <1>9, <1>10, <1>11, <2>1, PutPd
  <1>13. \A q \in Proc : FutGap(k, q) = IF q = c THEN 1 ELSE 0
    <2> TAKE q \in Proc
    <2>1. FutGap(m, q) = 0 /\ Empty # q
      BY <1>8, Constants, StateNumbers
    <2> QED
      BY <1>9, <1>12, <2>1
  <1>14. k.fut[c] >= 1
    BY <1>9, <1>12, <1>13, Backed
  <1>15. /\ Sound(l) /\ SameTables(k, l) /\ Keeps(k, l)
         /\ l.pcb = k.pcb /\ l.obj = k.obj /\ l.fs = k.fs
         /\ \A q \in Proc : FutGap(l, q) = FutGap(k, q) - IF q = c THEN 1 ELSE 0
    BY <1>4, <1>9, <1>12, <1>14, DropFutureCounts
  <1>16. \A q \in Proc : FutGap(l, q) = 0
    BY <1>13, <1>15
  <1>17. FsGap(l) = FsGap(m) /\ \A y \in Objects : ObjGap(l, y) = ObjGap(m, y)
    <2>1. FsGap(l) = FsGap(k) /\ \A y \in Objects : ObjGap(l, y) = ObjGap(k, y)
      BY <1>15 DEF FsGap, ObjGap, SameTables
    <2> QED
      BY <1>12, <2>1
  <1>18. /\ l.pcb[p] >= 1
         /\ \A q \in Proc : FutGap(l, q) >= 0
         /\ \A y \in Objects : ObjGap(l, y) >= 0
    BY <1>8, <1>10, <1>11, <1>15, <1>16, <1>17, StateNumbers
  <1>19. /\ Sound(n) /\ Keeps(l, n) /\ Fewer(l, n)
         /\ n.pcb = [l.pcb EXCEPT ![p] = @ - 1]
         /\ \A q \in Proc : n.pcb[q] >= 1 => n.pdt[q] = l.pdt[q]
         /\ \A q \in Proc : FutGap(n, q) = FutGap(l, q)
         /\ \A y \in Objects : ObjGap(n, y) = ObjGap(l, y)
         /\ FsGap(n) = FsGap(l)
    BY <1>5, <1>15, <1>18, DropPcbCounts
  <1>20. /\ DOMAIN g = Proc /\ g[p] = User /\ \A q \in Proc : q # p => g[q] = f[q]
    BY <1>6, <1>8
  <1>21. /\ IsThread(g[p]) /\ g[p].pc = "user" /\ Weighs(g[p]) = 1 /\ Weighs(f[p]) = 2
         /\ \A x : /\ Bears(g[p], x) = 0 /\ Bears(f[p], x) = 0
                   /\ Hands(g[p], x) = 0 /\ Hands(f[p], x) = 0
    BY <1>8, <1>9, <1>20, Threaded DEF IsThread, Weighs, Bears, Hands
  <1>22. \A q \in Proc :
             n.pcb[q] = m.pcb[q] + (IF q = p THEN Weighs(g[p]) - Weighs(f[p]) ELSE 0)
                                 + Bears(g[p], q) - Bears(f[p], q)
    BY <1>8, <1>11, <1>15, <1>19, <1>21, StateNumbers
  <1>23. \A y \in Objects : ObjGap(n, y) = ObjGap(m, y) + Hands(g[p], y) - Hands(f[p], y)
    BY <1>8, <1>17, <1>19, <1>21, StateNumbers
  <1>24. FsGap(n) >= FsGap(m) /\ \A q \in Proc : FutGap(n, q) = 0
    BY <1>8, <1>16, <1>17, <1>19, StateNumbers
  <1>25. Keeps(m, n)
    <2>1. Keeps(m, l)
      BY <1>11, <1>15 DEF Keeps
    <2> QED
      BY <1>19, <2>1, KeepsMore
  <1>26. \A q \in Proc : q # p /\ f[q].pc # "none" => n.pdt[q] = m.pdt[q]
    <2> SUFFICES ASSUME NEW q \in Proc, q # p, f[q].pc # "none"
                 PROVE  n.pdt[q] = m.pdt[q]
      OBVIOUS
    <2>1. m.pcb[q] >= 1 /\ m.pcb \in [Proc -> Nat]
      BY <1>8, Present, StateNumbers
    <2>2. n.pcb[q] >= 1
      BY <1>11, <1>15, <1>19, <2>1
    <2>3. k.pdt[q] = m.pdt[q]
      BY <1>10, <1>11 DEF Sound, IsMem, Tables
    <2> QED
      BY <1>15, <1>19, <2>2, <2>3 DEF SameTables
  <1>27. /\ DOMAIN g = Proc /\ IsThread(g[p]) /\ \A q \in Proc : q # p => g[q] = f[q]
         /\ f[p].pc \notin {"got", "set", "none", "up", "stopped"} /\ g[p].pc = "user"
         /\ Sound(n) /\ State(f, b, m) /\ p \in Proc
    BY <1>8, <1>19, <1>20, <1>21
  <1>28. State(g, b, n)
    BY ONLY <1>22, <1>23, <1>24, <1>25, <1>26, <1>27, StepKeeps
  <1> QED
    BY <1>7, <1>28, Arrive DEF Inv

\* The child gets its descriptor, and its reference by hand is dropped.
LEMMA ForkedKeeps ==
    ASSUME Inv, NEW p \in Proc, Forked(p)
    PROVE  Inv'
  <1>1. PICK f, b, m : f = th /\ b = booting /\ m = mem
    OBVIOUS
  <1>2. PICK c, i : c = f[p].obj /\ i = f[p].slot
    OBVIOUS
  <1>3. PICK j : j = [m EXCEPT !.fut[c] = @ + 1]
    OBVIOUS
  <1>4. PICK k : k = [m EXCEPT !.fut[c] = @ + 1, !.pdt[p][i] = c]
    OBVIOUS
  <1>5. PICK l : l = DropPcb(k, c)
    OBVIOUS
  <1>6. PICK n : n = DropPcb(l, p)
    OBVIOUS
  <1>7. PICK g : g = [f EXCEPT ![p] = User]
    OBVIOUS
  <1>8. th' = g /\ booting' = b /\ Become(n)
    BY <1>1, <1>2, <1>4, <1>5, <1>6, <1>7 DEF Forked, At, Goes
  <1>9. State(f, b, m) /\ f[p].pc = "fork" /\ DOMAIN f = Proc /\ IsThread(f[p])
    BY <1>1 DEF Inv, Forked, At, State, Threads
  <1>10. c \in Proc /\ i \in PdSlot /\ m.pdt[p][i] = Empty /\ f[p].refs = 1
    BY <1>2, <1>9 DEF IsThread, Calling, State, Slotted
  <1>11. m.pcb[p] >= 2 /\ m.pcb[p] >= 1 /\ Sound(m) /\ m.pcb \in [Proc -> Nat]
    BY <1>9, <1>10, Present, StateNumbers
  <1>12. \A q \in Proc : m.pcb[q] >= (IF f[q].pc = "none" THEN 0 ELSE 1)
                                     + (IF q = p THEN 1 ELSE 0) + (IF q = c THEN 1 ELSE 0)
    <2> TAKE q \in Proc
    <2>1. m.pcb[q] = Weighs(f[q]) + Num(b /\ q = First) + Cardinality(Forking(f, q))
      BY <1>9 DEF State, Counted, Owed
    <2>2. Weighs(f[q]) \in Nat /\ Weighs(f[q]) >= IF f[q].pc = "none" THEN 0 ELSE 1
      BY <1>9 DEF State, Threads, IsThread, Weighs
    <2>3. q = p => Weighs(f[q]) >= 2 /\ f[q].pc # "none"
      BY <1>9, <1>10 DEF Weighs
    <2>4. Cardinality(Forking(f, q)) \in Nat /\ (q = c => Cardinality(Forking(f, q)) >= 1)
      <3>1. q = c => p \in Forking(f, q)
        BY <1>2, <1>9 DEF Forking
      <3> QED
        BY <3>1, ThreadNumbers
    <2>5. Num(b /\ q = First) \in Nat
      BY DEF Num
    <2> QED
      BY <2>1, <2>2, <2>3, <2>4, <2>5
  <1>13. /\ DOMAIN j = Fields /\ SameTables(m, j) /\ j.pcb = m.pcb
         /\ j.fut = [m.fut EXCEPT ![c] = @ + 1] /\ j.obj = m.obj /\ j.fs = m.fs
         /\ j.exited = m.exited
    BY <1>3, <1>11 DEF Sound, IsMem, Fields, SameTables
  <1>14. /\ DOMAIN k = Fields /\ k.pdt = [m.pdt EXCEPT ![p][i] = c] /\ k.fdt = m.fdt
         /\ k.sdt = m.sdt /\ k.pcb = m.pcb /\ k.fut = [m.fut EXCEPT ![c] = @ + 1]
         /\ k.obj = m.obj /\ k.fs = m.fs /\ k.exited = m.exited
    BY <1>4, <1>11 DEF Sound, IsMem, Fields
  <1>15. /\ Sound(j) /\ FsGap(j) = FsGap(m)
         /\ \A q \in Proc : FutGap(j, q) = FutGap(m, q) + IF q = c THEN 1 ELSE 0
         /\ \A o \in Objects : ObjGap(j, o) = ObjGap(m, o)
    <2>1. /\ j.fut \in [Proc -> Nat]
          /\ \A q \in Proc : j.fut[q] = m.fut[q] + (IF q = c THEN 1 ELSE 0)
      BY <1>10, <1>11, <1>13 DEF Sound, IsMem, Counters
    <2> QED
      BY <1>10, <1>11, <1>13, <2>1, ReferFuture
  <1>16. /\ Sound(k) /\ FsGap(k) = FsGap(j)
         /\ \A q \in Proc : FutGap(k, q) = FutGap(j, q) + (IF j.pdt[p][i] = q THEN 1 ELSE 0)
                                                        - (IF c = q THEN 1 ELSE 0)
         /\ \A y \in Objects : ObjGap(k, y) = ObjGap(j, y)
    <2>1. c \in Proc \cup {Empty} /\ j.pcb[p] >= 1
      BY <1>10, <1>11, <1>13
    <2>2. /\ k.pdt = [j.pdt EXCEPT ![p][i] = c] /\ k.fdt = j.fdt
          /\ k.sdt = j.sdt /\ k.pcb = j.pcb /\ k.fut = j.fut
          /\ k.obj = j.obj /\ k.fs = j.fs /\ k.exited = j.exited
      BY <1>13, <1>14 DEF SameTables
    <2> QED
      BY <1>10, <1>14, <1>15, <2>1, <2>2, PutPd
  <1>17. \A q \in Proc : FutGap(k, q) = 0
    <2> TAKE q \in Proc
    <2>1. FutGap(m, q) = 0 /\ j.pdt[p][i] # q
      BY <1>9, <1>10, <1>13, Constants, StateNumbers DEF SameTables
    <2> QED
      BY <1>15, <1>16, <2>1
  <1>18. /\ k.pcb[c] >= 1
         /\ \A q \in Proc : FutGap(k, q) >= 0
         /\ \A y \in Objects : ObjGap(k, y) >= 0
    BY <1>9, <1>10, <1>11, <1>12, <1>14, <1>15, <1>16, <1>17, StateNumbers
  <1>19. /\ Sound(l) /\ Keeps(k, l) /\ Fewer(k, l)
         /\ l.pcb = [k.pcb EXCEPT ![c] = @ - 1]
         /\ \A q \in Proc : l.pcb[q] >= 1 => l.pdt[q] = k.pdt[q]
         /\ \A q \in Proc : FutGap(l, q) = FutGap(k, q)
         /\ \A y \in Objects : ObjGap(l, y) = ObjGap(k, y)
         /\ FsGap(l) = FsGap(k)
    BY <1>5, <1>10, <1>16, <1>18, DropPcbCounts
  <1>20. /\ l.pcb[p] >= 1 /\ l.pcb \in [Proc -> Nat]
         /\ \A q \in Proc : FutGap(l, q) >= 0
         /\ \A y \in Objects : ObjGap(l, y) >= 0
    <2>1. l.pcb[p] >= 1
      BY <1>9, <1>10, <1>11, <1>12, <1>14, <1>19
    <2> QED
      BY <1>17, <1>18, <1>19, <2>1 DEF Sound, IsMem, Counters
  <1>21. /\ Sound(n) /\ Keeps(l, n) /\ Fewer(l, n)
         /\ n.pcb = [l.pcb EXCEPT ![p] = @ - 1]
         /\ \A q \in Proc : n.pcb[q] >= 1 => n.pdt[q] = l.pdt[q]
         /\ \A q \in Proc : FutGap(n, q) = FutGap(l, q)
         /\ \A y \in Objects : ObjGap(n, y) = ObjGap(l, y)
         /\ FsGap(n) = FsGap(l)
    BY <1>6, <1>19, <1>20, DropPcbCounts
  <1>22. /\ DOMAIN g = Proc /\ g[p] = User /\ \A q \in Proc : q # p => g[q] = f[q]
    BY <1>7, <1>9
  <1>23. /\ IsThread(g[p]) /\ g[p].pc = "user" /\ Weighs(g[p]) = 1 /\ Weighs(f[p]) = 2
         /\ \A x : /\ Bears(g[p], x) = 0 /\ Hands(g[p], x) = 0 /\ Hands(f[p], x) = 0
                   /\ Bears(f[p], x) = IF x = c THEN 1 ELSE 0
    BY <1>2, <1>9, <1>10, <1>22, Threaded DEF IsThread, Weighs, Bears, Hands
  <1>24. \A q \in Proc :
             n.pcb[q] = m.pcb[q] + (IF q = p THEN Weighs(g[p]) - Weighs(f[p]) ELSE 0)
                                 + Bears(g[p], q) - Bears(f[p], q)
    BY <1>11, <1>14, <1>19, <1>20, <1>21, <1>23
  <1>25. \A y \in Objects : ObjGap(n, y) = ObjGap(m, y) + Hands(g[p], y) - Hands(f[p], y)
    BY <1>9, <1>15, <1>16, <1>19, <1>21, <1>23, StateNumbers
  <1>26. FsGap(n) >= FsGap(m) /\ \A q \in Proc : FutGap(n, q) = 0
    BY SMTT(20), <1>9, <1>15, <1>16, <1>17, <1>19, <1>21, StateNumbers
  <1>27. Keeps(m, n)
    <2>1. Keeps(k, n)
      BY <1>19, <1>21, KeepsMore
    <2>2. Fewer(k, n)
      BY <1>19, <1>21 DEF Fewer
    <2>3. Keeps(m, k)
      BY <1>14 DEF Keeps
    <2> QED
      BY <2>1, <2>2, <2>3, KeepsMore
  <1>28. \A q \in Proc : q # p /\ f[q].pc # "none" => n.pdt[q] = m.pdt[q]
    <2> SUFFICES ASSUME NEW q \in Proc, q # p, f[q].pc # "none"
                 PROVE  n.pdt[q] = m.pdt[q]
      OBVIOUS
    <2>1. l.pcb[q] >= 1 /\ n.pcb[q] >= 1
      BY <1>11, <1>12, <1>14, <1>19, <1>20, <1>21
    <2>2. k.pdt[q] = m.pdt[q]
      BY <1>11, <1>14 DEF Sound, IsMem, Tables
    <2> QED
      BY <1>19, <1>21, <2>1, <2>2
  <1>29. /\ DOMAIN g = Proc /\ IsThread(g[p]) /\ \A q \in Proc : q # p => g[q] = f[q]
         /\ f[p].pc \notin {"got", "set", "none", "up", "stopped"} /\ g[p].pc = "user"
         /\ Sound(n) /\ State(f, b, m) /\ p \in Proc
    BY <1>9, <1>21, <1>22, <1>23
  <1>30. State(g, b, n)
    BY ONLY <1>24, <1>25, <1>26, <1>27, <1>28, <1>29, StepKeeps
  <1> QED
    BY <1>8, <1>30, Arrive DEF Inv

\* fork: the child's PCB is counted once by hand, then once more by its thread.
LEMMA ForkKeeps ==
    ASSUME Inv, NEW p \in Proc, NEW i, NEW c \in Proc, Fork(p, i, c)
    PROVE  Inv'
  <1>1. PICK f, b, m : f = th /\ b = booting /\ m = mem
    OBVIOUS
  <1>2. PICK k : k = Holding(m, p)
    OBVIOUS
  <1>3. PICK l : l = Clone(k, p, c)
    OBVIOUS
  <1>4. PICK n : n = Holding(l, c)
    OBVIOUS
  <1>5. PICK g : g = [f EXCEPT ![p] = Thread("fork", i, c, 0, 1)]
    OBVIOUS
  <1>6. PICK h : h = [f EXCEPT ![p] = Thread("fork", i, c, 0, 1), ![c] = User]
    OBVIOUS
  <1>7. th' = h /\ booting' = b /\ Become(n)
    BY <1>1, <1>2, <1>3, <1>4, <1>6 DEF Fork, Enters, Started, Holding
  <1>8. /\ State(f, b, m) /\ f[p].pc = "user" /\ DOMAIN f = Proc /\ IsThread(f[p])
        /\ f[c] = None /\ f[c].pc = "none" /\ c # p
        /\ m.pcb[c] = 0 /\ m.fut[c] = 0
    BY <1>1, Threaded DEF Inv, Fork, Enters, Unused, State, Threads, mem
  <1>9. i \in PdSlot /\ m.pdt[p][i] = Empty
    <2>1. i \in DOMAIN m.pdt[p] /\ m.pdt[p][i] = Empty
      BY <1>1 DEF Fork, FirstFree, mem
    <2> QED
      BY <1>8, <2>1 DEF State, Sound, IsMem, Tables
  <1>10. /\ Sound(m) /\ m.pcb[p] >= 1 /\ f[p].refs = 0 /\ m.pcb \in [Proc -> Nat]
         /\ ~m.exited[c].set
    BY <1>8, Entered, StateNumbers DEF Sound, Gone, Unset
  <1>11. /\ Sound(k) /\ SameTables(m, k)
         /\ k.pcb = [m.pcb EXCEPT ![p] = @ + 1]
         /\ k.fut = m.fut /\ k.obj = m.obj /\ k.fs = m.fs /\ k.exited = m.exited
         /\ \A q \in Proc : FutGap(k, q) = FutGap(m, q)
         /\ \A x \in Objects : ObjGap(k, x) = ObjGap(m, x)
         /\ FsGap(k) = FsGap(m)
    BY <1>2, <1>10, HoldingCounts
  <1>12. k.pcb[c] = 0 /\ k.fut[c] = 0
    BY <1>8, <1>10, <1>11
  <1>13. /\ Sound(l) /\ l.pdt = k.pdt /\ l.exited = k.exited
         /\ l.pcb = [k.pcb EXCEPT ![c] = 1]
         /\ \A q \in Proc : FutGap(l, q) = FutGap(k, q)
         /\ \A o \in Objects : ObjGap(l, o) = ObjGap(k, o)
         /\ FsGap(l) = FsGap(k)
    <2>1. Sound(k) /\ k.pcb[c] = 0 /\ k.fut[c] = 0 /\ p \in Proc /\ c \in Proc
      BY <1>11, <1>12
    <2> QED
      BY ONLY <1>3, <2>1, CloneCounts
  <1>14. /\ DOMAIN g = Proc /\ \A q \in Proc : q # p => g[q] = f[q]
         /\ DOMAIN g[p] = {"pc", "slot", "obj", "val", "refs"}
         /\ g[p].pc = "fork" /\ g[p].slot = i /\ g[p].obj = c /\ g[p].refs = 1
    BY <1>5, <1>8, Threaded
  <1>15. /\ IsThread(g[p]) /\ Weighs(g[p]) = 2 /\ Weighs(f[p]) = 1
         /\ \A x : /\ Bears(g[p], x) = IF x = c THEN 1 ELSE 0
                   /\ Hands(g[p], x) = 0 /\ Hands(f[p], x) = 0 /\ Bears(f[p], x) = 0
    BY <1>8, <1>9, <1>10, <1>14 DEF IsThread, Stages, Calling, Weighs, Bears, Hands
  <1>16. \A q \in Proc :
             l.pcb[q] = m.pcb[q] + (IF q = p THEN Weighs(g[p]) - Weighs(f[p]) ELSE 0)
                                 + Bears(g[p], q) - Bears(f[p], q)
    BY <1>8, <1>10, <1>11, <1>13, <1>15
  <1>17. \A x \in Objects : ObjGap(l, x) = ObjGap(m, x) + Hands(g[p], x) - Hands(f[p], x)
    BY <1>8, <1>11, <1>13, <1>15, StateNumbers
  <1>18. FsGap(l) >= FsGap(m) /\ \A q \in Proc : FutGap(l, q) = 0
    BY <1>8, <1>11, <1>13, StateNumbers
  <1>19. Keeps(m, l) /\ l.pdt = m.pdt
    BY <1>11, <1>13 DEF Keeps, SameTables
  <1>20. /\ State(f, b, m) /\ p \in Proc /\ DOMAIN g = Proc /\ IsThread(g[p])
         /\ \A q \in Proc : q # p => g[q] = f[q]
         /\ f[p].pc \notin {"got", "set", "none", "up", "stopped"}
         /\ g[p].pc \notin {"got", "set", "waited", "wait"}
         /\ Sound(l) /\ l.pdt[p][g[p].slot] = Empty
         /\ \A q \in Proc : q # p /\ f[q].pc # "none" => l.pdt[q] = m.pdt[q]
    BY <1>8, <1>9, <1>13, <1>14, <1>15, <1>19
  <1>21. State(g, b, l)
    BY ONLY <1>16, <1>17, <1>18, <1>19, <1>20, StepKeeps
  <1>22. l.pcb[c] = 1 /\ l.pcb[c] >= 1
    BY <1>10, <1>11, <1>13
  <1>23. /\ Sound(n) /\ SameTables(l, n)
         /\ n.pcb = [l.pcb EXCEPT ![c] = @ + 1] /\ n.exited = l.exited
         /\ \A q \in Proc : FutGap(n, q) = FutGap(l, q)
         /\ \A x \in Objects : ObjGap(n, x) = ObjGap(l, x)
         /\ FsGap(n) = FsGap(l)
    <2>1. Sound(l) /\ c \in Proc /\ l.pcb[c] >= 1
      BY <1>13, <1>22
    <2> QED
      BY ONLY <1>4, <2>1, HoldingCounts
  <1>24. /\ DOMAIN h = Proc /\ \A q \in Proc : q # c => h[q] = g[q]
         /\ h[c] = User /\ g[c].pc = "none" /\ g[c].refs = 0
    BY <1>5, <1>6, <1>8, Threaded
  <1>25. /\ IsThread(h[c]) /\ h[c].pc = "user" /\ Weighs(h[c]) = 1 /\ Weighs(g[c]) = 0
         /\ \A x : /\ Bears(h[c], x) = 0 /\ Bears(g[c], x) = 0
                   /\ Hands(h[c], x) = 0 /\ Hands(g[c], x) = 0
    BY <1>24, Threaded DEF IsThread, Weighs, Bears, Hands
  <1>26. \A q \in Proc :
             n.pcb[q] = l.pcb[q] + (IF q = c THEN Weighs(h[c]) - Weighs(g[c]) ELSE 0)
                                 + Bears(h[c], q) - Bears(g[c], q)
    BY <1>21, <1>23, <1>25, StateNumbers
  <1>27. \A x \in Objects : ObjGap(n, x) = ObjGap(l, x) + Hands(h[c], x) - Hands(g[c], x)
    BY <1>21, <1>23, <1>25, StateNumbers
  <1>28. FsGap(n) >= FsGap(l) /\ \A q \in Proc : FutGap(n, q) = 0
    BY <1>21, <1>23, StateNumbers
  <1>29. Keeps(l, n) /\ n.pdt = l.pdt
    BY <1>23 DEF Keeps, SameTables
  <1>30. /\ State(g, b, l) /\ c \in Proc /\ DOMAIN h = Proc /\ IsThread(h[c])
         /\ \A q \in Proc : q # c => h[q] = g[q]
         /\ g[c].pc \notin {"got", "set"} /\ h[c].pc = "user" /\ ~l.exited[c].set
         /\ Sound(n)
         /\ \A q \in Proc : q # c /\ g[q].pc # "none" => n.pdt[q] = l.pdt[q]
    BY <1>10, <1>11, <1>13, <1>21, <1>23, <1>24, <1>25, <1>29
  <1>31. State(h, b, n)
    BY ONLY <1>26, <1>27, <1>28, <1>29, <1>30, StepKeeps
  <1> QED
    BY <1>7, <1>31, Arrive DEF Inv

\* kernelMain lets its references go.
LEMMA BootedKeeps ==
    ASSUME Inv, Booted
    PROVE  Inv'
  <1>1. PICK f, b, a, m : f = th /\ b = booting /\ a = FALSE /\ m = mem
    OBVIOUS
  <1>2. PICK l : l = DropPcb(m, First)
    OBVIOUS
  <1>3. PICK n : n = [l EXCEPT !.fs = @ - 1]
    OBVIOUS
  <1>4. th' = f /\ booting' = a /\ Become(n)
    BY <1>1, <1>2, <1>3 DEF Booted
  <1>0. b = TRUE
    BY <1>1 DEF Booted, Inv, State
  <1>5. State(f, b, m)
    BY <1>1 DEF Inv
  <1>6. Sound(m) /\ m.pcb \in [Proc -> Nat] /\ First \in Proc
    BY <1>5, StateNumbers, Constants
  <1>7. \A q \in Proc : m.pcb[q] = Owed(f, a, q) + IF q = First THEN 1 ELSE 0
    <2> TAKE q \in Proc
    <2>1. m.pcb[q] = Weighs(f[q]) + Num(b /\ q = First) + Cardinality(Forking(f, q))
      BY <1>5 DEF State, Counted, Owed
    <2>2. Num(b /\ q = First) = IF q = First THEN 1 ELSE 0
      BY <1>0 DEF Num
    <2>3. Num(a /\ q = First) = 0
      BY <1>1 DEF Num
    <2>4. Weighs(f[q]) \in Nat /\ Cardinality(Forking(f, q)) \in Nat
      BY <1>5, StageCounts, ThreadNumbers DEF State, Threads
    <2> QED
      BY <2>1, <2>2, <2>3, <2>4 DEF Owed
  <1>8. \A q \in Proc : Owed(f, a, q) \in Nat /\ (f[q].pc # "none" => Owed(f, a, q) >= 1)
    <2> TAKE q \in Proc
    <2>1. Num(a /\ q = First) = 0
      BY <1>1 DEF Num
    <2>2. /\ Weighs(f[q]) \in Nat /\ Cardinality(Forking(f, q)) \in Nat
          /\ f[q].pc # "none" => Weighs(f[q]) >= 1
      BY <1>5, ThreadNumbers DEF State, Threads, IsThread, Weighs
    <2> QED
      BY <2>1, <2>2 DEF Owed
  <1>9. /\ m.pcb[First] >= 1
        /\ \A q \in Proc : FutGap(m, q) >= 0
        /\ \A o \in Objects : ObjGap(m, o) >= 0
    <2>1. m.pcb[First] >= 1
      BY <1>6, <1>7, <1>8
    <2> QED
      BY <1>5, <2>1, StateNumbers
  <1>10. /\ Sound(l) /\ Keeps(m, l)
         /\ l.pcb = [m.pcb EXCEPT ![First] = @ - 1]
         /\ \A q \in Proc : l.pcb[q] >= 1 => l.pdt[q] = m.pdt[q]
         /\ \A q \in Proc : FutGap(l, q) = FutGap(m, q)
         /\ \A o \in Objects : ObjGap(l, o) = ObjGap(m, o)
         /\ FsGap(l) = FsGap(m)
    BY <1>2, <1>6, <1>9, DropPcbCounts
  <1>11. /\ DOMAIN n = Fields /\ SameTables(l, n) /\ n.pcb = l.pcb /\ n.fut = l.fut
         /\ n.obj = l.obj /\ n.fs = l.fs - 1 /\ n.exited = l.exited /\ l.fs \in Int
    BY <1>3, <1>10 DEF Sound, IsMem, Counters, Fields, SameTables
  <1>12. /\ Sound(n) /\ FsGap(n) = FsGap(l) + n.fs - l.fs
         /\ \A q \in Proc : FutGap(n, q) = FutGap(l, q)
         /\ \A o \in Objects : ObjGap(n, o) = ObjGap(l, o)
    BY <1>10, <1>11, PutFs
  <1>13. Counted(f, a, n)
    <2>1. \A q \in Proc : n.pcb[q] = Owed(f, a, q)
      BY <1>6, <1>7, <1>8, <1>10, <1>11
    <2>2. \A q \in Proc : FutGap(n, q) = 0
      BY <1>5, <1>10, <1>12, StateNumbers
    <2>3. \A o \in Objects : ObjGap(n, o) = Cardinality(InHands(f, o))
      BY <1>5, <1>10, <1>12 DEF State, Counted
    <2>4. FsGap(n) >= 0
      <3>1. FsGap(m) >= 1 /\ FsGap(m) \in Int
        BY <1>0, <1>5, StateNumbers DEF State, Counted, Num
      <3> QED
        BY <1>10, <1>11, <1>12, <3>1
    <2> QED
      BY <1>1, <2>1, <2>2, <2>3, <2>4 DEF Counted, Num
  <1>14. \A q \in Proc : f[q].pc # "none" => n.pdt[q] = m.pdt[q]
    BY <1>6, <1>7, <1>8, <1>10, <1>11 DEF SameTables
  <1>15. Slotted(f, n)
    BY <1>5, <1>14 DEF State, Slotted
  <1>16. Keeps(m, n)
    BY <1>10, <1>11 DEF Keeps
  <1>17. Threads(f)
    BY <1>5 DEF State
  <1>18. Answered(f, n)
    BY <1>5, <1>6, <1>12, <1>13, <1>15, <1>16, <1>17, StepAnswers
  <1>19. State(f, a, n)
    BY <1>1, <1>12, <1>13, <1>15, <1>17, <1>18 DEF State
  <1> QED
    BY <1>4, <1>19, Arrive DEF Inv

-----------------------------------------------------------------------------
(* All steps.                                                               *)

\* A step of the program.
LEMMA CallsKeep ==
    ASSUME Inv, NEW p \in Proc, Calls(p)
    PROVE  Inv'
  <1>1. CASE \E i, x : Open(p, i, x) \/ Sem(p, i, x) \/ Seek(p, i, x) \/ Read(p, i, x)
    BY <1>1, OpenKeeps, SemKeeps, SeekKeeps, ReadKeeps
  <1>2. CASE \E i : CloseFd(p, i) \/ CloseSd(p, i) \/ ClosePd(p, i)
    BY <1>2, CloseFdKeeps, CloseSdKeeps, ClosePdKeeps
  <1>3. CASE \E i : Up(p, i) \/ Down(p, i) \/ Wait(p, i)
    BY <1>3, UpKeeps, DownKeeps, WaitKeeps
  <1>4. CASE \E i : \E c \in Proc : Fork(p, i, c)
    BY <1>4, ForkKeeps
  <1>5. CASE \E v : Exit(p, v)
    BY <1>5, ExitKeeps
  <1>6. CASE Execl(p) \/ Fault(p) \/ FaultInOpen(p)
    BY <1>6, ExeclKeeps, FaultKeeps, FaultInOpenKeeps
  <1> QED
    BY <1>1, <1>2, <1>3, <1>4, <1>5, <1>6 DEF Calls

\* A step of the kernel.
LEMMA ServeKeeps ==
    ASSUME Inv, NEW p \in Proc, Serve(p)
    PROVE  Inv'
  BY DownedKeeps, ReadAllKeeps, AddKeeps, ForkedKeeps, GetKeeps, GiveBackKeeps, WaitedKeeps,
     SetValueKeeps, SetUpKeeps, StopKeeps, ReapKeeps DEF Serve

\* Every step keeps the invariant.
LEMMA OperationKeeps ==
    ASSUME Inv, Operation
    PROVE  Inv'
  <1>1. CASE UNCHANGED vars
    BY <1>1 DEF vars, memVars, Inv, mem
  <1>2. CASE Booted
    BY <1>2, BootedKeeps
  <1>3. CASE \E p \in Proc : Calls(p) \/ Serve(p) \/ FaultInWait(p)
    BY <1>3, CallsKeep, ServeKeeps, FaultInWaitKeeps
  <1> QED
    BY <1>1, <1>2, <1>3 DEF Operation

-----------------------------------------------------------------------------
(* The first state, and what the invariant says.                            *)

\* The first process has its thread, and kernelMain refers to it and to the file system.
LEMMA InitSound == Init => Inv
  <1> SUFFICES ASSUME Init
               PROVE  Inv
    OBVIOUS
  <1>1. PICK f, b, m : f = th /\ b = booting /\ m = mem
    OBVIOUS
  <1>2. /\ f = [p \in Proc |-> IF p = First THEN User ELSE None] /\ b = TRUE
        /\ DOMAIN m = Fields
        /\ m.fdt = [p \in Proc |-> NoFds] /\ m.pdt = [p \in Proc |-> NoPds]
        /\ m.sdt = [p \in Proc |-> NoSds]
        /\ m.pcb = [p \in Proc |-> IF p = First THEN 2 ELSE 0]
        /\ m.fut = [p \in Proc |-> IF p = First THEN 1 ELSE 0]
        /\ m.obj = [o \in Objects |-> 0] /\ m.fs = 2
        /\ m.exited = [p \in Proc |-> NoFuture]
    BY <1>1 DEF Init, mem, Fields, Objects
  <1>3. /\ NoFds \in [FdSlot -> Files \cup {Empty}]
        /\ NoPds \in [PdSlot -> Proc \cup {Empty}]
        /\ NoSds \in [SdSlot -> Sems \cup {Empty}]
    BY DEF NoFds, NoPds, NoSds
  <1>4. IsFuture(NoFuture) /\ Unset(NoFuture)
    BY DEF IsFuture, Unset, NoFuture
  <1>5. Sound(m)
    <2>1. Tables(m)
      BY <1>2, <1>3 DEF Tables
    <2>2. Counters(m)
      BY <1>2 DEF Counters
    <2>3. Futures(m)
      BY <1>2, <1>4 DEF Futures
    <2>4. Gone(m)
      BY <1>2, <1>4 DEF Gone, NoTables
    <2> QED
      BY <1>2, <2>1, <2>2, <2>3, <2>4 DEF Sound, IsMem
  <1>6. /\ DOMAIN f = Proc /\ \A p \in Proc : f[p] = User \/ f[p] = None
        /\ \A p \in Proc : p # First => f[p] = None
        /\ f[First] = User /\ User.refs = 0 /\ First \in Proc
    <2>1. User.refs = 0
      BY DEF User, Thread
    <2> QED
      BY <1>2, <2>1, Constants
  <1>7. Threads(f)
    BY <1>6, Threaded DEF Threads
  <1>8. \A x : Forking(f, x) = {} /\ InHands(f, x) = {} /\ Asking(f, x) = {}
    BY <1>6, Threaded DEF Forking, InHands, Asking
  <1>9. \A x : /\ Cardinality(Forking(f, x)) = 0 /\ Cardinality(InHands(f, x)) = 0
               /\ Cardinality(Asking(f, x)) = 0
    BY <1>8, FS_EmptySet
  <1>10. \A o : o # Empty => /\ Slots(m.fdt, FdSlot, o) = 0 /\ Slots(m.pdt, PdSlot, o) = 0
                             /\ Slots(m.sdt, SdSlot, o) = 0
    <2> SUFFICES ASSUME NEW o, o # Empty
                 PROVE  /\ Slots(m.fdt, FdSlot, o) = 0 /\ Slots(m.pdt, PdSlot, o) = 0
                        /\ Slots(m.sdt, SdSlot, o) = 0
      OBVIOUS
    <2>1. /\ {x \in Proc \X FdSlot : m.fdt[x[1]][x[2]] = o} = {}
          /\ {x \in Proc \X PdSlot : m.pdt[x[1]][x[2]] = o} = {}
          /\ {x \in Proc \X SdSlot : m.sdt[x[1]][x[2]] = o} = {}
      BY <1>2 DEF NoFds, NoPds, NoSds
    <2> QED
      BY <2>1, FS_EmptySet DEF Slots
  <1>11. Counted(f, b, m)
    <2>1. \A p \in Proc : m.pcb[p] = Owed(f, b, p)
      <3> TAKE p \in Proc
      <3>1. Weighs(f[p]) = IF p = First THEN 1 ELSE 0
        BY <1>6, Threaded DEF Weighs
      <3>2. Num(b /\ p = First) = IF p = First THEN 1 ELSE 0
        BY <1>2 DEF Num
      <3> QED
        BY <1>2, <1>9, <3>1, <3>2 DEF Owed
    <2>2. \A p \in Proc : FutGap(m, p) = 0
      BY <1>2, <1>10, Constants DEF FutGap
    <2>3. \A o \in Objects : ObjGap(m, o) = Cardinality(InHands(f, o))
      BY <1>2, <1>9, <1>10, Constants DEF ObjGap
    <2>4. FsGap(m) >= Num(b)
      <3>1. {p \in Proc : m.pcb[p] > 0} = {First}
        BY <1>2, <1>6
      <3>2. Cardinality({First}) = 1
        BY FS_Singleton
      <3> QED
        BY SMTT(20), <1>2, <3>1, <3>2 DEF FsGap, Num
    <2> QED
      BY <2>1, <2>2, <2>3, <2>4 DEF Counted
  <1>12. Slotted(f, m)
    BY <1>6, Threaded DEF Slotted
  <1>13. Answered(f, m)
    BY <1>2, <1>4, <1>6, <1>8, Threaded DEF Answered, Unset
  <1> QED
    BY <1>1, <1>2, <1>5, <1>7, <1>11, <1>12, <1>13 DEF Inv, State

\* What the invariant says of the counts.
LEMMA InvCounts == Inv => CountsExact
  <1> SUFFICES ASSUME Inv
               PROVE  CountsExact
    OBVIOUS
  <1>1. /\ mem.fdt = fdt /\ mem.pdt = pdt /\ mem.sdt = sdt /\ mem.pcb = pcbRefs
        /\ mem.fut = futRefs /\ mem.obj = objRefs /\ mem.fs = fsRefs
    BY DEF mem
  <1>2. Counted(th, booting, mem) /\ Threads(th) /\ Sound(mem)
    BY DEF Inv, State
  <1>3. ASSUME NEW p \in Proc
        PROVE  pcbRefs[p] = th[p].refs + (IF Live(p) THEN 1 ELSE 0)
                      + (IF booting /\ p = First THEN 1 ELSE 0)
                      + Cardinality({q \in Proc : th[q].pc = "fork" /\ th[q].obj = p})
    <2>1. pcbRefs[p] = Weighs(th[p]) + Num(booting /\ p = First) + Cardinality(Forking(th, p))
      BY <1>1, <1>2 DEF Counted, Owed
    <2>2. Weighs(th[p]) = th[p].refs + (IF Live(p) THEN 1 ELSE 0)
      BY <1>2 DEF Weighs, Live, Threads, IsThread
    <2> QED
      BY <2>1, <2>2 DEF Num, Forking
  <1>4. ASSUME NEW p \in Proc
        PROVE  futRefs[p] = (IF pcbRefs[p] > 0 THEN 1 ELSE 0) + Slots(pdt, PdSlot, p)
    <2>1. /\ FutGap(mem, p) = 0 /\ futRefs[p] \in Nat /\ pcbRefs[p] \in Nat
          /\ Slots(pdt, PdSlot, p) \in Nat
      BY <1>1, <1>2, Numbers DEF Counted, Sound
    <2> QED
      BY <1>1, <2>1 DEF FutGap
  <1>5. ASSUME NEW o \in Files \cup Sems
        PROVE  objRefs[o] = InHand(o) + Slots(fdt, FdSlot, o) + Slots(sdt, SdSlot, o)
    <2>1. o \in Objects
      BY DEF Objects
    <2>2. /\ ObjGap(mem, o) = Cardinality(InHands(th, o)) /\ objRefs[o] \in Nat
          /\ Slots(fdt, FdSlot, o) \in Nat /\ Slots(sdt, SdSlot, o) \in Nat
      BY <1>1, <1>2, <2>1, Numbers DEF Counted, Sound
    <2>3. InHand(o) = Cardinality(InHands(th, o)) /\ Cardinality(InHands(th, o)) \in Nat
      <3>1. InHand(o) = Cardinality(InHands(th, o))
        BY DEF InHand, InHands
      <3> QED
        BY <3>1, ThreadNumbers
    <2> QED
      BY <1>1, <2>2, <2>3 DEF ObjGap
  <1>6. fsRefs >= Cardinality({p \in Proc : pcbRefs[p] > 0}) + (IF booting THEN 1 ELSE 0)
    <2>1. /\ FsGap(mem) >= Num(booting) /\ fsRefs \in Int
          /\ Cardinality({p \in Proc : pcbRefs[p] > 0}) \in Nat
      BY <1>1, <1>2, Numbers DEF Counted, Sound
    <2> QED
      BY <1>1, <2>1 DEF FsGap, Num
  <1> QED
    BY <1>3, <1>4, <1>5, <1>6 DEF CountsExact

\* What the invariant says of the exit statuses.
LEMMA InvAnswers == Inv => StatusDelivered /\ WaitersServed
  <1> SUFFICES ASSUME Inv
               PROVE  StatusDelivered /\ WaitersServed
    OBVIOUS
  <1>1. mem.exited = exited
    BY DEF mem
  <1>2. Answered(th, mem)
    BY DEF Inv, State
  <1>3. StatusDelivered
    BY <1>1, <1>2 DEF Answered, StatusDelivered
  <1>4. WaitersServed
    BY <1>1, <1>2 DEF Answered, WaitersServed, Asking
  <1> QED
    BY <1>3, <1>4

-----------------------------------------------------------------------------
(* The programs of the test images make no other steps.                     *)

\* Every call the programs of the test images make is one of a process.
LEMMA TestCalls ==
    ASSUME NEW p \in Proc
    PROVE  /\ \A name, u : CallOpen(p, name, u) => OneCall(p)
           /\ \A fd, u : CallClose(p, fd, u) => OneCall(p)
           /\ \A fd, n, u : CallSeek(p, fd, n, u) => OneCall(p)
           /\ \A fd, n, u : CallRead(p, fd, n, u) => OneCall(p)
           /\ \A u : CallFork(p, u) => OneCall(p)
           /\ \A id, u : CallWait(p, id, u) => OneCall(p)
           /\ \A u : CallExec(p, u) => OneCall(p)
           /\ \A v : CallExit(p, v) => OneCall(p)
           /\ NoCall => OneCall(p)
  <1>1. \A name, u : CallOpen(p, name, u) => OneCall(p)
    BY DEF CallOpen, NoCall, OneCall, Calls
  <1>2. \A fd, u : CallClose(p, fd, u) => OneCall(p)
    BY DEF CallClose, NoCall, OneCall, Calls
  <1>3. \A fd, n, u : CallSeek(p, fd, n, u) => OneCall(p)
    BY DEF CallSeek, NoCall, OneCall, Calls
  <1>4. \A fd, n, u : CallRead(p, fd, n, u) => OneCall(p)
    BY DEF CallRead, NoCall, OneCall, Calls
  <1>5. \A u : CallFork(p, u) => OneCall(p)
    <2> SUFFICES ASSUME NEW u, CallFork(p, u)
                 PROVE  OneCall(p)
      OBVIOUS
    <2> DEFINE c == CHOOSE q \in Proc : Unused(q)
    <2>1. c \in Proc /\ \E i \in PdSlot : Fork(p, i, c)
      BY DEF CallFork
    <2> HIDE DEF c
    <2> QED
      BY <2>1 DEF OneCall, Calls
  <1>6. \A id, u : CallWait(p, id, u) => OneCall(p)
    BY DEF CallWait, OneCall, Calls
  <1>7. /\ \A u : CallExec(p, u) => OneCall(p)
        /\ \A v : CallExit(p, v) => OneCall(p)
        /\ NoCall => OneCall(p)
    BY DEF CallExec, CallExit, NoCall, OneCall, Calls
  <1> QED
    BY <1>1, <1>2, <1>3, <1>4, <1>5, <1>6, <1>7

\* The steps of bs.
LEMMA BsCalls ==
    ASSUME NEW p \in Proc, Bs(p)
    PROVE  OneCall(p)
  <1>1. CASE BsBad(p)
    BY <1>1, TestCalls DEF BsBad
  <1>2. CASE BsSem(p)
    BY <1>2 DEF BsSem, OneCall, Calls
  <1>3. CASE BsFork(p)
    BY <1>3, TestCalls DEF BsFork
  <1>4. CASE BsForked(p)
    BY <1>4, TestCalls DEF BsForked
  <1>5. CASE BsDown(p)
    BY <1>5 DEF BsDown, OneCall, Calls
  <1>6. CASE BsA(p)
    BY <1>6, TestCalls DEF BsA, BsHelper
  <1>7. CASE BsWait0(p)
    BY <1>7, TestCalls DEF BsWait0, BsWait
  <1>8. CASE BsB(p)
    BY <1>8, TestCalls DEF BsB, BsHelper
  <1>9. CASE BsWait1(p)
    BY <1>9, TestCalls DEF BsWait1, BsWait
  <1>10. CASE BsUp(p)
    BY <1>10 DEF BsUp, OneCall, Calls
  <1>11. CASE BsSum(p)
    BY <1>11, TestCalls DEF BsSum
  <1>12. CASE BsAdd(p)
    BY <1>12, TestCalls DEF BsAdd
  <1> QED
    BY <1>1, <1>2, <1>3, <1>4, <1>5, <1>6, <1>7, <1>8, <1>9, <1>10, <1>11, <1>12 DEF Bs

\* The steps of recurse.
LEMMA RecursiveCalls ==
    ASSUME NEW p \in Proc, Recursive(p)
    PROVE  OneCall(p)
  <1>1. CASE Recurse(p)
    BY <1>1, TestCalls DEF Recurse
  <1>2. CASE RecurseForked(p)
    BY <1>2, TestCalls DEF RecurseForked
  <1>3. CASE RecurseAgain(p)
    BY <1>3, TestCalls DEF RecurseAgain
  <1> QED
    BY <1>1, <1>2, <1>3 DEF Recursive

\* The steps of file.
LEMMA FileCalls ==
    ASSUME NEW p \in Proc, File(p)
    PROVE  OneCall(p)
  <1>1. CASE FileOpen(p)
    BY <1>1, TestCalls DEF FileOpen
  <1>2. CASE FileRead(p)
    BY <1>2, TestCalls DEF FileRead
  <1>3. CASE FileSeek(p)
    BY <1>3, TestCalls DEF FileSeek
  <1>4. CASE FilePast(p)
    BY <1>4, TestCalls DEF FilePast
  <1>5. CASE FileMore(p)
    BY <1>5, TestCalls DEF FileMore
  <1>6. CASE FileNext(p)
    BY <1>6, TestCalls DEF FileNext
  <1>7. CASE FileClose(p)
    BY <1>7, TestCalls DEF FileClose
  <1>8. CASE FileClosed(p)
    BY <1>8, TestCalls DEF FileClosed
  <1>9. CASE FileAgain(p)
    BY <1>9, TestCalls DEF FileAgain
  <1>10. CASE FileReopened(p)
    BY <1>10, TestCalls DEF FileReopened
  <1>11. CASE FileDir(p)
    BY <1>11, TestCalls DEF FileDir
  <1>12. CASE FileEnd(p)
    BY <1>12, TestCalls DEF FileEnd
  <1> QED
    BY <1>1, <1>2, <1>3, <1>4, <1>5, <1>6, <1>7, <1>8, <1>9, <1>10, <1>11, <1>12 DEF File

\* The steps of symlink.
LEMMA SymlinkCalls ==
    ASSUME NEW p \in Proc, Symlink(p)
    PROVE  OneCall(p)
  <1>1. CASE SymOpen(p)
    BY <1>1, TestCalls DEF SymOpen
  <1>2. CASE SymCp(p)
    BY <1>2, TestCalls DEF SymCp
  <1>3. CASE SymFork(p)
    BY <1>3, TestCalls DEF SymFork
  <1>4. CASE SymForked(p)
    BY <1>4, TestCalls DEF SymForked
  <1>5. CASE SymResult(p)
    BY <1>5, TestCalls DEF SymResult
  <1>6. CASE SymExec(p)
    BY <1>6, TestCalls DEF SymExec
  <1> QED
    BY <1>1, <1>2, <1>3, <1>4, <1>5, <1>6 DEF Symlink

\* The steps of memory.
LEMMA MemCalls ==
    ASSUME NEW p \in Proc, Mem(p)
    PROVE  OneCall(p)
  <1>1. CASE MemFork(p)
    BY <1>1, TestCalls DEF MemFork
  <1>2. CASE MemAccess(p)
    BY <1>2, TestCalls DEF MemAccess, OneCall, Calls
  <1>3. CASE MemStatus(p)
    BY <1>3, TestCalls DEF MemStatus
  <1>4. CASE MemOpen(p)
    BY <1>4, TestCalls DEF MemOpen
  <1>5. CASE MemSeek(p)
    BY <1>5, TestCalls DEF MemSeek
  <1>6. CASE MemShare(p)
    BY <1>6, TestCalls DEF MemShare
  <1>7. CASE MemShared(p)
    BY <1>7, TestCalls DEF MemShared
  <1>8. CASE MemChild(p)
    BY <1>8, TestCalls DEF MemChild
  <1>9. CASE MemParent(p)
    BY <1>9, TestCalls DEF MemParent
  <1>10. CASE MemEnd(p)
    BY <1>10, TestCalls DEF MemEnd
  <1> QED
    BY <1>1, <1>2, <1>3, <1>4, <1>5, <1>6, <1>7, <1>8, <1>9, <1>10 DEF Mem

\* The steps of init of etan.dir.
LEMMA EtanInitCalls ==
    ASSUME NEW p \in Proc, EtanInit(p)
    PROVE  OneCall(p)
  <1>1. CASE RunTest(p)
    BY <1>1, TestCalls DEF RunTest
  <1>2. CASE TestForked(p)
    BY <1>2, TestCalls DEF TestForked
  <1>3. CASE TestResult(p)
    BY <1>3, TestCalls DEF TestResult
  <1> QED
    BY <1>1, <1>2, <1>3 DEF EtanInit

\* The steps of init and shell of t0.dir.
LEMMA T0Calls ==
    ASSUME NEW p \in Proc, T0(p)
    PROVE  OneCall(p)
  <1>1. CASE T0Open(p)
    BY <1>1, TestCalls DEF T0Open
  <1>2. CASE T0One(p)
    BY <1>2, TestCalls DEF T0One, One
  <1>3. CASE T0Close(p)
    BY <1>3, TestCalls DEF T0Close
  <1>4. CASE T0Closed(p)
    BY <1>4, TestCalls DEF T0Closed, One
  <1>5. CASE T0Bad(p)
    BY <1>5, TestCalls DEF T0Bad, One
  <1>6. CASE T0Again(p)
    BY <1>6, TestCalls DEF T0Again
  <1>7. CASE T0Seek(p)
    BY <1>7, TestCalls DEF T0Seek
  <1>8. CASE T0Fork(p)
    BY <1>8, TestCalls DEF T0Fork
  <1>9. CASE T0Forked(p)
    BY <1>9, TestCalls DEF T0Forked
  <1>10. CASE Shell(p)
    BY <1>10, TestCalls DEF Shell
  <1>11. CASE ShellEnd(p)
    BY <1>11, TestCalls DEF ShellEnd
  <1>12. CASE T0Back(p)
    BY <1>12, TestCalls DEF T0Back
  <1>13. CASE T0Panic(p)
    BY <1>13, TestCalls DEF T0Panic
  <1> QED
    BY <1>1, <1>2, <1>3, <1>4, <1>5, <1>6, <1>7, <1>8, <1>9, <1>10, <1>11, <1>12, <1>13 DEF T0

\* A program that may make any call.
LEMMA NextOperations ==
    ASSUME Next
    PROVE  Operation
  <1>1. ASSUME NEW p \in Proc, Enter(p)
        PROVE  Calls(p)
    BY <1>1 DEF Enter, Calls
  <1>2. ASSUME NEW p \in Proc, Continue(p)
        PROVE  Serve(p) \/ FaultInWait(p)
    BY <1>2 DEF Continue
  <1> QED
    BY <1>1, <1>2 DEF Next, Operation

\* A step of a test image is a step of its processes.
LEMMA TestOperations ==
    ASSUME TestStep
    PROVE  Operation
  <1>1. CASE ~halted /\ Booted /\ Quiet /\ UNCHANGED user
    BY <1>1 DEF Operation
  <1>2. ASSUME NEW p \in Proc, Libc(p)
        PROVE  OneCall(p) \/ Serve(p)
    <2>1. CASE Kernel(p)
      BY <2>1 DEF Kernel
    <2>2. CASE Return(p)
      BY <2>2, TestCalls DEF Return
    <2>3. CASE Shutdown(p)
      BY <2>3, TestCalls DEF Shutdown
    <2>4. CASE CpRead(p)
      BY <2>4, TestCalls DEF CpRead
    <2>5. CASE CpWrite(p)
      BY <2>5, TestCalls DEF CpWrite
    <2> QED
      BY <1>2, <2>1, <2>2, <2>3, <2>4, <2>5 DEF Libc
  <1>3. ASSUME NEW p \in Proc,
               \/ Libc(p) \/ Bs(p) \/ Recursive(p) \/ File(p) \/ Symlink(p)
               \/ Mem(p) \/ EtanInit(p) \/ T0(p)
        PROVE  OneCall(p) \/ Serve(p)
    BY <1>2, <1>3, BsCalls, RecursiveCalls, FileCalls, SymlinkCalls, MemCalls, EtanInitCalls,
       T0Calls
  <1>4. \A p \in Proc : OneCall(p) \/ Serve(p) => Operation
    BY DEF OneCall, Operation
  <1> QED
    BY <1>1, <1>3, <1>4 DEF TestStep

-----------------------------------------------------------------------------
(* Theorems.                                                                *)

\* The invariant holds whatever the programs ask for, and under the programs of the images.
THEOREM Invariance == (Spec => []Inv) /\ (TestSpec => []Inv)
  <1>1. Init => Inv
    BY InitSound
  <1>2. Inv /\ [Next]_vars => Inv'
    BY NextOperations, OperationKeeps DEF Operation
  <1>3. TestInit => Inv
    BY InitSound DEF TestInit
  <1>4. Inv /\ [TestNext]_testVars => Inv'
    <2>1. ASSUME Inv, TestNext
          PROVE  Inv'
      <3>1. Operation
        BY <2>1, NextOperations, TestOperations DEF TestNext
      <3> QED
        BY <2>1, <3>1, OperationKeeps
    <2>2. ASSUME Inv, UNCHANGED testVars
          PROVE  Inv'
      <3>1. Operation
        BY <2>2 DEF testVars, Operation
      <3> QED
        BY <2>2, <3>1, OperationKeeps
    <2> QED
      BY <2>1, <2>2
  <1> QED
    BY <1>1, <1>2, <1>3, <1>4, PTL DEF Spec, TestSpec

\* Every ref_count is the number of references there are.
THEOREM ReferencesCounted == (Spec => []CountsExact) /\ (TestSpec => []CountsExact)
  BY Invariance, InvCounts, PTL

\* wait comes back with the status of the child, and the permit is there again.
THEOREM StatusesDelivered == (Spec => []StatusDelivered) /\ (TestSpec => []StatusDelivered)
  BY Invariance, InvAnswers, PTL

\* Any number of waits for a process that has ended come back.
THEOREM EveryWaiterServed == (Spec => []WaitersServed) /\ (TestSpec => []WaitersServed)
  BY Invariance, InvAnswers, PTL
=============================================================================
