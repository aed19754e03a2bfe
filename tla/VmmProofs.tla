----------------------------- MODULE VmmProofs -----------------------------
(***************************************************************************)
(* Theorems about the virtual memory manager, for any number of processes, *)
(* frames and table entries: first the reference counting, then what the   *)
(* manager does for its processes on top of it: the counts are exact, the  *)
(* device page is sealed, faults are resolved and the page tables          *)
(* implement module AddressSpaces.                                         *)
(***************************************************************************)
EXTENDS Vmm, FiniteSetTheorems, TLAPS

FramesTyped == /\ page \in [Frame -> Val \cup {Junk}]
               /\ rc \in [Frame -> Int]
               /\ free \subseteq Frame

TablesTyped == table \in [Frame -> [Idx -> Entry]]

-----------------------------------------------------------------------------
(* Choosing, and what entries are made of.                                  *)

\* Some picks an element of a set that has one.
LEMMA SomeIn == ASSUME NEW S, S # {} PROVE Some(S) \in S
  BY DEF Some

\* The allocator hands out a free frame.
LEMMA FreshFree == ASSUME free # {} PROVE Fresh \in free
  BY DEF Fresh

\* The entries the code builds are entries.
LEMMA EntriesMade ==
  ASSUME VmmAssumption
  PROVE  /\ Absent \in Entry
         /\ EmptyTable \in [Idx -> Entry]
         /\ ApicTable \in [Idx -> Entry]
         /\ Kpd \in [Idx -> Entry]
         /\ \A f \in Frame : Ent(f, UserFlags) \in Entry
         /\ \A f \in Frame, fl \in SUBSET Flags : Ent(f, fl \cup UserFlags) \in Entry
         /\ \A e \in Entry : e.flags \subseteq Flags
  BY DEF Absent, EmptyTable, ApicTable, Kpd, Ent, Entry, UserFlags, KernelFlags, Flags

\* A private entry points to a frame, and stays an entry in another frame or
\* without RW.
LEMMA PrivateEntries ==
  ASSUME VmmAssumption, NEW e \in Entry, Private(e)
  PROVE  /\ e.fr \in Frame
         /\ ReadOnly(e) \in Entry
         /\ \A f \in Frame : Ent(f, e.flags) \in Entry
  BY DEF VmmAssumption, Private, Present, ReadOnly, Entry, Absent, Ent, KernelFlags, Flags

\* A present entry that is not writable is private.
LEMMA ReadOnlyPrivate ==
  ASSUME VmmAssumption, NEW e \in Entry, Present(e), "RW" \notin e.flags
  PROVE  Private(e)
  BY DEF Private, Present, Entry, Absent, Ent, KernelFlags

\* Whatever an entry points to is read as a page table.
LEMMA PTTyped ==
  ASSUME VmmAssumption, TablesTyped, NEW e PROVE PT(e) \in [Idx -> Entry]
  BY EntriesMade DEF PT, TablesTyped

-----------------------------------------------------------------------------
(* What the operations on frames, tables and activations preserve.          *)

\* alloc_frame keeps the frames' types.
LEMMA AllocTyped ==
  ASSUME VmmAssumption, FramesTyped, AllocFrame
  PROVE  FramesTyped' /\ Fresh \in Frame
  BY FreshFree DEF FramesTyped, AllocFrame, VmmAssumption

\* So does copy_pg.
LEMMA AllocCopyTyped ==
  ASSUME VmmAssumption, FramesTyped, NEW f \in Frame, AllocCopy(f)
  PROVE  FramesTyped' /\ Fresh \in Frame
  BY FreshFree DEF FramesTyped, AllocCopy, VmmAssumption

\* So do incref and decref.
LEMMA CountTyped ==
  ASSUME VmmAssumption, FramesTyped, NEW f \in Frame, IncRef(f) \/ DecRef(f)
  PROVE  FramesTyped'
  BY DEF FramesTyped, IncRef, DecRef

\* And the steps that leave frames alone.
LEMMA SameTyped == ASSUME FramesTyped, FramesSame PROVE FramesTyped'
  BY DEF FramesTyped, FramesSame

\* Writing an entry into a table keeps the tables' type.
LEMMA TableTyped ==
  ASSUME TablesTyped, NEW f, NEW i, NEW e \in Entry,
         table' = [table EXCEPT ![f][i] = e]
  PROVE  TablesTyped'
  BY DEF TablesTyped

\* An idle process's activation record is one.
LEMMA IdleTyped ==
  ASSUME NEW p \in Proc, NEW j \in Jobs
  PROVE  Idle(p, j) \in Activation
  BY DEF Idle, Activation, Pcs, Entry

\* So is that of a process at the start of a loop over its directory.
LEMMA LoopTyped ==
  ASSUME NEW p \in Proc, NEW j \in Jobs
  PROVE  Loop(p, j) \in Activation
  BY DEF Loop, Idle, Activation, Pcs, Entry

\* A step of process p that leaves cr3 and the others' activations alone keeps
\* every process coherent if it keeps p coherent.
LEMMA LocalStep ==
  ASSUME TypeOK, FramesTyped', TablesTyped', NEW p \in Proc, UNCHANGED cr3,
         NEW r \in Activation, at' = [at EXCEPT ![p] = r], Coherent(p)'
  PROVE  TypeOK'
  BY DEF TypeOK, FramesTyped, TablesTyped, Coherent

\* The indexes and entries an operation reads are of their types.
LEMMA DirTyped ==
  ASSUME VmmAssumption, TypeOK, NEW p \in Proc, at[p].job = "fault" \/ at[p].dirs # {}
  PROVE  Dir(p) \in Idx
<1>1. at[p] \in Activation /\ Coherent(p)
  BY DEF TypeOK
<1>2. CASE at[p].job = "fault"
  BY <1>1, <1>2 DEF Dir, Coherent, VmmAssumption, VA
<1>3. CASE at[p].job # "fault"
  BY <1>1, <1>3, SomeIn DEF Dir, Activation
<1>. QED BY <1>2, <1>3

\* An entry of a loaded directory, and of the table it leads to, is one.
LEMMA PdeTyped ==
  ASSUME TypeOK, NEW p \in Proc, cr3[p] \in Frame, NEW i \in Idx
  PROVE  Pde(p, i) \in Entry
  BY DEF TypeOK, Pde

\* The same of the entry for an address.
LEMMA PteTyped ==
  ASSUME VmmAssumption, TypeOK, NEW p \in Proc, cr3[p] \in Frame, NEW va \in Touched
  PROVE  Pte(p, va) \in Entry
<1>1. va[2] \in Idx
  BY DEF VmmAssumption, VA
<1>. QED BY <1>1, PTTyped, EntriesMade DEF Pte, TypeOK, TablesTyped

-----------------------------------------------------------------------------
(* The program's steps.                                                     *)

\* A program's write.
LEMMA WriteTyped ==
  ASSUME VmmAssumption, TypeOK, NEW p \in Proc, Write(p) PROVE TypeOK'
<1>1. page' \in [Frame -> Val \cup {Junk}]
  BY DEF TypeOK, Write
<1>2. UNCHANGED <<table, rc, free, cr3, at>>
  BY DEF Write
<1>. QED BY <1>1, <1>2 DEF TypeOK, Coherent

\* A fault begins.
LEMMA FaultTyped ==
  ASSUME VmmAssumption, TypeOK, NEW p \in Proc, Fault(p) PROVE TypeOK'
<1>. PICK va \in Touched : Begin(p, Faulted(p, va))
  BY DEF Fault
<1>1. FramesTyped' /\ Fresh \in Frame
  BY AllocTyped DEF Fault, TypeOK, FramesTyped
<1>2. TablesTyped'
  BY DEF Fault, TypeOK, TablesTyped
<1>3. Faulted(p, va) \in Activation
  BY <1>1 DEF Faulted, Activation, Jobs, Pcs, Present, Idle, Entry
<1>4. at' = [at EXCEPT ![p] = Faulted(p, va)] /\ UNCHANGED cr3
  BY DEF Fault, Begin
<1>5. Coherent(p)'
  BY <1>1, <1>4 DEF TypeOK, Coherent, Fault, Faulted, Idle
<1>. QED BY <1>1, <1>2, <1>3, <1>4, <1>5, LocalStep

\* exec and exit begin.
LEMMA ExecExitTyped ==
  ASSUME VmmAssumption, TypeOK, NEW p \in Proc, Exec(p) \/ Exit(p) PROVE TypeOK'
<1>1. FramesTyped' /\ TablesTyped'
  BY DEF Exec, Exit, FramesSame, TypeOK, FramesTyped, TablesTyped
<1>2. PICK j \in {"exec", "exit"} : Begin(p, Loop(p, j))
  BY DEF Exec, Exit
<1>3. Loop(p, j) \in Activation
  BY LoopTyped DEF Jobs
<1>4. at' = [at EXCEPT ![p] = Loop(p, j)] /\ UNCHANGED cr3
  BY <1>2 DEF Exec, Exit, Begin
<1>5. Coherent(p)'
  BY <1>4 DEF TypeOK, Coherent, Exec, Exit, Loop, Idle
<1>. QED BY <1>1, <1>3, <1>4, <1>5, LocalStep

-----------------------------------------------------------------------------
(* map and map_copy.                                                        *)

\* map and map_copy see to the directory entry.
LEMMA FixPdeTyped ==
  ASSUME VmmAssumption, TypeOK, NEW p \in Proc, FixPde(p) PROVE TypeOK'
<1>. DEFINE i == Dir(p)
            e == Pde(p, i)
            go == [at[p] EXCEPT !.pc = "pte"]
            copy == [at[p] EXCEPT !.pc = "copypt", !.pde = e, !.dst = Fresh, !.ptes = Idx]
<1>1. /\ at[p] \in Activation /\ at[p].job = "fault" /\ at[p].pc = "pde"
      /\ Coherent(p) /\ FramesTyped /\ TablesTyped
  BY DEF TypeOK, FixPde, At, FramesTyped, TablesTyped
<1>. e \in Entry
  BY <1>1, DirTyped, PdeTyped DEF Coherent
<1>2. UNCHANGED cr3
  BY DEF FixPde
<1>3. go \in Activation
  BY <1>1 DEF Activation, Pcs
<1>4. CASE /\ AllocFrame
           /\ table' = [table EXCEPT ![cr3[p]][i] = Ent(Fresh, UserFlags)]
           /\ Goto(p, "pte")
  <2>1. FramesTyped' /\ Fresh \in Frame
    BY <1>1, <1>4, AllocTyped
  <2>2. TablesTyped'
    BY <1>1, <1>4, <2>1, EntriesMade, TableTyped
  <2>3. at' = [at EXCEPT ![p] = go]
    BY <1>4 DEF Goto
  <2>4. Coherent(p)'
    BY <1>1, <1>2, <2>3 DEF Coherent, TypeOK
  <2>. QED BY <1>2, <1>3, <2>1, <2>2, <2>3, <2>4, LocalStep
<1>5. CASE Goto(p, "pte") /\ FramesSame /\ UNCHANGED table
  <2>1. FramesTyped' /\ TablesTyped'
    BY <1>1, <1>5, SameTyped DEF TablesTyped
  <2>3. at' = [at EXCEPT ![p] = go]
    BY <1>5 DEF Goto
  <2>4. Coherent(p)'
    BY <1>1, <1>2, <2>3 DEF Coherent, TypeOK
  <2>. QED BY <1>2, <1>3, <2>1, <2>3, <2>4, LocalStep
<1>6. CASE /\ AllocFrame
           /\ at' = [at EXCEPT ![p].pc = "copypt", ![p].pde = e, ![p].dst = Fresh,
                               ![p].ptes = Idx]
           /\ UNCHANGED table
  <2>1. FramesTyped' /\ Fresh \in Frame /\ TablesTyped'
    BY <1>1, <1>6, AllocTyped DEF TablesTyped
  <2>2. at' = [at EXCEPT ![p] = copy] /\ copy \in Activation
    BY <1>1, <1>6, <2>1 DEF Activation, Pcs, TypeOK
  <2>4. Coherent(p)'
    BY <1>1, <1>2, <2>1, <2>2 DEF Coherent, TypeOK
  <2>. QED BY <1>2, <2>1, <2>2, <2>4, LocalStep
<1>. QED BY <1>4, <1>5, <1>6 DEF FixPde

\* A loop over a table's entries takes one of those that are left.
LEMMA PteIndexTyped ==
  ASSUME TypeOK, NEW p \in Proc, at[p].ptes # {}
  PROVE  Some(at[p].ptes) \in Idx
  BY SomeIn DEF TypeOK, Activation

\* copy_pt, one entry.
LEMMA CopyPteTyped ==
  ASSUME VmmAssumption, TypeOK, NEW p \in Proc, CopyPte(p) PROVE TypeOK'
<1>. DEFINE i == Some(at[p].ptes)
            e == PT(at[p].pde)[i]
            r == [at[p] EXCEPT !.ptes = @ \ {i}]
<1>1. /\ at[p] \in Activation /\ at[p].pc = "copypt" /\ at[p].ptes # {}
      /\ Coherent(p) /\ FramesTyped /\ TablesTyped
  BY DEF TypeOK, CopyPte, FramesTyped, TablesTyped
<1>2. i \in Idx /\ e \in Entry
  BY <1>1, PteIndexTyped, PTTyped
<1>3. UNCHANGED cr3
  BY DEF CopyPte
<1>4. at' = [at EXCEPT ![p] = r] /\ r \in Activation
  BY <1>1 DEF CopyPte, Activation, TypeOK
<1>5. Coherent(p)'
  BY <1>1, <1>3, <1>4 DEF Coherent, TypeOK
<1>6. CASE Eager(e)
  <2>1. e.fr \in Frame /\ (\A f \in Frame : Ent(f, e.flags) \in Entry)
    BY <1>2, <1>6, PrivateEntries DEF Eager
  <2>2. FramesTyped' /\ Fresh \in Frame
    BY <1>1, <1>6, <2>1, AllocCopyTyped DEF CopyPte
  <2>3. table' = [table EXCEPT ![at[p].dst][i] = Ent(Fresh, e.flags)]
    BY <1>6 DEF CopyPte
  <2>4. TablesTyped'
    BY <1>1, <2>1, <2>2, <2>3, TableTyped
  <2>. QED BY <1>3, <1>4, <1>5, <2>2, <2>4, LocalStep
<1>7. CASE ~Eager(e)
  <2>1. IF Private(e) THEN IncRef(e.fr) ELSE FramesSame
    BY <1>7 DEF CopyPte
  <2>2. FramesTyped'
    BY <1>1, <1>2, <2>1, PrivateEntries, CountTyped, SameTyped
  <2>3. table' = [table EXCEPT ![at[p].dst][i] = e]
    BY <1>7 DEF CopyPte
  <2>4. TablesTyped'
    BY <1>1, <1>2, <2>3, TableTyped
  <2>. QED BY <1>3, <1>4, <1>5, <2>2, <2>4, LocalStep
<1>. QED BY <1>6, <1>7

\* The copied table is installed.
LEMMA InstallPtTyped ==
  ASSUME VmmAssumption, TypeOK, NEW p \in Proc, InstallPt(p) PROVE TypeOK'
<1>. DEFINE e == at[p].pde
            new == Ent(at[p].dst, e.flags \cup UserFlags)
            r == [at[p] EXCEPT !.pc = IF Private(e) THEN "drop" ELSE "pte",
                               !.old = IF Private(e) THEN e.fr ELSE NoFrame,
                               !.dst = NoFrame, !.pde = Absent]
<1>1. /\ at[p] \in Activation /\ at[p].job = "fault" /\ at[p].pc = "copypt"
      /\ Coherent(p) /\ FramesTyped /\ TablesTyped
  BY DEF TypeOK, InstallPt, At, FramesTyped, TablesTyped
<1>2. e \in Entry /\ at[p].dst \in Frame
  BY <1>1 DEF Coherent, Activation
<1>3. FramesTyped' /\ UNCHANGED cr3
  BY <1>1, SameTyped DEF InstallPt
<1>4. new \in Entry
  <2>1. e.flags \in SUBSET Flags
    BY <1>2, EntriesMade
  <2>. QED BY <1>2, <2>1, EntriesMade
<1>5. TablesTyped'
  BY <1>1, <1>4, TableTyped DEF InstallPt
<1>6. Private(e) => e.fr \in Frame
  BY <1>2, PrivateEntries
<1>7. at' = [at EXCEPT ![p] = r] /\ r \in Activation
  BY <1>1, <1>6, EntriesMade DEF InstallPt, Activation, Pcs
<1>8. Coherent(p)'
  BY <1>1, <1>3, <1>6, <1>7 DEF Coherent, TypeOK
<1>. QED BY <1>3, <1>5, <1>7, <1>8, LocalStep

\* decref of a table.
LEMMA DropPtTyped ==
  ASSUME VmmAssumption, TypeOK, NEW p \in Proc, DropPt(p) PROVE TypeOK'
<1>. DEFINE doom == [at[p] EXCEPT !.pc = "doom", !.ptes = Idx]
            go == [at[p] EXCEPT !.pc = After(p), !.old = NoFrame]
<1>1. at[p] \in Activation /\ at[p].pc = "drop" /\ Coherent(p)
  BY DEF TypeOK, DropPt
<1>5. FramesTyped /\ TablesTyped /\ at[p].old \in Frame
  BY <1>1 DEF TypeOK, FramesTyped, TablesTyped, Coherent
<1>6. rc' = [rc EXCEPT ![at[p].old] = @ - 1] /\ UNCHANGED <<table, page, free, cr3>>
  BY DEF DropPt
<1>2. FramesTyped' /\ TablesTyped' /\ UNCHANGED cr3
  BY <1>5, <1>6 DEF FramesTyped, TablesTyped
<1>3. CASE at' = [at EXCEPT ![p].pc = "doom", ![p].ptes = Idx]
  <2>1. at' = [at EXCEPT ![p] = doom] /\ doom \in Activation
    BY <1>1, <1>3 DEF Activation, Pcs, TypeOK
  <2>2. Coherent(p)'
    BY <1>1, <1>2, <2>1 DEF Coherent, TypeOK
  <2>. QED BY <1>2, <2>1, <2>2, LocalStep
<1>4. CASE at' = [at EXCEPT ![p].pc = After(p), ![p].old = NoFrame]
  <2>1. at' = [at EXCEPT ![p] = go] /\ go \in Activation
    BY <1>1, <1>4 DEF Activation, Pcs, TypeOK, After
  <2>2. Coherent(p)'
    BY <1>1, <1>2, <2>1 DEF Coherent, TypeOK, After
  <2>. QED BY <1>2, <2>1, <2>2, LocalStep
<1>. QED BY <1>3, <1>4 DEF DropPt

\* destroy_pt, one entry.
LEMMA DoomPteTyped ==
  ASSUME VmmAssumption, TypeOK, NEW p \in Proc, DoomPte(p) PROVE TypeOK'
<1>. DEFINE i == Some(at[p].ptes)
            e == table[at[p].old][i]
            r == [at[p] EXCEPT !.ptes = @ \ {i}]
<1>1. /\ at[p] \in Activation /\ at[p].pc = "doom" /\ at[p].ptes # {}
      /\ Coherent(p) /\ FramesTyped /\ TablesTyped
  BY DEF TypeOK, DoomPte, FramesTyped, TablesTyped
<1>2. i \in Idx /\ e \in Entry
  BY <1>1, PteIndexTyped DEF Coherent, TypeOK
<1>3. FramesTyped' /\ UNCHANGED cr3
  BY <1>1, <1>2, PrivateEntries, CountTyped, SameTyped DEF DoomPte
<1>4. TablesTyped'
  BY <1>1, EntriesMade, TableTyped DEF DoomPte
<1>5. at' = [at EXCEPT ![p] = r] /\ r \in Activation
  BY <1>1 DEF DoomPte, Activation, TypeOK
<1>6. Coherent(p)'
  BY <1>1, <1>3, <1>5 DEF Coherent, TypeOK
<1>. QED BY <1>3, <1>4, <1>5, <1>6, LocalStep

\* The destroyed table is freed.
LEMMA FreePtTyped ==
  ASSUME VmmAssumption, TypeOK, NEW p \in Proc, FreePt(p) PROVE TypeOK'
<1>. DEFINE r == [at[p] EXCEPT !.pc = After(p), !.old = NoFrame]
<1>1. at[p] \in Activation /\ at[p].pc = "doom" /\ Coherent(p)
  BY DEF TypeOK, FreePt
<1>2. FramesTyped' /\ TablesTyped' /\ UNCHANGED cr3
  BY <1>1 DEF TypeOK, FreePt, FramesTyped, TablesTyped, Coherent
<1>3. at' = [at EXCEPT ![p] = r] /\ r \in Activation
  BY <1>1 DEF FreePt, Activation, Pcs, TypeOK, After
<1>4. Coherent(p)'
  BY <1>1, <1>2, <1>3 DEF Coherent, TypeOK, After
<1>. QED BY <1>2, <1>3, <1>4, LocalStep

\* map ends, or map_copy copies the page.
LEMMA FixPteTyped ==
  ASSUME VmmAssumption, TypeOK, NEW p \in Proc, FixPte(p) PROVE TypeOK'
<1>. DEFINE va == at[p].va
            e == Pte(p, va)
            swap == [at[p] EXCEPT !.pc = "swap", !.old = e.fr]
<1>1. /\ at[p] \in Activation /\ at[p].job = "fault" /\ at[p].pc = "pte"
      /\ Coherent(p) /\ FramesTyped /\ TablesTyped
  BY DEF TypeOK, FixPte, At, FramesTyped, TablesTyped
<1>2. UNCHANGED <<rc, free, cr3>>
  BY DEF FixPte
<1>3. e \in Entry /\ Ent(at[p].pa, UserFlags) \in Entry
  BY <1>1, PteTyped, EntriesMade DEF Coherent
<1>4. CASE /\ table' = [table EXCEPT ![Pde(p, va[1]).fr][va[2]] = Ent(at[p].pa, UserFlags)]
           /\ Begin(p, Idle(p, "user"))
           /\ UNCHANGED page
  <2>1. FramesTyped' /\ TablesTyped'
    BY <1>1, <1>2, <1>3, <1>4, TableTyped DEF FramesTyped
  <2>2. at' = [at EXCEPT ![p] = Idle(p, "user")] /\ Idle(p, "user") \in Activation
    BY <1>4, IdleTyped DEF Begin, Jobs
  <2>3. Coherent(p)'
    BY <1>1, <1>2, <2>2 DEF Coherent, TypeOK, Idle
  <2>. QED BY <1>2, <2>1, <2>2, <2>3, LocalStep
<1>5. CASE /\ Present(e) /\ "RW" \notin e.flags
           /\ page' = [page EXCEPT ![at[p].pa] = page[e.fr]]
           /\ at' = [at EXCEPT ![p].pc = "swap", ![p].old = e.fr]
           /\ UNCHANGED table
  <2>1. e.fr \in Frame
    BY <1>3, <1>5, ReadOnlyPrivate, PrivateEntries
  <2>2. FramesTyped' /\ TablesTyped'
    BY <1>1, <1>2, <1>5, <2>1 DEF FramesTyped, TablesTyped
  <2>3. at' = [at EXCEPT ![p] = swap] /\ swap \in Activation
    BY <1>1, <1>5, <2>1 DEF Activation, Pcs, TypeOK
  <2>4. Coherent(p)'
    BY <1>1, <1>2, <2>1, <2>3 DEF Coherent, TypeOK
  <2>. QED BY <1>2, <2>2, <2>3, <2>4, LocalStep
<1>6. CASE Begin(p, Loop(p, "exit")) /\ UNCHANGED <<table, page>>
  <2>1. FramesTyped' /\ TablesTyped'
    BY <1>1, <1>2, <1>6 DEF FramesTyped, TablesTyped
  <2>2. at' = [at EXCEPT ![p] = Loop(p, "exit")] /\ Loop(p, "exit") \in Activation
    BY <1>6, LoopTyped DEF Begin, Jobs
  <2>3. Coherent(p)'
    BY <1>1, <1>2, <2>2 DEF Coherent, TypeOK, Loop, Idle
  <2>. QED BY <1>2, <2>1, <2>2, <2>3, LocalStep
<1>. QED BY <1>4, <1>5, <1>6 DEF FixPte

\* map_copy ends.
LEMMA SwapPteTyped ==
  ASSUME VmmAssumption, TypeOK, NEW p \in Proc, SwapPte(p) PROVE TypeOK'
<1>1. /\ at[p].job = "fault" /\ at[p].pc = "swap"
      /\ Coherent(p) /\ FramesTyped /\ TablesTyped
  BY DEF TypeOK, SwapPte, At, FramesTyped, TablesTyped
<1>2. FramesTyped' /\ UNCHANGED cr3
  BY <1>1, CountTyped DEF SwapPte, Coherent
<1>3. Ent(at[p].pa, UserFlags) \in Entry
  BY <1>1, EntriesMade DEF Coherent
<1>4. TablesTyped'
  BY <1>1, <1>3, TableTyped DEF SwapPte
<1>5. at' = [at EXCEPT ![p] = Idle(p, "user")] /\ Idle(p, "user") \in Activation
  BY IdleTyped DEF SwapPte, Begin, Jobs
<1>6. Coherent(p)'
  BY <1>1, <1>2, <1>5 DEF Coherent, TypeOK, Idle
<1>. QED BY <1>2, <1>4, <1>5, <1>6, LocalStep

-----------------------------------------------------------------------------
(* fork.                                                                    *)

\* write_protect only takes RW from private entries.
LEMMA WriteProtectTyped ==
  ASSUME VmmAssumption, TablesTyped, NEW p \in Proc, cr3[p] \in Frame
  PROVE  WriteProtect(p) \in [Frame -> [Idx -> Entry]]
<1>1. ASSUME NEW t \in [Idx -> Entry] PROVE Protected(t) \in [Idx -> Entry]
  BY PrivateEntries DEF Protected
<1>2. ASSUME NEW e \in Entry, Private(e) PROVE ProtectedPde(e) \in Entry
  BY <1>2, PrivateEntries DEF ProtectedPde
<1>. QED BY <1>1, <1>2 DEF WriteProtect, TablesTyped

\* fork: write_protect.
LEMMA ForkTyped ==
  ASSUME VmmAssumption, TypeOK, NEW p \in Proc, Fork(p) PROVE TypeOK'
<1>. PICK c \in Proc :
       /\ at[c].job = "unborn"
       /\ at' = [at EXCEPT ![p] = [Loop(p, "fork") EXCEPT !.new = Fresh, !.kid = c],
                           ![c] = Idle(c, "born")]
  BY DEF Fork
<1>. DEFINE r == [Loop(p, "fork") EXCEPT !.new = Fresh, !.kid = c]
<1>1. at[p].job = "user" /\ Coherent(p) /\ FramesTyped /\ TablesTyped /\ UNCHANGED cr3
  BY DEF TypeOK, Fork, FramesTyped, TablesTyped
<1>2. FramesTyped' /\ Fresh \in Frame
  BY <1>1, AllocTyped DEF Fork
<1>3. TablesTyped'
  BY <1>1, WriteProtectTyped DEF Fork, TablesTyped, Coherent
<1>4. r \in Activation /\ Idle(c, "born") \in Activation
  <2>1. "fork" \in Jobs /\ "born" \in Jobs
    BY DEF Jobs
  <2>2. Loop(p, "fork") \in Activation /\ Idle(c, "born") \in Activation
    BY <2>1, LoopTyped, IdleTyped
  <2>. QED BY <1>2, <2>2 DEF Activation
<1>5. /\ at' \in [Proc -> Activation]
      /\ \A q \in Proc \ {p, c} : at'[q] = at[q]
      /\ at'[p] = r /\ at'[c] = Idle(c, "born")
  BY <1>1, <1>4 DEF TypeOK
<1>6. ASSUME NEW q \in Proc PROVE Coherent(q)'
  <2>1. CASE q = p
    <3>1. r.job = "fork" /\ r.pc = "dir" /\ r.new = Fresh
      BY DEF Loop, Idle
    <3>2. at'[q].job = "fork" /\ at'[q].pc = "dir" /\ at'[q].new = Fresh
      BY <1>5, <2>1, <3>1
    <3>3. cr3'[q] \in Frame
      BY <1>1, <2>1 DEF Coherent
    <3>. QED BY <1>2, <3>2, <3>3 DEF Coherent
  <2>2. CASE q = c
    BY <1>5, <2>2 DEF Coherent, Idle
  <2>3. CASE q \notin {p, c}
    BY <1>1, <1>5, <2>3 DEF Coherent, TypeOK
  <2>. QED BY <2>1, <2>2, <2>3
<1>. QED BY <1>1, <1>2, <1>3, <1>5, <1>6 DEF TypeOK, FramesTyped, TablesTyped

\* copy_pd, one entry.
LEMMA CopyPdeTyped ==
  ASSUME VmmAssumption, TypeOK, NEW p \in Proc, CopyPde(p) PROVE TypeOK'
<1>. DEFINE i == Dir(p)
            e == Pde(p, i)
            copy == [at[p] EXCEPT !.pc = "copypt", !.pde = e, !.dst = Fresh, !.ptes = Idx]
            next == [at[p] EXCEPT !.dirs = @ \ {i}]
<1>1. /\ at[p] \in Activation /\ at[p].job = "fork" /\ at[p].pc = "dir" /\ at[p].dirs # {}
      /\ Coherent(p) /\ FramesTyped /\ TablesTyped /\ UNCHANGED cr3
  BY DEF TypeOK, CopyPde, At, FramesTyped, TablesTyped
<1>2. e \in Entry
  BY <1>1, DirTyped, PdeTyped DEF Coherent
<1>3. CASE /\ Eager(e)
           /\ AllocFrame
           /\ at' = [at EXCEPT ![p].pc = "copypt", ![p].pde = e, ![p].dst = Fresh,
                               ![p].ptes = Idx]
           /\ UNCHANGED table
  <2>1. FramesTyped' /\ Fresh \in Frame /\ TablesTyped'
    BY <1>1, <1>3, AllocTyped DEF TablesTyped
  <2>2. at' = [at EXCEPT ![p] = copy] /\ copy \in Activation
    BY <1>1, <1>2, <1>3, <2>1 DEF Activation, Pcs, TypeOK
  <2>3. Coherent(p)'
    BY <1>1, <1>3, <2>1, <2>2 DEF Coherent, TypeOK, Eager
  <2>. QED BY <1>1, <2>1, <2>2, <2>3, LocalStep
<1>4. CASE /\ IF Private(e) THEN IncRef(e.fr) ELSE FramesSame
           /\ table' = [table EXCEPT ![at[p].new][i] = e]
           /\ at' = [at EXCEPT ![p].dirs = @ \ {i}]
  <2>1. FramesTyped'
    BY <1>1, <1>2, <1>4, PrivateEntries, CountTyped, SameTyped
  <2>2. TablesTyped'
    BY <1>1, <1>2, <1>4, TableTyped
  <2>3. at' = [at EXCEPT ![p] = next] /\ next \in Activation
    BY <1>1, <1>4 DEF Activation, TypeOK
  <2>4. Coherent(p)'
    BY <1>1, <2>3 DEF Coherent, TypeOK
  <2>. QED BY <1>1, <2>1, <2>2, <2>3, <2>4, LocalStep
<1>. QED BY <1>3, <1>4 DEF CopyPde

\* A copied table enters the new directory.
LEMMA EnterPtTyped ==
  ASSUME VmmAssumption, TypeOK, NEW p \in Proc, EnterPt(p) PROVE TypeOK'
<1>. DEFINE i == Dir(p)
            e == Ent(at[p].dst, at[p].pde.flags)
            r == [at[p] EXCEPT !.pc = "dir", !.dst = NoFrame, !.pde = Absent,
                               !.dirs = @ \ {i}]
<1>1. /\ at[p] \in Activation /\ at[p].job = "fork" /\ at[p].pc = "copypt"
      /\ Coherent(p) /\ FramesTyped /\ TablesTyped /\ UNCHANGED cr3
  BY DEF TypeOK, EnterPt, At, FramesTyped, TablesTyped
<1>2. e \in Entry
  BY <1>1, PrivateEntries DEF Coherent, Activation
<1>3. FramesTyped' /\ TablesTyped'
  BY <1>1, <1>2, SameTyped, TableTyped DEF EnterPt
<1>4. at' = [at EXCEPT ![p] = r] /\ r \in Activation
  BY <1>1, EntriesMade DEF EnterPt, Activation, Pcs, TypeOK
<1>5. Coherent(p)'
  BY <1>1, <1>4 DEF Coherent, TypeOK
<1>. QED BY <1>1, <1>3, <1>4, <1>5, LocalStep

\* fork ends.
LEMMA ForkedTyped ==
  ASSUME VmmAssumption, TypeOK, NEW p \in Proc, Forked(p) PROVE TypeOK'
<1>. DEFINE c == at[p].kid
<1>1. /\ at[p] \in Activation /\ at[p].job = "fork" /\ c \in Proc
      /\ Coherent(p) /\ FramesTyped /\ TablesTyped
  BY DEF TypeOK, Forked, At, FramesTyped, TablesTyped, Activation
<1>2. FramesTyped' /\ TablesTyped'
  BY <1>1, SameTyped DEF Forked, TablesTyped
<1>3. cr3' = [cr3 EXCEPT ![c] = at[p].new] /\ at[p].new \in Frame
  BY <1>1 DEF Forked, Coherent
<1>4. at' = [at EXCEPT ![p] = Idle(p, "user"), ![c] = Idle(c, "user")]
  BY DEF Forked
<1>5. Idle(p, "user") \in Activation /\ Idle(c, "user") \in Activation
  BY <1>1, IdleTyped DEF Jobs
<1>6. ASSUME NEW q \in Proc PROVE Coherent(q)'
  <2>1. CASE q \in {p, c}
    <3>1. at'[q] = Idle(q, "user")
      BY <1>1, <1>4, <2>1 DEF TypeOK
    <3>2. cr3'[q] \in Frame
      BY <1>1, <1>3, <2>1 DEF TypeOK, Coherent
    <3>. QED BY <3>1, <3>2 DEF Coherent, Idle
  <2>2. CASE q \notin {p, c}
    BY <1>1, <1>3, <1>4, <2>2 DEF Coherent, TypeOK
  <2>. QED BY <2>1, <2>2
<1>. QED BY <1>2, <1>3, <1>4, <1>5, <1>6 DEF TypeOK, FramesTyped, TablesTyped

-----------------------------------------------------------------------------
(* exec and exit.                                                           *)

\* clear_pd and destroy_pd, one entry.
LEMMA ClearPdeTyped ==
  ASSUME VmmAssumption, TypeOK, NEW p \in Proc, ClearPde(p) PROVE TypeOK'
<1>. DEFINE i == Dir(p)
            e == Pde(p, i)
            next == [at[p] EXCEPT !.dirs = @ \ {i}]
            drop == [at[p] EXCEPT !.dirs = @ \ {i}, !.pc = "drop", !.old = e.fr]
            clear == [at[p] EXCEPT !.pc = "clearpt", !.ptes = Idx]
<1>1. /\ at[p] \in Activation /\ at[p].job \in {"exec", "exit"} /\ at[p].pc = "dir"
      /\ at[p].dirs # {} /\ Coherent(p) /\ FramesTyped /\ TablesTyped
  BY DEF TypeOK, ClearPde, FramesTyped, TablesTyped
<1>2. e \in Entry /\ FramesTyped' /\ UNCHANGED cr3
  BY <1>1, DirTyped, PdeTyped, SameTyped DEF ClearPde, Coherent
<1>3. CASE at' = [at EXCEPT ![p].dirs = @ \ {i}] /\ UNCHANGED table
  <2>1. at' = [at EXCEPT ![p] = next] /\ next \in Activation
    BY <1>1, <1>3 DEF Activation, TypeOK
  <2>2. Coherent(p)' /\ TablesTyped'
    BY <1>1, <1>2, <1>3, <2>1 DEF Coherent, TypeOK, TablesTyped
  <2>. QED BY <1>2, <2>1, <2>2, LocalStep
<1>4. CASE /\ Private(e)
           /\ at' = [at EXCEPT ![p].dirs = @ \ {i}, ![p].pc = "drop", ![p].old = e.fr]
           /\ table' = [table EXCEPT ![cr3[p]][i] = Absent]
  <2>1. e.fr \in Frame /\ TablesTyped'
    BY <1>1, <1>2, <1>4, PrivateEntries, EntriesMade, TableTyped
  <2>2. at' = [at EXCEPT ![p] = drop] /\ drop \in Activation
    BY <1>1, <1>4, <2>1 DEF Activation, Pcs, TypeOK
  <2>3. Coherent(p)'
    BY <1>1, <1>2, <2>1, <2>2 DEF Coherent, TypeOK
  <2>. QED BY <1>2, <2>1, <2>2, <2>3, LocalStep
<1>5. CASE /\ Keeps(p, e)
           /\ at' = [at EXCEPT ![p].pc = "clearpt", ![p].ptes = Idx]
           /\ UNCHANGED table
  <2>1. at' = [at EXCEPT ![p] = clear] /\ clear \in Activation
    BY <1>1, <1>5 DEF Activation, Pcs, TypeOK
  <2>2. Coherent(p)' /\ TablesTyped'
    BY <1>1, <1>2, <1>5, <2>1 DEF Coherent, TypeOK, Keeps, TablesTyped
  <2>. QED BY <1>2, <2>1, <2>2, LocalStep
<1>. QED BY <1>3, <1>4, <1>5 DEF ClearPde

\* clear_pt, one entry.
LEMMA ClearPteTyped ==
  ASSUME VmmAssumption, TypeOK, NEW p \in Proc, ClearPte(p) PROVE TypeOK'
<1>. DEFINE i == Some(at[p].ptes)
            t == Pde(p, Dir(p))
            e == PT(t)[i]
            r == [at[p] EXCEPT !.ptes = @ \ {i}]
<1>1. /\ at[p] \in Activation /\ at[p].pc = "clearpt" /\ at[p].ptes # {}
      /\ Coherent(p) /\ FramesTyped /\ TablesTyped /\ UNCHANGED cr3
  BY DEF TypeOK, ClearPte, FramesTyped, TablesTyped
<1>2. i \in Idx /\ e \in Entry
  BY <1>1, PteIndexTyped, PTTyped
<1>3. /\ IF Private(e)
         THEN DecRef(e.fr) /\ table' = [table EXCEPT ![t.fr][i] = Absent]
         ELSE FramesSame /\ UNCHANGED table
      /\ at' = [at EXCEPT ![p].ptes = @ \ {i}]
  BY DEF ClearPte
<1>4. FramesTyped'
  BY <1>1, <1>2, <1>3, PrivateEntries, CountTyped, SameTyped
<1>5. TablesTyped'
  <2>1. CASE Private(e)
    BY <1>1, <1>3, <2>1, EntriesMade, TableTyped
  <2>2. CASE ~Private(e)
    BY <1>1, <1>3, <2>2 DEF TablesTyped
  <2>. QED BY <2>1, <2>2
<1>6. at' = [at EXCEPT ![p] = r] /\ r \in Activation
  BY <1>1, <1>3 DEF Activation, TypeOK
<1>7. Coherent(p)'
  BY <1>1, <1>6 DEF Coherent, TypeOK
<1>. QED BY <1>1, <1>4, <1>5, <1>6, <1>7, LocalStep

\* clear_pt ends.
LEMMA ClearedPtTyped ==
  ASSUME VmmAssumption, TypeOK, NEW p \in Proc, ClearedPt(p) PROVE TypeOK'
<1>. DEFINE r == [at[p] EXCEPT !.pc = "dir", !.dirs = @ \ {Dir(p)}]
<1>1. at[p] \in Activation /\ at[p].pc = "clearpt" /\ Coherent(p)
  BY DEF TypeOK, ClearedPt
<1>2. FramesTyped' /\ TablesTyped' /\ UNCHANGED cr3
  BY DEF TypeOK, ClearedPt, FramesSame, FramesTyped, TablesTyped
<1>3. at' = [at EXCEPT ![p] = r] /\ r \in Activation
  BY <1>1 DEF ClearedPt, Activation, Pcs, TypeOK
<1>4. Coherent(p)'
  BY <1>1, <1>2, <1>3 DEF Coherent, TypeOK
<1>. QED BY <1>2, <1>3, <1>4, LocalStep

\* exec ends.
LEMMA ExecedTyped ==
  ASSUME VmmAssumption, TypeOK, NEW p \in Proc, Execed(p) PROVE TypeOK'
<1>1. FramesTyped' /\ TablesTyped' /\ UNCHANGED cr3
  BY DEF TypeOK, Execed, FramesSame, FramesTyped, TablesTyped
<1>2. at' = [at EXCEPT ![p] = Idle(p, "user")] /\ Idle(p, "user") \in Activation
  BY IdleTyped DEF Execed, Begin, Jobs
<1>3. Coherent(p)'
  BY <1>1, <1>2 DEF Coherent, TypeOK, Idle, Execed, At
<1>. QED BY <1>1, <1>2, <1>3, LocalStep

\* destroy_pd ends.
LEMMA FreePdTyped ==
  ASSUME VmmAssumption, TypeOK, NEW p \in Proc, FreePd(p) PROVE TypeOK'
<1>1. at[p].job = "exit" /\ Coherent(p) /\ FramesTyped /\ TablesTyped
  BY DEF TypeOK, FreePd, At, FramesTyped, TablesTyped
<1>2. FramesTyped'
  BY <1>1, CountTyped DEF FreePd, Coherent
<1>3. TablesTyped'
  BY <1>1, EntriesMade DEF FreePd, TablesTyped
<1>4. /\ cr3' = [cr3 EXCEPT ![p] = NoFrame]
      /\ at' = [at EXCEPT ![p] = Idle(p, "unborn")] /\ Idle(p, "unborn") \in Activation
  BY IdleTyped DEF FreePd, Begin, Jobs
<1>5. ASSUME NEW q \in Proc PROVE Coherent(q)'
  <2>1. CASE q = p
    BY <1>4, <2>1 DEF TypeOK, Coherent, Idle
  <2>2. CASE q # p
    BY <1>4, <2>2 DEF TypeOK, Coherent
  <2>. QED BY <2>1, <2>2
<1>. QED BY <1>2, <1>3, <1>4, <1>5 DEF TypeOK, FramesTyped, TablesTyped

-----------------------------------------------------------------------------
(* The invariant.                                                           *)

\* The state init.cc sets up is well formed.
LEMMA InitTyped == ASSUME VmmAssumption, Init PROVE TypeOK
<1>1. PD0 \in Frame
  BY SomeIn DEF PD0, VmmAssumption
<1>2. FramesTyped
  BY <1>1 DEF Init, FramesTyped, VmmAssumption
<1>3. TablesTyped
  BY <1>1, EntriesMade DEF Init, TablesTyped
<1>4. cr3 \in [Proc -> Frame \cup {NoFrame}] /\ at \in [Proc -> Activation]
  BY <1>1, IdleTyped DEF Init, Jobs
<1>5. ASSUME NEW p \in Proc PROVE Coherent(p)
  <2>1. CASE p = First
    BY <1>1, <2>1 DEF Init, Coherent, Idle
  <2>2. CASE p # First
    BY <2>2 DEF Init, Coherent, Idle
  <2>. QED BY <2>1, <2>2
<1>. QED BY <1>2, <1>3, <1>4, <1>5 DEF TypeOK, FramesTyped, TablesTyped

\* The kernel's steps keep the types,
LEMMA KernelTyped ==
  ASSUME VmmAssumption, TypeOK, NEW p \in Proc, Kernel(p) PROVE TypeOK'
  BY FixPdeTyped, CopyPteTyped, InstallPtTyped, DropPtTyped, DoomPteTyped, FreePtTyped,
     FixPteTyped, SwapPteTyped, CopyPdeTyped, EnterPtTyped, ForkedTyped, ClearPdeTyped,
     ClearPteTyped, ClearedPtTyped, ExecedTyped, FreePdTyped DEF Kernel

\* and so do the program's.
LEMMA ProgramTyped ==
  ASSUME VmmAssumption, TypeOK, NEW p \in Proc, Program(p) PROVE TypeOK'
  BY WriteTyped, FaultTyped, ForkTyped, ExecExitTyped DEF Program

\* Whatever the processes do at once, every table entry is absent, one of kpd's
\* own or private to a counted frame, and every operation under way holds the
\* frames its next step needs (vmm.cc never follows a stale or null pointer).
THEOREM TypeInvariant == Spec => []TypeOK
<1>1. Init => TypeOK
  BY VmmAssumption, InitTyped
<1>2. TypeOK /\ [Next]_vars => TypeOK'
  <2>. SUFFICES ASSUME TypeOK, [Next]_vars PROVE TypeOK'
    OBVIOUS
  <2>1. CASE UNCHANGED vars
    BY <2>1 DEF vars, TypeOK, Coherent
  <2>2. ASSUME NEW p \in Proc, Program(p) \/ Kernel(p) PROVE TypeOK'
    BY <2>2, VmmAssumption, KernelTyped, ProgramTyped
  <2>. QED BY <2>1, <2>2 DEF Next
<1>. QED BY <1>1, <1>2, PTL DEF Spec

-----------------------------------------------------------------------------
(* Counting references.                                                     *)

Bit(b) == IF b THEN 1 ELSE 0

\* A processor's loads of f, and what one activation record holds of f.
Loaded(f) == {p \in Proc : cr3[p] = f}
Keys == {"pa", "dst", "new", "old"}
Holding(r, k, f) == r[k] = f /\ (k = "old" => r.pc = "drop")
Hand(r, f) == Bit(Holding(r, "pa", f)) + Bit(Holding(r, "dst", f))
                + Bit(Holding(r, "new", f)) + Bit(Holding(r, "old", f))

\* The three kinds of reference are finitely many.
LEMMA Countable ==
  ASSUME VmmAssumption, NEW f
  PROVE  /\ IsFiniteSet(Entries(f)) /\ Cardinality(Entries(f)) \in Nat
         /\ IsFiniteSet(InHand(f)) /\ Cardinality(InHand(f)) \in Nat
         /\ IsFiniteSet(Loaded(f)) /\ Cardinality(Loaded(f)) \in Nat
<1>1. IsFiniteSet(Frame \X Idx)
  BY FS_Product DEF VmmAssumption
<1>2. IsFiniteSet(Keys)
  <2>1. IsFiniteSet({"pa"})
    BY FS_Singleton
  <2>2. IsFiniteSet({"pa"} \cup {"dst"})
    BY <2>1, FS_AddElement
  <2>3. IsFiniteSet({"pa"} \cup {"dst"} \cup {"new"})
    BY <2>2, FS_AddElement
  <2>4. IsFiniteSet({"pa"} \cup {"dst"} \cup {"new"} \cup {"old"})
    BY <2>3, FS_AddElement
  <2>5. Keys = {"pa"} \cup {"dst"} \cup {"new"} \cup {"old"}
    BY DEF Keys
  <2>. QED BY <2>4, <2>5
<1>3. IsFiniteSet(Proc \X Keys)
  BY <1>2, FS_Product DEF VmmAssumption
<1>4. Entries(f) \in SUBSET (Frame \X Idx) /\ InHand(f) \in SUBSET (Proc \X Keys)
      /\ Loaded(f) \in SUBSET Proc
  BY DEF Entries, InHand, Loaded, Keys
<1>5. IsFiniteSet(Entries(f)) /\ IsFiniteSet(InHand(f)) /\ IsFiniteSet(Loaded(f))
  BY <1>1, <1>3, <1>4, FS_Subset DEF VmmAssumption
<1>. QED BY <1>5, FS_CardinalityType

\* A finite set that changes at one place only.
LEMMA OneSlot ==
  ASSUME NEW S, IsFiniteSet(S), NEW T, NEW x, T \ {x} = S \ {x}
  PROVE  /\ IsFiniteSet(T)
         /\ Cardinality(T) = Cardinality(S) - Bit(x \in S) + Bit(x \in T)
<1>1. /\ IsFiniteSet(S \ {x})
      /\ Cardinality(S \ {x}) = Cardinality(S) - Bit(x \in S)
  BY FS_RemoveElement, FS_CardinalityType DEF Bit
<1>2. CASE x \in T
  <2>1. T = (S \ {x}) \cup {x}
    BY <1>2
  <2>. QED BY <1>1, <1>2, <2>1, FS_AddElement, FS_CardinalityType DEF Bit
<1>3. CASE x \notin T
  <2>1. T = S \ {x}
    BY <1>3
  <2>. QED BY <1>1, <1>3, <2>1, FS_CardinalityType DEF Bit
<1>. QED BY <1>2, <1>3

\* Writing one entry of one table.
LEMMA EntriesStep ==
  ASSUME VmmAssumption, NEW f, NEW d \in Frame, NEW i \in Idx,
         \A s \in Frame \X Idx :
           s # <<d, i>> => (table'[s[1]][s[2]].fr = f <=> table[s[1]][s[2]].fr = f)
  PROVE  Cardinality(Entries(f)') = Cardinality(Entries(f)) - Bit(table[d][i].fr = f)
                                      + Bit(table'[d][i].fr = f)
<1>. DEFINE x == <<d, i>>
<1>1. Entries(f)' = {s \in Frame \X Idx : table'[s[1]][s[2]].fr = f}
  BY DEF Entries
<1>2. Entries(f)' \ {x} = Entries(f) \ {x}
  BY <1>1 DEF Entries
<1>3. /\ x \in Entries(f) <=> table[d][i].fr = f
      /\ x \in Entries(f)' <=> table'[d][i].fr = f
  BY <1>1 DEF Entries
<1>4. Cardinality(Entries(f)') = Cardinality(Entries(f)) - Bit(x \in Entries(f))
                                   + Bit(x \in Entries(f)')
  BY <1>2, Countable, OneSlot
<1>. QED BY <1>3, <1>4 DEF Bit

\* Changing what one processor has loaded.
LEMMA LoadedStep ==
  ASSUME VmmAssumption, NEW f, NEW q \in Proc,
         \A s \in Proc \ {q} : cr3'[s] = cr3[s]
  PROVE  Cardinality(Loaded(f)') = Cardinality(Loaded(f)) - Bit(cr3[q] = f) + Bit(cr3'[q] = f)
<1>1. Loaded(f)' = {s \in Proc : cr3'[s] = f}
  BY DEF Loaded
<1>2. Loaded(f)' \ {q} = Loaded(f) \ {q}
  BY <1>1 DEF Loaded
<1>3. /\ q \in Loaded(f) <=> cr3[q] = f
      /\ q \in Loaded(f)' <=> cr3'[q] = f
  BY <1>1 DEF Loaded
<1>4. Cardinality(Loaded(f)') = Cardinality(Loaded(f)) - Bit(q \in Loaded(f))
                                  + Bit(q \in Loaded(f)')
  BY <1>2, Countable, OneSlot
<1>. QED BY <1>3, <1>4 DEF Bit

\* Changing what one process has in hand: one slot after another.
LEMMA HandStep ==
  ASSUME VmmAssumption, NEW f, NEW p \in Proc,
         \A q \in Proc \ {p}, k \in Keys : Holding(at'[q], k, f) <=> Holding(at[q], k, f)
  PROVE  Cardinality(InHand(f)') = Cardinality(InHand(f)) - Hand(at[p], f) + Hand(at'[p], f)
<1>. DEFINE Moved(K) == {s \in Proc \X Keys :
                           IF s[1] = p /\ s[2] \in K THEN Holding(at'[p], s[2], f)
                           ELSE Holding(at[s[1]], s[2], f)}
            A == Moved({})
            B == Moved({"pa"})
            C == Moved({"pa", "dst"})
            D == Moved({"pa", "dst", "new"})
            E == Moved(Keys)
<1>0. ASSUME NEW k \in Keys, NEW K, k \notin K
      PROVE  /\ Moved(K \cup {k}) \ {<<p, k>>} = Moved(K) \ {<<p, k>>}
             /\ <<p, k>> \in Moved(K) <=> Holding(at[p], k, f)
             /\ <<p, k>> \in Moved(K \cup {k}) <=> Holding(at'[p], k, f)
  BY <1>0
<1>1. InHand(f) = A /\ InHand(f)' = E
  <2>1. InHand(f) = A
    BY DEF InHand, Keys, Holding
  <2>2. InHand(f)' = {s \in Proc \X Keys : Holding(at'[s[1]], s[2], f)}
    BY DEF InHand, Keys, Holding
  <2>3. ASSUME NEW s \in Proc \X Keys
        PROVE Holding(at'[s[1]], s[2], f)
                <=> IF s[1] = p /\ s[2] \in Keys THEN Holding(at'[p], s[2], f)
                    ELSE Holding(at[s[1]], s[2], f)
    BY <2>3
  <2>. QED BY <2>1, <2>2, <2>3
<1>2. IsFiniteSet(A) /\ Cardinality(A) \in Nat
  <2>1. IsFiniteSet(InHand(f)) /\ Cardinality(InHand(f)) \in Nat
    BY Countable
  <2>. QED BY <1>1, <2>1
<1>. HIDE DEF Moved
<1>3. {"pa"} = {} \cup {"pa"} /\ {"pa", "dst"} = {"pa"} \cup {"dst"}
      /\ {"pa", "dst", "new"} = {"pa", "dst"} \cup {"new"}
      /\ Keys = {"pa", "dst", "new"} \cup {"old"}
      /\ "pa" \in Keys /\ "dst" \in Keys /\ "new" \in Keys /\ "old" \in Keys
  BY DEF Keys
<1>4. /\ IsFiniteSet(B)
      /\ Cardinality(B) = Cardinality(A) - Bit(Holding(at[p], "pa", f))
                            + Bit(Holding(at'[p], "pa", f))
  <2>. DEFINE x == <<p, "pa">>
  <2>1. /\ B \ {x} = A \ {x} /\ (x \in A <=> Holding(at[p], "pa", f))
        /\ (x \in B <=> Holding(at'[p], "pa", f))
    BY <1>0, <1>3
  <2>2. IsFiniteSet(B) /\ Cardinality(B) = Cardinality(A) - Bit(x \in A) + Bit(x \in B)
    BY <1>2, <2>1, OneSlot
  <2>. QED BY <2>1, <2>2 DEF Bit
<1>5. /\ IsFiniteSet(C)
      /\ Cardinality(C) = Cardinality(B) - Bit(Holding(at[p], "dst", f))
                            + Bit(Holding(at'[p], "dst", f))
  <2>. DEFINE x == <<p, "dst">>
  <2>1. /\ C \ {x} = B \ {x} /\ (x \in B <=> Holding(at[p], "dst", f))
        /\ (x \in C <=> Holding(at'[p], "dst", f))
    BY <1>0, <1>3
  <2>2. IsFiniteSet(C) /\ Cardinality(C) = Cardinality(B) - Bit(x \in B) + Bit(x \in C)
    BY <1>4, <2>1, OneSlot
  <2>. QED BY <2>1, <2>2 DEF Bit
<1>6. /\ IsFiniteSet(D)
      /\ Cardinality(D) = Cardinality(C) - Bit(Holding(at[p], "new", f))
                            + Bit(Holding(at'[p], "new", f))
  <2>. DEFINE x == <<p, "new">>
  <2>1. /\ D \ {x} = C \ {x} /\ (x \in C <=> Holding(at[p], "new", f))
        /\ (x \in D <=> Holding(at'[p], "new", f))
    BY <1>0, <1>3
  <2>2. IsFiniteSet(D) /\ Cardinality(D) = Cardinality(C) - Bit(x \in C) + Bit(x \in D)
    BY <1>5, <2>1, OneSlot
  <2>. QED BY <2>1, <2>2 DEF Bit
<1>7. /\ IsFiniteSet(E)
      /\ Cardinality(E) = Cardinality(D) - Bit(Holding(at[p], "old", f))
                            + Bit(Holding(at'[p], "old", f))
  <2>. DEFINE x == <<p, "old">>
  <2>1. /\ E \ {x} = D \ {x} /\ (x \in D <=> Holding(at[p], "old", f))
        /\ (x \in E <=> Holding(at'[p], "old", f))
    BY <1>0, <1>3
  <2>2. IsFiniteSet(E) /\ Cardinality(E) = Cardinality(D) - Bit(x \in D) + Bit(x \in E)
    BY <1>6, <2>1, OneSlot
  <2>. QED BY <2>1, <2>2 DEF Bit
<1>8. \A b : Bit(b) \in Nat
  BY DEF Bit
<1>9. /\ Cardinality(B) \in Int /\ Cardinality(C) \in Int /\ Cardinality(D) \in Int
  BY <1>4, <1>5, <1>6, <1>2, <1>8
<1>. QED BY <1>1, <1>2, <1>4, <1>5, <1>6, <1>7, <1>8, <1>9 DEF Hand

\* The size of a step's effect on the references to a frame.
LEMMA ReferencesStep ==
  ASSUME VmmAssumption, NEW f
  PROVE  /\ References(f) = Cardinality(Entries(f)) + Cardinality(InHand(f))
                              + Cardinality(Loaded(f))
         /\ References(f)' = Cardinality(Entries(f)') + Cardinality(InHand(f)')
                              + Cardinality(Loaded(f)')
         /\ References(f) \in Nat
<1>1. /\ References(f) = Cardinality(Entries(f)) + Cardinality(InHand(f))
                              + Cardinality(Loaded(f))
      /\ References(f)' = Cardinality(Entries(f)') + Cardinality(InHand(f)')
                              + Cardinality(Loaded(f)')
  BY DEF References, Loaded
<1>. QED BY <1>1, Countable

\* A set with no more than one element.
LEMMA NoTwo ==
  ASSUME NEW S, IsFiniteSet(S), Cardinality(S) <= 1, NEW x \in S, NEW y \in S PROVE x = y
<1>1. CASE x # y
  <2>1. IsFiniteSet({x}) /\ Cardinality({x}) = 1
    BY FS_Singleton
  <2>2. Cardinality({x} \cup {y}) = 2
    <3>1. y \notin {x}
      BY <1>1
    <3>2. Cardinality({x} \cup {y}) = Cardinality({x}) + 1
      BY ONLY <2>1, <3>1, FS_AddElement
    <3>. QED BY ONLY <2>1, <3>2
  <2>3. {x} \cup {y} \in SUBSET S
    OBVIOUS
  <2>4. Cardinality({x} \cup {y}) <= Cardinality(S)
    BY <2>3, FS_Subset
  <2>5. Cardinality(S) \in Nat /\ Cardinality(S) <= 1
    BY FS_CardinalityType
  <2>. QED BY ONLY <2>2, <2>4, <2>5
<1>. QED BY <1>1

\* Who refers to a frame with one reference is the only one to do so.
LEMMA AtMostOne ==
  ASSUME VmmAssumption, NEW f, References(f) <= 1
  PROVE  /\ \A x, y \in Entries(f) : x = y
         /\ \A x, y \in InHand(f) : x = y
         /\ \A x, y \in Loaded(f) : x = y
         /\ Entries(f) = {} \/ InHand(f) = {}
         /\ Entries(f) = {} \/ Loaded(f) = {}
         /\ InHand(f) = {} \/ Loaded(f) = {}
<1>1. /\ IsFiniteSet(Entries(f)) /\ IsFiniteSet(InHand(f)) /\ IsFiniteSet(Loaded(f))
      /\ Cardinality(Entries(f)) \in Nat /\ Cardinality(InHand(f)) \in Nat
      /\ Cardinality(Loaded(f)) \in Nat
      /\ References(f) = Cardinality(Entries(f)) + Cardinality(InHand(f))
                              + Cardinality(Loaded(f))
  BY Countable, ReferencesStep
<1>2. /\ Cardinality(Entries(f)) <= 1 /\ Cardinality(InHand(f)) <= 1
      /\ Cardinality(Loaded(f)) <= 1
      /\ Cardinality(Entries(f)) = 0 \/ Cardinality(InHand(f)) = 0
      /\ Cardinality(Entries(f)) = 0 \/ Cardinality(Loaded(f)) = 0
      /\ Cardinality(InHand(f)) = 0 \/ Cardinality(Loaded(f)) = 0
  BY <1>1
<1>3. /\ Cardinality(Entries(f)) = 0 <=> Entries(f) = {}
      /\ Cardinality(InHand(f)) = 0 <=> InHand(f) = {}
      /\ Cardinality(Loaded(f)) = 0 <=> Loaded(f) = {}
  BY <1>1, FS_EmptySet
<1>4. \A x, y \in Entries(f) : x = y
  BY <1>1, <1>2, NoTwo
<1>5. \A x, y \in InHand(f) : x = y
  BY <1>1, <1>2, NoTwo
<1>6. \A x, y \in Loaded(f) : x = y
  BY <1>1, <1>2, NoTwo
<1>. QED BY <1>2, <1>3, <1>4, <1>5, <1>6

\* And a frame with no reference is one that nobody refers to.
LEMMA NoReference ==
  ASSUME VmmAssumption, NEW f, References(f) <= 0
  PROVE  Entries(f) = {} /\ InHand(f) = {} /\ Loaded(f) = {}
<1>1. /\ IsFiniteSet(Entries(f)) /\ IsFiniteSet(InHand(f)) /\ IsFiniteSet(Loaded(f))
      /\ Cardinality(Entries(f)) \in Nat /\ Cardinality(InHand(f)) \in Nat
      /\ Cardinality(Loaded(f)) \in Nat
      /\ References(f) = Cardinality(Entries(f)) + Cardinality(InHand(f))
                              + Cardinality(Loaded(f))
  BY Countable, ReferencesStep
<1>2. /\ Cardinality(Entries(f)) = 0 /\ Cardinality(InHand(f)) = 0 /\ Cardinality(Loaded(f)) = 0
  BY <1>1
<1>. QED BY <1>1, <1>2, FS_EmptySet

-----------------------------------------------------------------------------
(* The inductive invariant.                                                 *)

\* Directories: those loaded, and those copy_pd is still filling.
Dirs == {d \in Frame : \E p \in Proc : cr3[p] = d \/ at[p].new = d}

\* The frames that somebody must be alone in referring to: directories, the
\* tables that copy_pt is filling, and what a writable private directory entry
\* points to.
Rooted(p, f) == f \in {cr3[p], at[p].new, at[p].dst}
Under(f, d, i) == Eager(table[d][i]) /\ table[d][i].fr = f
Exclusive(f) == \/ \E p \in Proc : Rooted(p, f)
                \/ \E d \in Dirs, i \in Idx : Under(f, d, i)
ExclusiveOnce == \A f \in Frame : Exclusive(f) => rc[f] = 1

\* Frames that are no tables have no entries: those the allocator has, those
\* that a table which is no directory points to, and a fault's new page.
FreeEmpty == \A f \in free : rc[f] = 0 /\ table[f] = EmptyTable
LeavesEmpty == \A d \in Frame \ Dirs, i \in Idx :
                 table[d][i].fr \in Frame => table[table[d][i].fr] = EmptyTable
NewPageEmpty == \A p \in Proc : at[p].pa \in Frame => table[at[p].pa] = EmptyTable

Counted == \A f \in Frame : References(f) <= rc[f]

\* A table being destroyed is nobody else's, and its entries go one by one.
Dooming(p) == /\ rc[at[p].old] = 0 /\ at[p].old \notin free
              /\ \A i \in Idx \ at[p].ptes : table[at[p].old][i] = Absent
              /\ \A q \in Proc : at[q].pc = "doom" /\ at[q].old = at[p].old => p = q
Dooms == \A p \in Proc : at[p].pc = "doom" => Dooming(p)

\* What an activation record holds at each point of each job (more than Coherent).
Record(p) ==
    LET a == at[p]
    IN /\ a.job \in {"user", "unborn", "born"} => a.pc = "none" /\ a.dst = NoFrame
       /\ a.job \in {"unborn", "born"} => cr3[p] = NoFrame /\ a.new = NoFrame
       /\ a.job = "fault" => a.pc \in {"pde", "copypt", "drop", "doom", "pte", "swap"}
       /\ a.job = "fork" => a.pc \in {"dir", "copypt"}
       /\ a.job = "exec" => a.pc \in {"dir", "drop", "doom", "clearpt"}
       /\ a.job = "exit" => a.pc \in {"dir", "drop", "doom"}
       /\ a.pa \in Frame <=> a.job = "fault"
       /\ a.new \in Frame <=> a.job = "fork"
       /\ a.dst \in Frame <=> a.pc = "copypt"
       /\ a.old \in Frame => a.pc \in {"drop", "doom", "swap"}
Records == \A p \in Proc : Record(p)

\* A fork's child is born, and of one parent.
Kids == \A p \in Proc : at[p].job = "fork" =>
          /\ at[at[p].kid].job = "born"
          /\ \A q \in Proc : at[q].job = "fork" /\ at[q].kid = at[p].kid => q = p

\* How far a fault or a fork is with p's own directory, whatever the others do.
Progress(p) ==
    LET a == at[p]
    IN /\ a.pc = "copypt" => Pde(p, Dir(p)) = a.pde
       /\ a.job = "fault" /\ a.pc \notin {"pde", "copypt"} => Eager(Pde(p, a.va[1]))
       /\ a.pc = "swap" => Pte(p, a.va).fr = a.old
Progresses == \A p \in Proc : Progress(p)

VmmInv == /\ TypeOK /\ Counted /\ ExclusiveOnce
          /\ FreeEmpty /\ LeavesEmpty /\ NewPageEmpty
          /\ Dooms /\ Records /\ Kids /\ Progresses

-----------------------------------------------------------------------------
(* What the invariant says of single frames.                                *)

\* The one who refers to an exclusive frame is alone.
LEMMA Alone ==
  ASSUME VmmAssumption, VmmInv, NEW f \in Frame, Exclusive(f)
  PROVE  /\ rc[f] = 1 /\ References(f) <= 1
         /\ \A p \in Proc : Rooted(p, f) =>
              /\ \A q \in Proc : Rooted(q, f) => p = q
              /\ \A d \in Frame, i \in Idx : table[d][i].fr # f
         /\ \A d, g \in Frame, i, j \in Idx :
              table[d][i].fr = f /\ table[g][j].fr = f => d = g /\ i = j
         /\ \A p \in Proc : cr3[p] = f => at[p].new # f /\ at[p].dst # f
         /\ \A p \in Proc : at[p].new = f => at[p].dst # f
         /\ \A p \in Proc : at[p].pa # f
         /\ \A p \in Proc : at[p].pc = "drop" => at[p].old # f
<1>1. rc[f] = 1 /\ References(f) <= 1
  BY DEF VmmInv, ExclusiveOnce, Counted
<1>2. /\ \A x, y \in Entries(f) : x = y
      /\ \A x, y \in InHand(f) : x = y
      /\ \A x, y \in Loaded(f) : x = y
      /\ Entries(f) = {} \/ InHand(f) = {}
      /\ Entries(f) = {} \/ Loaded(f) = {}
      /\ InHand(f) = {} \/ Loaded(f) = {}
  BY <1>1, AtMostOne
<1>3. /\ \A p \in Proc : cr3[p] = f => p \in Loaded(f)
      /\ \A p \in Proc : at[p].new = f => <<p, "new">> \in InHand(f)
      /\ \A p \in Proc : at[p].dst = f => <<p, "dst">> \in InHand(f)
      /\ \A p \in Proc : at[p].pa = f => <<p, "pa">> \in InHand(f)
      /\ \A p \in Proc : at[p].pc = "drop" /\ at[p].old = f => <<p, "old">> \in InHand(f)
      /\ \A d \in Frame, i \in Idx : table[d][i].fr = f => <<d, i>> \in Entries(f)
  BY DEF Loaded, InHand, Entries
<1>4. Loaded(f) # {} \/ InHand(f) # {} \/ Entries(f) # {}
  <2>1. CASE \E p \in Proc : Rooted(p, f)
    BY <1>3, <2>1 DEF Rooted
  <2>2. CASE \E d \in Dirs, i \in Idx : Under(f, d, i)
    BY <1>3, <2>2 DEF Under, Dirs
  <2>. QED BY <2>1, <2>2 DEF Exclusive
<1>5. ASSUME NEW p \in Proc, Rooted(p, f)
      PROVE  /\ \A q \in Proc : Rooted(q, f) => p = q
             /\ \A d \in Frame, i \in Idx : table[d][i].fr # f
  BY <1>2, <1>3, <1>5 DEF Rooted
<1>6. \A d, g \in Frame, i, j \in Idx :
        table[d][i].fr = f /\ table[g][j].fr = f => d = g /\ i = j
  BY <1>2, <1>3
<1>7. \A p \in Proc : cr3[p] = f => at[p].new # f /\ at[p].dst # f
  BY <1>2, <1>3
<1>8. \A p \in Proc : at[p].new = f => at[p].dst # f
  BY <1>2, <1>3
<1>9. ASSUME NEW p \in Proc PROVE at[p].pa # f /\ (at[p].pc = "drop" => at[p].old # f)
  <2>1. CASE \E q \in Proc : Rooted(q, f)
    BY <1>2, <1>3, <2>1 DEF Rooted
  <2>2. CASE \E d \in Dirs, i \in Idx : Under(f, d, i)
    BY <1>2, <1>3, <2>2 DEF Under, Dirs
  <2>. QED BY <2>1, <2>2 DEF Exclusive
<1>. QED BY <1>1, <1>5, <1>6, <1>7, <1>8, <1>9

\* Nobody refers to a frame whose count is zero.
LEMMA Unreferenced ==
  ASSUME VmmAssumption, VmmInv, NEW f \in Frame, rc[f] = 0
  PROVE  /\ ~Exclusive(f)
         /\ \A d \in Frame, i \in Idx : table[d][i].fr # f
         /\ \A p \in Proc : /\ cr3[p] # f /\ at[p].new # f /\ at[p].dst # f /\ at[p].pa # f
                            /\ at[p].pc = "drop" => at[p].old # f
<1>1. References(f) <= 0 /\ ~Exclusive(f)
  BY DEF VmmInv, Counted, ExclusiveOnce
<1>2. Entries(f) = {} /\ InHand(f) = {} /\ Loaded(f) = {}
  BY <1>1, NoReference
<1>3. ASSUME NEW p \in Proc
      PROVE  /\ cr3[p] # f /\ at[p].new # f /\ at[p].dst # f /\ at[p].pa # f
             /\ at[p].pc = "drop" => at[p].old # f
  <2>1. /\ cr3[p] = f => p \in Loaded(f)
        /\ at[p].new = f => <<p, "new">> \in InHand(f)
        /\ at[p].dst = f => <<p, "dst">> \in InHand(f)
        /\ at[p].pa = f => <<p, "pa">> \in InHand(f)
        /\ at[p].pc = "drop" /\ at[p].old = f => <<p, "old">> \in InHand(f)
    BY DEF Loaded, InHand
  <2>. QED BY <1>2, <2>1
<1>4. ASSUME NEW d \in Frame, NEW i \in Idx PROVE table[d][i].fr # f
  <2>1. table[d][i].fr = f => <<d, i>> \in Entries(f)
    BY DEF Entries
  <2>. QED BY <1>2, <2>1
<1>. QED BY <1>1, <1>3, <1>4

\* A frame that somebody refers to has a count.
LEMMA Referenced ==
  ASSUME VmmAssumption, VmmInv, NEW f \in Frame,
         \/ \E d \in Frame, i \in Idx : table[d][i].fr = f
         \/ \E p \in Proc : \/ cr3[p] = f \/ at[p].new = f \/ at[p].dst = f \/ at[p].pa = f
                            \/ at[p].pc = "drop" /\ at[p].old = f
  PROVE  rc[f] >= 1 /\ f \notin free
<1>1. rc[f] # 0
  BY Unreferenced
<1>2. References(f) \in Nat /\ References(f) <= rc[f] /\ rc[f] \in Int
  BY ReferencesStep DEF VmmInv, Counted, TypeOK
<1>3. f \notin free
  BY <1>1 DEF VmmInv, FreeEmpty
<1>. QED BY <1>1, <1>2, <1>3

\* An exclusive one has a reference.
LEMMA ExclusiveReferenced ==
  ASSUME VmmAssumption, NEW f PROVE Exclusive(f) => References(f) >= 1
<1>. SUFFICES ASSUME Exclusive(f) PROVE References(f) >= 1
  OBVIOUS
<1>1. /\ \A p \in Proc : cr3[p] = f => p \in Loaded(f)
      /\ \A p \in Proc : at[p].new = f => <<p, "new">> \in InHand(f)
      /\ \A p \in Proc : at[p].dst = f => <<p, "dst">> \in InHand(f)
      /\ \A d \in Frame, i \in Idx : table[d][i].fr = f => <<d, i>> \in Entries(f)
  BY DEF Loaded, InHand, Entries
<1>2. Loaded(f) # {} \/ InHand(f) # {} \/ Entries(f) # {}
  <2>1. CASE \E p \in Proc : Rooted(p, f)
    BY <1>1, <2>1 DEF Rooted
  <2>2. CASE \E d \in Dirs, i \in Idx : Under(f, d, i)
    BY <1>1, <2>2 DEF Under, Dirs
  <2>. QED BY <2>1, <2>2 DEF Exclusive
<1>3. /\ IsFiniteSet(Entries(f)) /\ Cardinality(Entries(f)) \in Nat
      /\ IsFiniteSet(InHand(f)) /\ Cardinality(InHand(f)) \in Nat
      /\ IsFiniteSet(Loaded(f)) /\ Cardinality(Loaded(f)) \in Nat
  BY Countable
<1>4. Cardinality(Entries(f)) # 0 \/ Cardinality(Loaded(f)) # 0 \/ Cardinality(InHand(f)) # 0
  BY <1>2, <1>3, FS_EmptySet
<1>. QED BY <1>3, <1>4, ReferencesStep

-----------------------------------------------------------------------------
(* Steps of the processes in a set M, which leave what the others own alone. *)

\* Table g is neither another's directory nor exclusively under one.
Apart(g, M) == \A q \in Proc \ M : cr3[q] \in Frame =>
                 g # cr3[q] /\ \A i \in Idx : ~Under(g, cr3[q], i)
Cleared(g) == \A i \in Idx : table'[g][i] \in {table[g][i], Absent}

\* f is in a table that is no directory.
Leaf(f) == \E d \in Frame \ Dirs, i \in Idx : table[d][i].fr = f

\* Counts and free frames: no exclusive frame gains a reference, what is freed
\* is empty, and what others are destroying is left alone.
Gentle(M) ==
  /\ \A f \in Frame : Exclusive(f) => rc'[f] <= rc[f]
  /\ \A f \in free' : rc'[f] = 0 /\ (table'[f] = EmptyTable \/ (table[f] = EmptyTable /\ ~Exclusive(f)))
  /\ \A q \in Proc \ M : at[q].pc = "doom" => rc'[at[q].old] = 0 /\ at[q].old \notin free'

\* Tables: who writes one owns it or only clears entries.
Tidy(M) ==
  /\ \A g \in Frame : \/ table'[g] = table[g]
                      \/ Apart(g, M) /\ (Exclusive(g) \/ Cleared(g))
  /\ \A f \in Frame, g \in Dirs', i \in Idx : Under(f, g, i)' => Exclusive(f) \/ rc'[f] = 1
  /\ \A g \in Frame \ Dirs', i \in Idx :
       table'[g][i].fr \in Frame =>
         Leaf(table'[g][i].fr) \/ table'[table'[g][i].fr] = EmptyTable

\* The activations of M.
Proper(q) ==
  /\ \A f \in Frame : Rooted(q, f)' => Exclusive(f) \/ rc'[f] = 1
  /\ at'[q].pa \in Frame => at'[q].pa = at[q].pa \/ table'[at'[q].pa] = EmptyTable
  /\ at'[q].pc = "doom" => Dooming(q)'
  /\ Record(q)' /\ Progress(q)'

\* What a leaf entry or a new page points to has no entries, and is not exclusive.
LEMMA Leaves ==
  ASSUME VmmAssumption, VmmInv, NEW f \in Frame, Leaf(f) \/ \E p \in Proc : at[p].pa = f
  PROVE  table[f] = EmptyTable /\ ~Exclusive(f)
<1>1. CASE Leaf(f)
  <2>1. PICK d \in Frame \ Dirs, i \in Idx : table[d][i].fr = f
    BY <1>1 DEF Leaf
  <2>2. table[f] = EmptyTable
    BY <2>1 DEF VmmInv, LeavesEmpty
  <2>3. ASSUME Exclusive(f) PROVE FALSE
    <3>1. \A p \in Proc : ~Rooted(p, f)
      BY <2>1, <2>3, Alone
    <3>2. PICK g \in Dirs, j \in Idx : Under(f, g, j)
      BY <2>3, <3>1 DEF Exclusive
    <3>3. g = d
      BY <2>1, <2>3, <3>2, Alone DEF Under, Dirs
    <3>. QED BY <2>1, <3>2, <3>3
  <2>. QED BY <2>2, <2>3
<1>2. CASE \E p \in Proc : at[p].pa = f
  <2>1. table[f] = EmptyTable
    BY <1>2 DEF VmmInv, NewPageEmpty
  <2>. QED BY <1>2, <2>1, Alone
<1>. QED BY <1>1, <1>2

\* And it stays so.
LEMMA EmptyKept ==
  ASSUME VmmAssumption, VmmInv, TypeOK', NEW M, Tidy(M), NEW f \in Frame,
         table[f] = EmptyTable, ~Exclusive(f)
  PROVE  table'[f] = EmptyTable
<1>1. CASE table'[f] = table[f]
  BY <1>1
<1>2. CASE Cleared(f)
  <2>1. \A i \in Idx : table'[f][i] = Absent
    BY <1>2 DEF Cleared, EmptyTable
  <2>2. table'[f] \in [Idx -> Entry]
    BY DEF TypeOK
  <2>. QED BY <2>1, <2>2 DEF EmptyTable
<1>. QED BY <1>1, <1>2 DEF Tidy

\* What the others have done so far stands.
LEMMA ProgressKept ==
  ASSUME VmmAssumption, VmmInv, TypeOK', NEW M, Tidy(M), NEW q \in Proc \ M,
         at'[q] = at[q], cr3'[q] = cr3[q]
  PROVE  Progress(q)'
<1>1. Progress(q) /\ Record(q) /\ Coherent(q) /\ at[q] \in Activation
  BY DEF VmmInv, Progresses, Records, TypeOK
<1>. SUFFICES ASSUME at[q].job \notin {"unborn", "born"} PROVE Progress(q)'
  BY <1>1 DEF Progress, Record
<1>2. cr3[q] \in Frame
  BY <1>1 DEF Coherent
<1>3. table'[cr3[q]] = table[cr3[q]]
  BY <1>2 DEF Tidy, Apart
<1>4. \A i : Pde(q, i)' = Pde(q, i)
  BY <1>3 DEF Pde
<1>5. Dir(q)' = Dir(q)
  BY DEF Dir
<1>6. ASSUME at[q].pc = "swap" PROVE Pte(q, at[q].va)' = Pte(q, at[q].va)
  <2>. DEFINE i == at[q].va[1]
              e == Pde(q, i)
  <2>1. at[q].job = "fault" /\ at[q].va \in Touched
    BY <1>1, <1>6 DEF Record, Coherent, Activation, Jobs
  <2>2. i \in Idx
    BY <2>1 DEF VmmAssumption, VA
  <2>3. e \in Entry /\ Eager(e)
    BY <1>1, <1>2, <1>6, <2>1, <2>2, PdeTyped DEF VmmInv, Progress
  <2>4. e.fr \in Frame
    BY <2>3, PrivateEntries DEF Eager
  <2>5. Under(e.fr, cr3[q], i)
    BY <2>3 DEF Under, Pde
  <2>6. table'[e.fr] = table[e.fr]
    BY <1>2, <2>2, <2>4, <2>5 DEF Tidy, Apart
  <2>7. PT(e)' = PT(e)
    <3>1. PT(e)' = table'[Pde(q, i)'.fr]
      BY <1>4, <2>4 DEF PT
    <3>. QED BY <1>4, <2>4, <2>6, <3>1 DEF PT
  <2>. QED BY <1>4, <2>7 DEF Pte
<1>. QED BY <1>1, <1>4, <1>5, <1>6 DEF Progress

\* A step of M that is gentle, tidy and proper keeps the invariant.
LEMMA Kept ==
  ASSUME VmmAssumption, VmmInv, TypeOK', Counted', NEW M \in SUBSET Proc,
         \A q \in Proc \ M : at'[q] = at[q] /\ cr3'[q] = cr3[q],
         Gentle(M), Tidy(M), \A q \in M : Proper(q), Kids'
  PROVE  VmmInv'
<1>1. ExclusiveOnce'
  <2>. SUFFICES ASSUME NEW f \in Frame, Exclusive(f)' PROVE rc'[f] = 1
    BY DEF ExclusiveOnce
  <2>1. Exclusive(f) \/ rc'[f] = 1
    <3>1. CASE \E q \in M : Rooted(q, f)'
      BY <3>1 DEF Proper
    <3>2. CASE \E q \in Proc \ M : Rooted(q, f)'
      BY <3>2 DEF Rooted, Exclusive
    <3>3. CASE \E d \in Dirs', i \in Idx : Under(f, d, i)'
      BY <3>3 DEF Tidy
    <3>. QED BY <3>1, <3>2, <3>3 DEF Exclusive
  <2>2. CASE Exclusive(f)
    <3>1. rc'[f] <= 1
      BY <2>2, Alone DEF Gentle
    <3>2. (References(f) >= 1)'
      BY ExclusiveReferenced, PTL
    <3>3. References(f)' <= rc'[f] /\ rc'[f] \in Int /\ References(f)' \in Nat
      <4>1. (References(f) \in Nat)'
        BY ReferencesStep, PTL
      <4>. QED BY <4>1 DEF Counted, TypeOK
    <3>. QED BY <3>1, <3>2, <3>3
  <2>. QED BY <2>1, <2>2
<1>2. FreeEmpty'
  <2>. SUFFICES ASSUME NEW f \in free' PROVE rc'[f] = 0 /\ table'[f] = EmptyTable
    BY DEF FreeEmpty
  <2>1. f \in Frame
    BY DEF TypeOK
  <2>. QED BY <2>1, EmptyKept DEF Gentle
<1>3. LeavesEmpty'
  <2>. SUFFICES ASSUME NEW d \in Frame \ Dirs', NEW i \in Idx, table'[d][i].fr \in Frame
                PROVE  table'[table'[d][i].fr] = EmptyTable
    BY DEF LeavesEmpty
  <2>1. PICK f \in Frame : f = table'[d][i].fr
    OBVIOUS
  <2>2. CASE Leaf(f)
    BY <2>1, <2>2, Leaves, EmptyKept
  <2>. QED BY <2>1, <2>2 DEF Tidy
<1>4. NewPageEmpty'
  <2>. SUFFICES ASSUME NEW q \in Proc, at'[q].pa \in Frame PROVE table'[at'[q].pa] = EmptyTable
    BY DEF NewPageEmpty
  <2>1. CASE at'[q].pa = at[q].pa
    BY <2>1, Leaves, EmptyKept
  <2>. QED BY <2>1 DEF Proper
<1>5. Dooms'
  <2>. SUFFICES ASSUME NEW q \in Proc, at'[q].pc = "doom" PROVE Dooming(q)'
    BY DEF Dooms
  <2>1. CASE q \in M
    BY <2>1 DEF Proper
  <2>2. CASE q \notin M
    <3>1. at'[q] = at[q] /\ at[q].pc = "doom" /\ Dooming(q) /\ at[q].old \in Frame
      BY <2>2 DEF VmmInv, Dooms, TypeOK, Coherent
    <3>2. rc'[at[q].old] = 0 /\ at[q].old \notin free'
      BY <2>2, <3>1 DEF Gentle
    <3>3. ~Exclusive(at[q].old)
      BY <3>1, Unreferenced DEF Dooming
    <3>4. \A i \in Idx \ at[q].ptes : table'[at[q].old][i] = Absent
      <4>1. CASE table'[at[q].old] = table[at[q].old]
        BY <3>1, <4>1 DEF Dooming
      <4>2. CASE Cleared(at[q].old)
        BY <3>1, <4>2 DEF Dooming, Cleared
      <4>. QED BY <3>1, <3>3, <4>1, <4>2 DEF Tidy
    <3>5. ASSUME NEW r \in Proc, at'[r].pc = "doom", at'[r].old = at'[q].old PROVE q = r
      <4>1. CASE r \in M
        <5>1. Dooming(r)'
          BY <3>5, <4>1 DEF Proper
        <5>. QED BY <3>1, <3>5, <5>1 DEF Dooming
      <4>2. CASE r \notin M
        BY <3>1, <3>5, <4>2 DEF Dooming
      <4>. QED BY <4>1, <4>2
    <3>. QED BY <3>1, <3>2, <3>4, <3>5 DEF Dooming
  <2>. QED BY <2>1, <2>2
<1>6. Records'
  <2>1. ASSUME NEW q \in Proc \ M PROVE Record(q)'
    BY <2>1 DEF VmmInv, Records, Record
  <2>. QED BY <2>1 DEF Records, Proper
<1>7. Progresses'
  <2>1. ASSUME NEW q \in Proc \ M PROVE Progress(q)'
    BY <2>1, ProgressKept
  <2>. QED BY <2>1 DEF Progresses, Proper
<1>. QED BY <1>1, <1>2, <1>3, <1>4, <1>5, <1>6, <1>7 DEF VmmInv

-----------------------------------------------------------------------------
(* What the four ways to change a count do.                                 *)

\* Most steps leave counts alone.
LEMMA SameGentle ==
  ASSUME VmmAssumption, VmmInv, NEW M, UNCHANGED <<rc, free>> PROVE Gentle(M)
<1>1. \A f \in free : f \in Frame /\ rc[f] = 0 /\ table[f] = EmptyTable /\ ~Exclusive(f)
  BY Unreferenced DEF VmmInv, TypeOK, FreeEmpty
<1>2. \A q \in Proc : at[q].pc = "doom" => rc[at[q].old] = 0 /\ at[q].old \notin free
  BY DEF VmmInv, Dooms, Dooming
<1>3. \A f \in Frame : rc[f] \in Int
  BY DEF VmmInv, TypeOK
<1>. QED BY <1>1, <1>2, <1>3 DEF Gentle

\* What is allocated nobody refers to, and it has no entries.
LEMMA Allocated ==
  ASSUME VmmAssumption, VmmInv, AllocFrame \/ \E f \in Frame : AllocCopy(f)
  PROVE  /\ Fresh \in Frame /\ rc[Fresh] = 0 /\ table[Fresh] = EmptyTable /\ ~Exclusive(Fresh)
         /\ rc'[Fresh] = 1 /\ \A f \in Frame \ {Fresh} : rc'[f] = rc[f]
         /\ \A M : Gentle(M)
<1>1. /\ free # {} /\ free' = free \ {Fresh} /\ rc' = [rc EXCEPT ![Fresh] = 1]
      /\ free \subseteq Frame /\ rc \in [Frame -> Int]
  BY DEF AllocFrame, AllocCopy, VmmInv, TypeOK
<1>2. Fresh \in free
  BY <1>1, FreshFree
<1>3. \A f \in free : f \in Frame /\ rc[f] = 0 /\ table[f] = EmptyTable /\ ~Exclusive(f)
  BY <1>1, Unreferenced DEF VmmInv, FreeEmpty
<1>4. /\ Fresh \in Frame
      /\ rc'[Fresh] = 1 /\ \A f \in Frame \ {Fresh} : rc'[f] = rc[f]
  BY <1>1, <1>2
<1>5. ASSUME NEW M PROVE Gentle(M)
  <2>1. \A f \in Frame : Exclusive(f) => rc'[f] <= rc[f]
    BY <1>1, <1>2, <1>3, <1>4
  <2>2. \A f \in free' : rc'[f] = 0 /\ table[f] = EmptyTable /\ ~Exclusive(f)
    BY <1>1, <1>3
  <2>3. ASSUME NEW q \in Proc, at[q].pc = "doom"
        PROVE  rc'[at[q].old] = 0 /\ at[q].old \notin free'
    <3>1. rc[at[q].old] = 0 /\ at[q].old \notin free /\ at[q].old \in Frame
      BY <2>3 DEF VmmInv, Dooms, Dooming, TypeOK, Coherent
    <3>. QED BY <1>1, <1>2, <3>1
  <2>. QED BY <2>1, <2>2, <2>3 DEF Gentle
<1>. QED BY <1>2, <1>3, <1>4, <1>5

\* incref, of what an entry that is not exclusive points to.
LEMMA IncGentle ==
  ASSUME VmmAssumption, VmmInv, NEW M, NEW g \in Frame, IncRef(g), ~Exclusive(g), rc[g] >= 1
  PROVE  Gentle(M)
<1>1. free' = free /\ rc' = [rc EXCEPT ![g] = @ + 1] /\ rc \in [Frame -> Int]
  BY DEF IncRef, VmmInv, TypeOK
<1>2. \A f \in free : f \in Frame /\ rc[f] = 0 /\ table[f] = EmptyTable /\ ~Exclusive(f)
  BY Unreferenced DEF VmmInv, TypeOK, FreeEmpty
<1>3. \A q \in Proc : at[q].pc = "doom" =>
                        rc[at[q].old] = 0 /\ at[q].old \notin free /\ at[q].old \in Frame
  BY DEF VmmInv, Dooms, Dooming, TypeOK, Coherent
<1>4. \A f \in Frame \ {g} : rc'[f] = rc[f]
  BY <1>1
<1>5. \A f \in Frame : Exclusive(f) => rc'[f] <= rc[f]
  BY <1>1, <1>4
<1>6. \A f \in free' : rc'[f] = 0 /\ table[f] = EmptyTable /\ ~Exclusive(f)
  BY <1>1, <1>2, <1>4
<1>7. \A q \in Proc : at[q].pc = "doom" => rc'[at[q].old] = 0 /\ at[q].old \notin free'
  BY <1>1, <1>3, <1>4
<1>. QED BY <1>5, <1>6, <1>7 DEF Gentle

\* decref, of a frame that has no entries, or has none any more.
LEMMA DecGentle ==
  ASSUME VmmAssumption, VmmInv, NEW M, NEW g \in Frame, DecRef(g), rc[g] >= 1,
         table'[g] = EmptyTable \/ (table[g] = EmptyTable /\ ~Exclusive(g))
  PROVE  Gentle(M)
<1>1. /\ rc' = [rc EXCEPT ![g] = @ - 1] /\ rc \in [Frame -> Int]
      /\ free' = IF rc[g] = 1 THEN free \cup {g} ELSE free
  BY DEF DecRef, VmmInv, TypeOK
<1>2. \A f \in free : f \in Frame /\ rc[f] = 0 /\ table[f] = EmptyTable /\ ~Exclusive(f)
  BY Unreferenced DEF VmmInv, TypeOK, FreeEmpty
<1>3. \A q \in Proc : at[q].pc = "doom" =>
                        rc[at[q].old] = 0 /\ at[q].old \notin free /\ at[q].old \in Frame
  BY DEF VmmInv, Dooms, Dooming, TypeOK, Coherent
<1>4. rc'[g] = rc[g] - 1 /\ rc[g] \in Int /\ \A f \in Frame \ {g} : rc'[f] = rc[f]
  BY <1>1
<1>5. \A f \in Frame : Exclusive(f) => rc'[f] <= rc[f]
  BY <1>1, <1>4
<1>6. ASSUME NEW f \in free'
      PROVE  rc'[f] = 0 /\ (table'[f] = EmptyTable \/ (table[f] = EmptyTable /\ ~Exclusive(f)))
  <2>1. CASE f = g
    <3>1. rc[g] = 1
      BY <1>1, <1>2, <1>6, <2>1
    <3>. QED BY <1>4, <2>1, <3>1
  <2>2. CASE f # g
    BY <1>1, <1>2, <1>4, <1>6, <2>2
  <2>. QED BY <2>1, <2>2
<1>7. \A q \in Proc : at[q].pc = "doom" => rc'[at[q].old] = 0 /\ at[q].old \notin free'
  BY <1>1, <1>3, <1>4
<1>. QED BY <1>5, <1>6, <1>7 DEF Gentle

-----------------------------------------------------------------------------
(* Whose a table is.                                                        *)

\* No two processes share a directory.
LEMMA OneOwner ==
  ASSUME VmmAssumption, VmmInv, NEW p \in Proc, NEW q \in Proc, cr3[p] = cr3[q], cr3[p] \in Frame
  PROVE  p = q
<1>1. Rooted(p, cr3[p]) /\ Rooted(q, cr3[p]) /\ Exclusive(cr3[p])
  BY DEF Rooted, Exclusive
<1>. QED BY <1>1, Alone

\* A table that p roots, or has exclusively under its directory, is p's.
LEMMA OwnApart ==
  ASSUME VmmAssumption, VmmInv, NEW M, NEW p \in M \cap Proc, NEW d \in Frame,
         \/ Rooted(p, d)
         \/ cr3[p] \in Frame /\ \E i \in Idx : Under(d, cr3[p], i)
  PROVE  Exclusive(d) /\ Apart(d, M)
<1>1. ASSUME NEW q \in Proc \ M, cr3[q] \in Frame, cr3[q] # cr3[p] \/ cr3[p] \notin Frame
      PROVE  d # cr3[q] /\ \A i \in Idx : ~Under(d, cr3[q], i)
  <2>1. CASE Rooted(p, d)
    <3>1. Exclusive(d) /\ p # q
      BY <2>1 DEF Exclusive
    <3>2. d # cr3[q]
      BY <2>1, <3>1, Alone DEF Rooted
    <3>. QED BY <1>1, <2>1, <3>1, <3>2, Alone DEF Under
  <2>2. CASE cr3[p] \in Frame /\ \E i \in Idx : Under(d, cr3[p], i)
    <3>1. PICK i \in Idx : Under(d, cr3[p], i)
      BY <2>2
    <3>2. Exclusive(d) /\ table[cr3[p]][i].fr = d
      BY <2>2, <3>1 DEF Exclusive, Dirs, Under
    <3>3. d # cr3[q]
      BY <2>2, <3>2, Alone DEF Rooted
    <3>4. ASSUME NEW j \in Idx PROVE table[cr3[q]][j].fr # d
      BY <1>1, <2>2, <3>2, Alone
    <3>. QED BY <3>3, <3>4 DEF Under
  <2>. QED BY <2>1, <2>2
<1>2. Exclusive(d)
  BY DEF Exclusive, Dirs
<1>3. \A q \in Proc \ M : cr3[q] \in Frame => cr3[q] # cr3[p]
  BY OneOwner
<1>. QED BY <1>1, <1>2, <1>3 DEF Apart

\* What p's directory points to is no directory, and no other's own table.
LEMMA BelowApart ==
  ASSUME VmmAssumption, VmmInv, NEW M, NEW p \in M \cap Proc, cr3[p] \in Frame,
         NEW i \in Idx, NEW d \in Frame, table[cr3[p]][i].fr = d
  PROVE  Apart(d, M) /\ d \notin Dirs /\ \A q \in Proc : ~Rooted(q, d)
<1>1. ASSUME NEW q \in Proc PROVE ~Rooted(q, d)
  <2>. SUFFICES ASSUME Rooted(q, d) PROVE FALSE
    OBVIOUS
  <2>1. Exclusive(d)
    BY DEF Exclusive
  <2>. QED BY <2>1, Alone
<1>2. ASSUME NEW q \in Proc \ M, cr3[q] \in Frame, NEW j \in Idx, Under(d, cr3[q], j)
      PROVE  FALSE
  <2>1. Exclusive(d) /\ table[cr3[q]][j].fr = d
    BY <1>2 DEF Exclusive, Dirs, Under
  <2>2. cr3[q] = cr3[p]
    BY <1>2, <2>1, Alone
  <2>. QED BY <1>2, <2>2, OneOwner
<1>. QED BY <1>1, <1>2 DEF Apart, Dirs, Rooted

\* Nor is one that nobody refers to.
LEMMA DoomApart ==
  ASSUME VmmAssumption, VmmInv, NEW M, NEW d \in Frame, rc[d] = 0
  PROVE  Apart(d, M)
  BY Unreferenced DEF Apart, Under

-----------------------------------------------------------------------------
(* The books: how far the count of a frame is above its references.         *)

Slack(f) == rc[f] - References(f)

\* A step that writes entry e at index i of table d.
Wrote(d, i, e) == table' = [table EXCEPT ![d][i] = e]

\* It writes nothing else.
LEMMA Written ==
  ASSUME TypeOK, NEW d \in Frame, NEW i \in Idx, NEW e, Wrote(d, i, e)
  PROVE  /\ table'[d][i] = e
         /\ \A g \in Frame, j \in Idx : g # d \/ j # i => table'[g][j] = table[g][j]
         /\ \A g \in Frame \ {d} : table'[g] = table[g]
<1>1. table \in [Frame -> [Idx -> Entry]] /\ table' = [table EXCEPT ![d][i] = e]
  BY DEF TypeOK, Wrote
<1>2. table'[d][i] = e /\ \A g \in Frame \ {d} : table'[g] = table[g]
  BY <1>1
<1>3. \A j \in Idx : j # i => table'[d][j] = table[d][j]
  BY <1>1
<1>. QED BY <1>2, <1>3

\* A step that writes entry e at index i of table d, and changes what p has in hand.
LEMMA SlackWrite ==
  ASSUME VmmAssumption, TypeOK, TypeOK', NEW p \in Proc, NEW f \in Frame,
         NEW d \in Frame, NEW i \in Idx, NEW e \in Entry,
         Wrote(d, i, e),
         \A q \in Proc \ {p} : at'[q] = at[q], UNCHANGED cr3
  PROVE  /\ Slack(f)' = Slack(f) + (rc'[f] - rc[f])
                     + Bit(table[d][i].fr = f) - Bit(e.fr = f)
                     + Hand(at[p], f) - Hand(at'[p], f)
         /\ Slack(f) \in Int /\ rc[f] \in Int /\ rc'[f] \in Int
         /\ Hand(at[p], f) \in Int /\ Hand(at'[p], f) \in Int
         /\ Bit(table[d][i].fr = f) \in {0, 1} /\ Bit(e.fr = f) \in {0, 1}
<1>2. \A s \in Frame \X Idx : s # <<d, i>> => table'[s[1]][s[2]] = table[s[1]][s[2]]
  <2>. TAKE s \in Frame \X Idx
  <2>1. s # <<d, i>> => s[1] # d \/ s[2] # i
    OBVIOUS
  <2>. QED BY <2>1, Written
<1>3. table'[d][i] = e
  BY Written
<1>4. Cardinality(Entries(f)') = Cardinality(Entries(f)) - Bit(table[d][i].fr = f)
                                      + Bit(e.fr = f)
  BY <1>2, <1>3, EntriesStep
<1>5. Cardinality(InHand(f)') = Cardinality(InHand(f)) - Hand(at[p], f) + Hand(at'[p], f)
  BY HandStep
<1>6. Loaded(f)' = Loaded(f)
  BY DEF Loaded
<1>7. /\ Cardinality(Entries(f)) \in Int /\ Cardinality(InHand(f)) \in Int
      /\ Cardinality(Loaded(f)) \in Int /\ rc[f] \in Int /\ rc'[f] \in Int
      /\ References(f) = Cardinality(Entries(f)) + Cardinality(InHand(f))
                              + Cardinality(Loaded(f))
      /\ References(f)' = Cardinality(Entries(f)') + Cardinality(InHand(f)')
                              + Cardinality(Loaded(f)')
      /\ Slack(f) = rc[f] - References(f) /\ Slack(f)' = rc'[f] - References(f)'
  BY Countable, ReferencesStep DEF TypeOK, Slack
<1>8. /\ Bit(table[d][i].fr = f) \in {0, 1} /\ Bit(e.fr = f) \in {0, 1}
      /\ Hand(at[p], f) \in Int /\ Hand(at'[p], f) \in Int
  BY DEF Bit, Hand
<1>9. Slack(f)' = Slack(f) + (rc'[f] - rc[f]) + Bit(table[d][i].fr = f) - Bit(e.fr = f)
                     + Hand(at[p], f) - Hand(at'[p], f)
  BY <1>4, <1>5, <1>6, <1>7, <1>8
<1>. QED BY <1>7, <1>8, <1>9

\* A step that changes what p has in hand and what q has loaded, if no entry
\* changes its frame.
LEMMA SlackHand ==
  ASSUME VmmAssumption, TypeOK, TypeOK', NEW p \in Proc, NEW q \in Proc, NEW f \in Frame,
         \A d \in Frame, i \in Idx : table'[d][i].fr = table[d][i].fr,
         \A r \in Proc \ {p}, k \in Keys : Holding(at'[r], k, f) <=> Holding(at[r], k, f),
         \A r \in Proc \ {q} : cr3'[r] = cr3[r]
  PROVE  Slack(f)' = Slack(f) + (rc'[f] - rc[f])
                     + Bit(cr3[q] = f) - Bit(cr3'[q] = f)
                     + Hand(at[p], f) - Hand(at'[p], f)
<1>1. Entries(f)' = Entries(f)
  BY DEF Entries
<1>2. Cardinality(InHand(f)') = Cardinality(InHand(f)) - Hand(at[p], f) + Hand(at'[p], f)
  BY HandStep
<1>3. Cardinality(Loaded(f)') = Cardinality(Loaded(f)) - Bit(cr3[q] = f) + Bit(cr3'[q] = f)
  BY LoadedStep
<1>7. /\ Cardinality(Entries(f)) \in Int /\ Cardinality(InHand(f)) \in Int
      /\ Cardinality(Loaded(f)) \in Int /\ rc[f] \in Int /\ rc'[f] \in Int
      /\ References(f) = Cardinality(Entries(f)) + Cardinality(InHand(f))
                              + Cardinality(Loaded(f))
      /\ References(f)' = Cardinality(Entries(f)') + Cardinality(InHand(f)')
                              + Cardinality(Loaded(f)')
      /\ Slack(f) = rc[f] - References(f) /\ Slack(f)' = rc'[f] - References(f)'
  BY Countable, ReferencesStep DEF TypeOK, Slack
<1>8. /\ Bit(cr3[q] = f) \in Int /\ Bit(cr3'[q] = f) \in Int
      /\ Hand(at[p], f) \in Int /\ Hand(at'[p], f) \in Int
  BY DEF Bit, Hand
<1>. QED BY <1>1, <1>2, <1>3, <1>7, <1>8

\* What an idle process, or one in a loop over its directory, has in hand: nothing.
LEMMA IdleHand ==
  ASSUME VmmAssumption, NEW f \in Frame, NEW p, NEW j
  PROVE  Hand(Idle(p, j), f) = 0 /\ Hand(Loop(p, j), f) = 0
  BY DEF VmmAssumption, Idle, Loop, Hand, Holding, Bit

\* Nothing is lost of the references that a count counts.
LEMMA SlackCounted ==
  ASSUME VmmAssumption, VmmInv, TypeOK', \A f \in Frame : Slack(f)' >= Slack(f)
  PROVE  Counted'
<1>. SUFFICES ASSUME NEW f \in Frame PROVE References(f)' <= rc'[f]
  BY DEF Counted
<1>1. Slack(f) >= 0 /\ rc[f] \in Int /\ rc'[f] \in Int
  BY ReferencesStep DEF VmmInv, Counted, Slack, TypeOK
<1>2. (References(f) \in Nat)'
  BY ReferencesStep, PTL
<1>3. Slack(f)' = rc'[f] - References(f)' /\ Slack(f) \in Int
  BY <1>1, ReferencesStep DEF Slack
<1>. QED BY <1>1, <1>2, <1>3

-----------------------------------------------------------------------------
(* Steps that change one activation record only.                            *)

\* A step of p leaves the forks of the others alone.
LEMMA KidsKept ==
  ASSUME VmmInv, NEW p \in Proc, at[p].job # "born",
         \A q \in Proc \ {p} : at'[q] = at[q],
         at'[p].job = "fork" => at[p].job = "fork" /\ at'[p].kid = at[p].kid
  PROVE  Kids'
<1>. SUFFICES ASSUME NEW q \in Proc, at'[q].job = "fork"
              PROVE  /\ at'[at'[q].kid].job = "born"
                     /\ \A r \in Proc : at'[r].job = "fork" /\ at'[r].kid = at'[q].kid => r = q
  BY DEF Kids
<1>1. \A r \in Proc : at'[r].job = "fork" => at[r].job = "fork" /\ at'[r].kid = at[r].kid
  OBVIOUS
<1>2. at[q].kid \in Proc /\ at[at[q].kid].job = "born"
  BY <1>1 DEF VmmInv, Kids, TypeOK, Activation
<1>. QED BY <1>1, <1>2 DEF VmmInv, Kids

\* Only pages change, if that.
LEMMA PagesOnly ==
  ASSUME VmmInv, TypeOK', UNCHANGED <<table, rc, free, cr3, at>>
  PROVE  VmmInv' /\ \A f \in Frame : Slack(f)' = Slack(f)
<1>1. \A f : References(f)' = References(f)
  BY DEF References, Entries, InHand
<1>2. \A f : Exclusive(f)' <=> Exclusive(f)
  BY DEF Exclusive, Rooted, Under, Dirs
<1>3. Dirs' = Dirs
  BY DEF Dirs
<1>4. \A p \in Proc : (Dooming(p)' <=> Dooming(p)) /\ (Record(p)' <=> Record(p))
  BY DEF Dooming, Record
<1>5. \A p \in Proc : Progress(p)' <=> Progress(p)
  <2>1. \A p, i : Pde(p, i)' = Pde(p, i)
    BY DEF Pde
  <2>2. \A e : PT(e)' = PT(e)
    BY DEF PT
  <2>3. \A p, va : Pte(p, va)' = Pte(p, va)
    BY <2>1, <2>2 DEF Pte
  <2>. QED BY <2>1, <2>3 DEF Progress, Dir
<1>6. (Counted /\ ExclusiveOnce)'
  BY <1>1, <1>2 DEF VmmInv, Counted, ExclusiveOnce
<1>7. (FreeEmpty /\ LeavesEmpty /\ NewPageEmpty)'
  BY <1>3 DEF VmmInv, FreeEmpty, LeavesEmpty, NewPageEmpty
<1>8. (Dooms /\ Records /\ Kids /\ Progresses)'
  BY <1>4, <1>5 DEF VmmInv, Dooms, Records, Kids, Progresses
<1>. QED BY <1>1, <1>6, <1>7, <1>8 DEF VmmInv, Slack

\* A table stays where it was, and so does what is exclusive.
LEMMA TidySame ==
  ASSUME VmmAssumption, VmmInv, NEW M, UNCHANGED table, Dirs' = Dirs PROVE Tidy(M)
<1>1. \A f \in Frame, g \in Dirs', i \in Idx : Under(f, g, i)' => Exclusive(f)
  BY DEF Under, Exclusive
<1>2. \A g \in Frame \ Dirs', i \in Idx : table'[g][i].fr \in Frame => Leaf(table'[g][i].fr)
  BY DEF Leaf
<1>. QED BY <1>1, <1>2 DEF Tidy

\* p takes its next step, with the same frames in hand or without the new page.
LEMMA LocalStepKept ==
  ASSUME VmmAssumption, VmmInv, TypeOK', NEW p \in Proc, at[p].job # "born",
         \A q \in Proc \ {p} : at'[q] = at[q], UNCHANGED <<table, cr3, rc, free>>,
         at'[p].pa \in {at[p].pa, NoFrame}, at'[p].dst = at[p].dst, at'[p].new = at[p].new,
         at[p].pc \notin {"drop", "doom"}, at'[p].pc \notin {"drop", "doom"},
         at'[p].job = "fork" => at[p].job = "fork" /\ at'[p].kid = at[p].kid,
         Record(p)', Progress(p)'
  PROVE  /\ VmmInv'
         /\ at'[p].pa = at[p].pa => \A f \in Frame : Slack(f)' = Slack(f)
<1>1. ASSUME NEW f \in Frame
      PROVE  Slack(f)' >= Slack(f) /\ (at'[p].pa = at[p].pa => Slack(f)' = Slack(f))
  <2>1. Slack(f)' = Slack(f) + (rc'[f] - rc[f]) + Bit(cr3[p] = f) - Bit(cr3'[p] = f)
                     + Hand(at[p], f) - Hand(at'[p], f)
    BY SlackHand DEF VmmInv
  <2>2. Hand(at'[p], f) = Hand(at[p], f) \/ Hand(at'[p], f) = Hand(at[p], f) - 1
    BY DEF Hand, Holding, Bit, VmmAssumption
  <2>3. at'[p].pa = at[p].pa => Hand(at'[p], f) = Hand(at[p], f)
    BY DEF Hand, Holding
  <2>4. Hand(at[p], f) \in Int /\ Bit(cr3[p] = f) \in Int /\ rc[f] \in Int /\ Slack(f) \in Int
    <3>1. rc[f] \in Int
      BY DEF VmmInv, TypeOK
    <3>. QED BY <3>1, ReferencesStep DEF Hand, Bit, Slack
  <2>. QED BY <2>1, <2>2, <2>3, <2>4
<1>2. Counted'
  BY <1>1, SlackCounted
<1>3. Dirs' = Dirs
  BY DEF Dirs
<1>4. Gentle({p}) /\ Tidy({p})
  BY <1>3, SameGentle, TidySame
<1>5. Proper(p)
  <2>1. \A f \in Frame : Rooted(p, f)' => Exclusive(f)
    BY DEF Rooted, Exclusive
  <2>. QED BY <2>1 DEF Proper, VmmAssumption
<1>6. Kids'
  BY KidsKept
<1>. QED BY <1>1, <1>2, <1>4, <1>5, <1>6, Kept

\* The steps that lose no reference.
Even == \A f \in Frame : Slack(f)' = Slack(f)

\* An absent entry refers to no frame.
LEMMA AbsentBit ==
  ASSUME VmmAssumption, NEW f \in Frame PROVE Bit(Absent.fr = f) = 0
  BY DEF Bit, Absent, Ent, VmmAssumption

\* What a process that acts is not.
LEMMA Acting ==
  ASSUME VmmInv, NEW p \in Proc, at[p].job \notin {"unborn", "born"}
  PROVE  /\ cr3[p] \in Frame /\ at[p] \in Activation /\ Record(p) /\ Progress(p)
         /\ TypeOK
         /\ at[p].pc = "doom" => Dooming(p)
  BY DEF VmmInv, TypeOK, Coherent, Records, Progresses, Dooms

\* A process in the middle of a job acts.
LEMMA ActingPc ==
  ASSUME VmmInv, NEW p \in Proc, at[p].pc # "none"
  PROVE  at[p].job \notin {"user", "unborn", "born"}
  BY DEF VmmInv, Records, Record

\* An idle process is one, and so is one at the start of its loop.
LEMMA IdleProper ==
  ASSUME VmmAssumption, NEW p \in Proc,
         \/ at'[p] = Idle(p, "user")
         \/ at'[p] \in {Idle(p, "unborn"), Idle(p, "born")} /\ cr3'[p] = NoFrame
         \/ at'[p] \in {Loop(p, "exec"), Loop(p, "exit")}
  PROVE  Record(p)' /\ Progress(p)'
<1>1. NoFrame \notin Frame
  BY DEF VmmAssumption
<1>2. ASSUME NEW j \in {"user", "unborn", "born"}, at'[p] = Idle(p, j),
             j # "user" => cr3'[p] = NoFrame
      PROVE  Record(p)' /\ Progress(p)'
  <2>1. Record(p)'
    BY <1>1, <1>2 DEF Record, Idle
  <2>2. Progress(p)'
    BY <1>2 DEF Progress, Idle
  <2>. QED BY <2>1, <2>2
<1>3. ASSUME NEW j \in {"exec", "exit"}, at'[p] = Loop(p, j)
      PROVE  Record(p)' /\ Progress(p)'
  <2>1. Record(p)'
    BY <1>1, <1>3 DEF Record, Idle, Loop
  <2>2. Progress(p)'
    BY <1>3 DEF Progress, Idle, Loop
  <2>. QED BY <2>1, <2>2
<1>. QED BY <1>2, <1>3

\* exec, exit: the loop over the directory begins.
LEMMA ExecExitKept ==
  ASSUME VmmAssumption, VmmInv, NEW p \in Proc, Exec(p) \/ Exit(p) PROVE VmmInv' /\ Even
<1>1. TypeOK'
  BY ExecExitTyped DEF VmmInv
<1>2. PICK j \in {"exec", "exit"} : at' = [at EXCEPT ![p] = Loop(p, j)]
  BY DEF Exec, Exit, Begin
<1>3. /\ at[p].job = "user" /\ UNCHANGED <<table, cr3, rc, free>>
      /\ at[p] \in Activation /\ Record(p) /\ cr3[p] \in Frame
      /\ at'[p] = Loop(p, j) /\ \A q \in Proc \ {p} : at'[q] = at[q]
  BY <1>2, Acting DEF Exec, Exit, FramesSame, VmmInv, TypeOK
<1>4. /\ at[p].pc = "none" /\ at[p].dst = NoFrame /\ at[p].pa = NoFrame /\ at[p].new = NoFrame
  BY <1>3 DEF Record, Activation
<1>5. Record(p)' /\ Progress(p)'
  BY <1>3, IdleProper
<1>6. /\ at'[p].pa = at[p].pa /\ at'[p].dst = at[p].dst /\ at'[p].new = at[p].new
      /\ at'[p].job = j /\ at'[p].pc = "dir"
  BY ONLY <1>3, <1>4 DEF Loop, Idle
<1>. QED BY <1>1, <1>3, <1>4, <1>5, <1>6, LocalStepKept DEF Even

\* The end of clear_pt.
LEMMA ClearedPtKept ==
  ASSUME VmmAssumption, VmmInv, NEW p \in Proc, ClearedPt(p) PROVE VmmInv' /\ Even
<1>1. TypeOK'
  BY ClearedPtTyped DEF VmmInv
<1>2. /\ at[p].job \notin {"unborn", "born"} /\ at[p].pc = "clearpt"
      /\ UNCHANGED <<table, cr3, rc, free>>
  BY ActingPc DEF ClearedPt, FramesSame
<1>3. at[p] \in Activation /\ Record(p)
  BY <1>2, Acting
<1>4. /\ at'[p] = [at[p] EXCEPT !.pc = "dir", !.dirs = @ \ {Dir(p)}]
      /\ \A q \in Proc \ {p} : at'[q] = at[q]
  BY DEF VmmInv, TypeOK, ClearedPt
<1>5. at[p].job = "exec"
  BY <1>2, <1>3 DEF Record, Activation, Jobs
<1>6. Record(p)' /\ Progress(p)'
  BY <1>2, <1>3, <1>4, <1>5 DEF Record, Progress, Activation
<1>7. /\ at'[p].pa = at[p].pa /\ at'[p].dst = at[p].dst /\ at'[p].new = at[p].new
      /\ at'[p].job = "exec" /\ at'[p].pc = "dir"
  BY ONLY <1>3, <1>4, <1>5 DEF Activation
<1>. QED BY <1>1, <1>2, <1>4, <1>6, <1>7, LocalStepKept DEF Even

\* exec is over.
LEMMA ExecedKept ==
  ASSUME VmmAssumption, VmmInv, NEW p \in Proc, Execed(p) PROVE VmmInv' /\ Even
<1>1. TypeOK'
  BY ExecedTyped DEF VmmInv
<1>2. /\ at[p].job = "exec" /\ at[p].pc = "dir" /\ UNCHANGED <<table, cr3, rc, free>>
      /\ at' = [at EXCEPT ![p] = Idle(p, "user")]
  BY DEF Execed, FramesSame, Begin, At
<1>3. at[p] \in Activation /\ Record(p) /\ cr3[p] \in Frame
  BY <1>2, Acting
<1>4. /\ at'[p] = Idle(p, "user") /\ \A q \in Proc \ {p} : at'[q] = at[q]
  BY <1>2 DEF VmmInv, TypeOK
<1>5. at[p].pa = NoFrame /\ at[p].dst = NoFrame /\ at[p].new = NoFrame
  BY <1>2, <1>3 DEF Record, Activation
<1>6. Record(p)' /\ Progress(p)'
  BY <1>4, IdleProper
<1>7. /\ at'[p].pa = at[p].pa /\ at'[p].dst = at[p].dst /\ at'[p].new = at[p].new
      /\ at'[p].job = "user" /\ at'[p].pc = "none"
  BY <1>4, <1>5 DEF Idle
<1>. QED BY <1>1, <1>2, <1>4, <1>6, <1>7, LocalStepKept DEF Even

\* An entry the user may write through is private and writable.
LEMMA UsableEager ==
  ASSUME NEW e, Present(e), Usable(e) PROVE Eager(e)
  BY DEF Usable, UserFlags, Eager, Private

\* map, map_copy: the directory entry will do.
LEMMA FixPdeUsableKept ==
  ASSUME VmmAssumption, VmmInv, TypeOK', NEW p \in Proc, At(p, "fault", "pde"), UNCHANGED cr3,
         Present(Pde(p, Dir(p))), Usable(Pde(p, Dir(p))), Goto(p, "pte"), FramesSame,
         UNCHANGED table
  PROVE  VmmInv' /\ Even
<1>1. at[p].job = "fault" /\ at[p].pc = "pde" /\ UNCHANGED <<rc, free>>
  BY DEF At, FramesSame
<1>2. at[p] \in Activation /\ Record(p) /\ cr3[p] \in Frame
  BY <1>1, Acting
<1>3. /\ at'[p] = [at[p] EXCEPT !.pc = "pte"] /\ \A q \in Proc \ {p} : at'[q] = at[q]
  BY DEF Goto, VmmInv, TypeOK
<1>4. Eager(Pde(p, at[p].va[1])) /\ Pde(p, at[p].va[1])' = Pde(p, at[p].va[1])
  <2>1. Pde(p, at[p].va[1])' = table[cr3[p]][at'[p].va[1]]
    BY DEF Pde
  <2>. QED BY <1>1, <1>2, <1>3, <2>1, UsableEager DEF Dir, Pde, Activation
<1>5. Record(p)' /\ Progress(p)'
  BY <1>1, <1>2, <1>3, <1>4 DEF Record, Progress, Activation
<1>. QED BY <1>1, <1>2, <1>3, <1>5, LocalStepKept DEF Activation, Even

\* map_copy found the page it must copy.
LEMMA FixPteSharedKept ==
  ASSUME VmmAssumption, VmmInv, TypeOK', NEW p \in Proc, At(p, "fault", "pte"),
         UNCHANGED <<table, cr3, rc, free>>,
         at' = [at EXCEPT ![p].pc = "swap", ![p].old = Pte(p, at[p].va).fr],
         Present(Pte(p, at[p].va)), "RW" \notin Pte(p, at[p].va).flags
  PROVE  VmmInv' /\ Even
<1>1. at[p].job = "fault" /\ at[p].pc = "pte"
  BY DEF At
<1>2. at[p] \in Activation /\ Record(p) /\ cr3[p] \in Frame /\ Eager(Pde(p, at[p].va[1]))
      /\ at[p].va \in Touched
  BY <1>1, Acting DEF Progress, TypeOK, Coherent
<1>3. /\ at'[p] = [at[p] EXCEPT !.pc = "swap", !.old = Pte(p, at[p].va).fr]
      /\ \A q \in Proc \ {p} : at'[q] = at[q]
  BY DEF VmmInv, TypeOK
<1>4. at'[p].va = at[p].va /\ at'[p].pc = "swap" /\ at'[p].old = Pte(p, at[p].va).fr
      /\ at'[p].job = "fault" /\ at'[p].pa = at[p].pa /\ at'[p].dst = at[p].dst
      /\ at'[p].new = at[p].new
  BY ONLY <1>1, <1>2, <1>3 DEF Activation
<1>5. \A i : Pde(p, i)' = Pde(p, i)
  BY DEF Pde
<1>6. Pte(p, at[p].va)' = Pte(p, at[p].va)
  <2>1. Pde(p, at[p].va[1])' = Pde(p, at[p].va[1])
    BY <1>4 DEF Pde
  <2>2. PT(Pde(p, at[p].va[1]))' = PT(Pde(p, at[p].va[1]))
    BY <2>1 DEF PT
  <2>. QED BY <1>4, <2>1, <2>2 DEF Pte
<1>7. Record(p)'
  BY <1>1, <1>2, <1>4 DEF Record
<1>8. Progress(p)'
  BY <1>2, <1>4, <1>5, <1>6 DEF Progress
<1>. QED BY <1>1, <1>2, <1>3, <1>4, <1>7, <1>8, LocalStepKept DEF Even

\* map_copy found a page that is not to be had: SYS::exit, and the new page is lost.
LEMMA FixPteExitKept ==
  ASSUME VmmAssumption, VmmInv, TypeOK', NEW p \in Proc, At(p, "fault", "pte"),
         UNCHANGED <<table, cr3, rc, free>>, at' = [at EXCEPT ![p] = Loop(p, "exit")]
  PROVE  VmmInv'
<1>1. at[p].job = "fault" /\ at[p].pc = "pte"
  BY DEF At
<1>2. at[p] \in Activation /\ Record(p) /\ cr3[p] \in Frame
  BY <1>1, Acting
<1>3. /\ at'[p] = Loop(p, "exit") /\ \A q \in Proc \ {p} : at'[q] = at[q]
  BY DEF VmmInv, TypeOK
<1>5. at[p].dst = NoFrame /\ at[p].new = NoFrame
  BY <1>1, <1>2 DEF Record, Activation
<1>6. Record(p)' /\ Progress(p)'
  BY <1>3, IdleProper
<1>7. /\ at'[p].pa = NoFrame /\ at'[p].dst = at[p].dst /\ at'[p].new = at[p].new
      /\ at'[p].job = "exit" /\ at'[p].pc = "dir"
  BY ONLY <1>3, <1>5 DEF Loop, Idle
<1>. QED BY <1>1, <1>2, <1>3, <1>5, <1>6, <1>7, LocalStepKept

-----------------------------------------------------------------------------
(* Steps that allocate, or write one entry.                                 *)

\* p takes a step that adds no root but what it allocated.
LEMMA LocalKept ==
  ASSUME VmmAssumption, VmmInv, TypeOK', NEW p \in Proc, at[p].job # "born",
         \A q \in Proc \ {p} : at'[q] = at[q], UNCHANGED cr3,
         at'[p].new = at[p].new,
         at'[p].dst \in {at[p].dst, NoFrame} \/ rc'[at'[p].dst] = 1,
         at'[p].pa \in {at[p].pa, NoFrame} \/ table'[at'[p].pa] = EmptyTable,
         at'[p].pc = "doom" => Dooming(p)',
         at'[p].job = "fork" => at[p].job = "fork" /\ at'[p].kid = at[p].kid,
         Record(p)', Progress(p)', Gentle({p}), Tidy({p}),
         \A f \in Frame : Slack(f)' >= Slack(f)
  PROVE  VmmInv'
<1>1. Counted'
  BY SlackCounted
<1>2. Proper(p)
  <2>1. \A f \in Frame : Rooted(p, f)' => Exclusive(f) \/ rc'[f] = 1
    BY DEF Rooted, Exclusive, VmmAssumption
  <2>. QED BY <2>1 DEF Proper, VmmAssumption
<1>3. Kids'
  BY KidsKept
<1>. QED BY <1>1, <1>2, <1>3, Kept

\* p allocates a frame and has it in hand, as a new page or a table to fill.
LEMMA LocalAllocKept ==
  ASSUME VmmAssumption, VmmInv, TypeOK', NEW p \in Proc, at[p].job # "born",
         \A q \in Proc \ {p} : at'[q] = at[q], UNCHANGED <<table, cr3>>, AllocFrame,
         at'[p].new = at[p].new,
         \/ at'[p].pa = Fresh /\ at[p].pa = NoFrame /\ at'[p].dst = at[p].dst
         \/ at'[p].dst = Fresh /\ at[p].dst = NoFrame /\ at'[p].pa = at[p].pa,
         at[p].pc \notin {"drop", "doom"}, at'[p].pc \notin {"drop", "doom"},
         at'[p].job = "fork" => at[p].job = "fork" /\ at'[p].kid = at[p].kid,
         Record(p)', Progress(p)'
  PROVE  VmmInv' /\ Even
<1>1. /\ Fresh \in Frame /\ rc[Fresh] = 0 /\ table[Fresh] = EmptyTable
      /\ rc'[Fresh] = 1 /\ \A f \in Frame \ {Fresh} : rc'[f] = rc[f]
      /\ Gentle({p})
  BY Allocated
<1>2. ASSUME NEW f \in Frame PROVE Slack(f)' = Slack(f)
  <2>1. Slack(f)' = Slack(f) + (rc'[f] - rc[f]) + Bit(cr3[p] = f) - Bit(cr3'[p] = f)
                     + Hand(at[p], f) - Hand(at'[p], f)
    BY SlackHand DEF VmmInv
  <2>2. Hand(at'[p], f) = Hand(at[p], f) + Bit(Fresh = f)
    BY <1>1 DEF Hand, Holding, Bit, VmmAssumption
  <2>3. rc'[f] = rc[f] + Bit(Fresh = f)
    BY <1>1 DEF Bit, VmmInv, TypeOK
  <2>4. /\ Hand(at[p], f) \in Int /\ Bit(cr3[p] = f) \in Int /\ rc[f] \in Int /\ Slack(f) \in Int
        /\ Bit(Fresh = f) \in Int
    <3>1. rc[f] \in Int
      BY DEF VmmInv, TypeOK
    <3>. QED BY <3>1, ReferencesStep DEF Hand, Bit, Slack
  <2>. QED BY <2>1, <2>2, <2>3, <2>4
<1>3. Dirs' = Dirs
  BY DEF Dirs
<1>4. Tidy({p})
  BY <1>3, TidySame
<1>5. \A f \in Frame : Slack(f)' >= Slack(f)
  <2>1. \A f \in Frame : Slack(f) \in Int
    BY ReferencesStep DEF Slack, VmmInv, TypeOK
  <2>. QED BY <1>2, <2>1
<1>6. VmmInv'
  BY <1>1, <1>4, <1>5, LocalKept
<1>. QED BY <1>2, <1>6 DEF Even

\* vmm_pageFault: the new page is the process's own from the start.
LEMMA FaultKept ==
  ASSUME VmmAssumption, VmmInv, NEW p \in Proc, Fault(p) PROVE VmmInv' /\ Even
<1>1. TypeOK'
  BY FaultTyped DEF VmmInv
<1>2. PICK va \in Touched : at' = [at EXCEPT ![p] = Faulted(p, va)]
  BY DEF Fault, Begin
<1>3. at[p].job = "user" /\ UNCHANGED <<table, cr3>> /\ AllocFrame
  BY DEF Fault
<1>4. at[p] \in Activation /\ Record(p) /\ cr3[p] \in Frame
  BY <1>3, Acting
<1>5. /\ at'[p] = Faulted(p, va) /\ \A q \in Proc \ {p} : at'[q] = at[q]
  BY <1>2 DEF VmmInv, TypeOK
<1>6. /\ at[p].pc = "none" /\ at[p].dst = NoFrame /\ at[p].pa = NoFrame /\ at[p].new = NoFrame
  BY <1>3, <1>4 DEF Record, Activation
<1>7. /\ at'[p].job = "fault" /\ at'[p].pc = "pde" /\ at'[p].pa = Fresh
      /\ at'[p].dst = NoFrame /\ at'[p].new = NoFrame /\ at'[p].old = NoFrame
  BY ONLY <1>5 DEF Faulted, Idle
<1>8. Fresh \in Frame
  BY <1>3, Allocated
<1>9. Record(p)'
  BY <1>7, <1>8 DEF Record, VmmAssumption
<1>10. Progress(p)'
  BY <1>7 DEF Progress
<1>. QED BY <1>1, <1>3, <1>5, <1>6, <1>7, <1>9, <1>10, LocalAllocKept

\* map, map_copy: the page table must be copied first.
LEMMA FixPdeCopyKept ==
  ASSUME VmmAssumption, VmmInv, TypeOK', NEW p \in Proc, At(p, "fault", "pde"), UNCHANGED cr3,
         AllocFrame, UNCHANGED table,
         at' = [at EXCEPT ![p].pc = "copypt", ![p].pde = Pde(p, Dir(p)), ![p].dst = Fresh,
                          ![p].ptes = Idx]
  PROVE  VmmInv' /\ Even
<1>1. at[p].job = "fault" /\ at[p].pc = "pde"
  BY DEF At
<1>2. at[p] \in Activation /\ Record(p) /\ cr3[p] \in Frame
  BY <1>1, Acting
<1>3. /\ at'[p] = [at[p] EXCEPT !.pc = "copypt", !.pde = Pde(p, Dir(p)), !.dst = Fresh,
                                !.ptes = Idx]
      /\ \A q \in Proc \ {p} : at'[q] = at[q]
  BY DEF VmmInv, TypeOK
<1>4. /\ at'[p].job = "fault" /\ at'[p].pc = "copypt" /\ at'[p].pa = at[p].pa
      /\ at'[p].dst = Fresh /\ at'[p].new = at[p].new /\ at'[p].old = at[p].old
      /\ at'[p].va = at[p].va /\ at'[p].pde = Pde(p, Dir(p))
  BY ONLY <1>1, <1>2, <1>3 DEF Activation
<1>5. at[p].dst = NoFrame /\ at[p].old \notin Frame
  BY <1>1, <1>2 DEF Record, Activation
<1>6. Fresh \in Frame
  BY Allocated
<1>7. Record(p)'
  BY <1>1, <1>2, <1>4, <1>5, <1>6 DEF Record
<1>8. Progress(p)'
  <2>1. Dir(p)' = Dir(p)
    BY <1>1, <1>4 DEF Dir
  <2>2. Pde(p, Dir(p))' = Pde(p, Dir(p))
    BY <2>1 DEF Pde
  <2>. QED BY <1>4, <2>2 DEF Progress
<1>. QED BY <1>1, <1>3, <1>4, <1>5, <1>7, <1>8, LocalAllocKept

\* copy_pd comes to a table it must copy.
LEMMA CopyPdeCopyKept ==
  ASSUME VmmAssumption, VmmInv, TypeOK', NEW p \in Proc, At(p, "fork", "dir"), UNCHANGED cr3,
         AllocFrame, UNCHANGED table,
         at' = [at EXCEPT ![p].pc = "copypt", ![p].pde = Pde(p, Dir(p)), ![p].dst = Fresh,
                          ![p].ptes = Idx]
  PROVE  VmmInv' /\ Even
<1>1. at[p].job = "fork" /\ at[p].pc = "dir"
  BY DEF At
<1>2. at[p] \in Activation /\ Record(p) /\ cr3[p] \in Frame
  BY <1>1, Acting
<1>3. /\ at'[p] = [at[p] EXCEPT !.pc = "copypt", !.pde = Pde(p, Dir(p)), !.dst = Fresh,
                                !.ptes = Idx]
      /\ \A q \in Proc \ {p} : at'[q] = at[q]
  BY DEF VmmInv, TypeOK
<1>4. /\ at'[p].job = "fork" /\ at'[p].pc = "copypt" /\ at'[p].pa = at[p].pa
      /\ at'[p].dst = Fresh /\ at'[p].new = at[p].new /\ at'[p].old = at[p].old
      /\ at'[p].dirs = at[p].dirs /\ at'[p].pde = Pde(p, Dir(p)) /\ at'[p].kid = at[p].kid
  BY ONLY <1>1, <1>2, <1>3 DEF Activation
<1>5. at[p].dst = NoFrame /\ at[p].old \notin Frame
  BY <1>1, <1>2 DEF Record, Activation
<1>6. Fresh \in Frame
  BY Allocated
<1>7. Record(p)'
  BY <1>1, <1>2, <1>4, <1>5, <1>6 DEF Record
<1>8. Progress(p)'
  <2>1. Dir(p)' = Dir(p)
    BY <1>1, <1>4 DEF Dir
  <2>2. Pde(p, Dir(p))' = Pde(p, Dir(p))
    BY <2>1 DEF Pde
  <2>. QED BY <1>4, <2>2 DEF Progress
<1>. QED BY <1>1, <1>3, <1>4, <1>5, <1>7, <1>8, LocalAllocKept

\* Who writes one entry owns the table or clears it, and knows what it enters.
LEMMA TidyWrite ==
  ASSUME VmmAssumption, VmmInv, NEW M, NEW d \in Frame, NEW i \in Idx, NEW e \in Entry,
         Wrote(d, i, e), Dirs' = Dirs,
         Apart(d, M), Exclusive(d) \/ e = Absent,
         d \in Dirs /\ Eager(e) => Exclusive(e.fr) \/ rc'[e.fr] = 1,
         d \notin Dirs /\ e.fr \in Frame => Leaf(e.fr) \/ table'[e.fr] = EmptyTable
  PROVE  Tidy(M)
<1>2. \A g \in Frame \ {d} : table'[g] = table[g]
  BY Written DEF VmmInv
<1>3. table'[d][i] = e /\ \A j \in Idx \ {i} : table'[d][j] = table[d][j]
  BY Written DEF VmmInv
<1>4. \A g \in Frame : \/ table'[g] = table[g]
                       \/ Apart(g, M) /\ (Exclusive(g) \/ Cleared(g))
  BY <1>2, <1>3 DEF Cleared
<1>5. ASSUME NEW f \in Frame, NEW g \in Dirs', NEW j \in Idx, Under(f, g, j)'
      PROVE  Exclusive(f) \/ rc'[f] = 1
  <2>1. CASE g = d /\ j = i
    BY <1>3, <1>5, <2>1 DEF Under, Eager, Private
  <2>2. CASE g # d \/ j # i
    <3>1. table'[g][j] = table[g][j]
      BY <1>2, <1>3, <2>2 DEF Dirs
    <3>2. Under(f, g, j)
      BY <1>5, <3>1 DEF Under
    <3>. QED BY <3>2 DEF Exclusive
  <2>. QED BY <2>1, <2>2
<1>6. ASSUME NEW g \in Frame \ Dirs', NEW j \in Idx, table'[g][j].fr \in Frame
      PROVE  Leaf(table'[g][j].fr) \/ table'[table'[g][j].fr] = EmptyTable
  <2>1. CASE g = d /\ j = i
    BY <1>3, <1>6, <2>1
  <2>2. CASE g # d \/ j # i
    <3>1. table'[g][j] = table[g][j]
      BY <1>2, <1>3, <2>2
    <3>. QED BY <1>6, <3>1 DEF Leaf
  <2>. QED BY <2>1, <2>2
<1>. QED BY <1>4, <1>5, <1>6 DEF Tidy

\* Directories are made and unmade by few steps.
LEMMA DirsSame ==
  ASSUME NEW p \in Proc, \A q \in Proc \ {p} : at'[q] = at[q], UNCHANGED cr3,
         at'[p].new = at[p].new
  PROVE  Dirs' = Dirs
<1>1. \A q \in Proc : at'[q].new = at[q].new
  OBVIOUS
<1>. QED BY <1>1 DEF Dirs

\* What loses nothing does not lose.
LEMMA EvenSlack ==
  ASSUME VmmAssumption, VmmInv, Even PROVE \A f \in Frame : Slack(f)' >= Slack(f)
<1>1. \A f \in Frame : Slack(f) \in Int
  BY ReferencesStep DEF Slack, VmmInv, TypeOK
<1>. QED BY <1>1 DEF Even

\* An entry that is not private points to no counted frame.
LEMMA NotPrivate ==
  ASSUME VmmAssumption, NEW e \in Entry, ~Private(e) PROVE e.fr \notin Frame
  BY DEF Private, Present, Entry, Absent, Ent, VmmAssumption

\* map, map_copy: a new page table.
LEMMA FixPdeNewKept ==
  ASSUME VmmAssumption, VmmInv, TypeOK', NEW p \in Proc, At(p, "fault", "pde"), UNCHANGED cr3,
         ~Present(Pde(p, Dir(p))), AllocFrame,
         table' = [table EXCEPT ![cr3[p]][Dir(p)] = Ent(Fresh, UserFlags)], Goto(p, "pte")
  PROVE  VmmInv' /\ Even
<1>. DEFINE d == cr3[p]
            i == Dir(p)
            e == Ent(Fresh, UserFlags)
<1>1. at[p].job = "fault" /\ at[p].pc = "pde"
  BY DEF At
<1>2. at[p] \in Activation /\ Record(p) /\ d \in Frame /\ TypeOK /\ i \in Idx
  <2>1. at[p] \in Activation /\ Record(p) /\ d \in Frame /\ TypeOK
    BY <1>1, Acting
  <2>. QED BY <1>1, <2>1, DirTyped
<1>0. Wrote(d, i, e)
  BY DEF Wrote
<1>3. /\ at'[p] = [at[p] EXCEPT !.pc = "pte"] /\ \A q \in Proc \ {p} : at'[q] = at[q]
  BY DEF Goto, VmmInv, TypeOK
<1>4. /\ at'[p].job = "fault" /\ at'[p].pc = "pte" /\ at'[p].pa = at[p].pa
      /\ at'[p].dst = at[p].dst /\ at'[p].new = at[p].new /\ at'[p].old = at[p].old
      /\ at'[p].va = at[p].va
  BY ONLY <1>1, <1>2, <1>3 DEF Activation
<1>5. /\ Fresh \in Frame /\ rc[Fresh] = 0
      /\ rc'[Fresh] = 1 /\ \A f \in Frame \ {Fresh} : rc'[f] = rc[f]
      /\ Gentle({p}) /\ e \in Entry
  BY Allocated, EntriesMade
<1>6. e.fr = Fresh /\ table[d][i].fr = NoFrame
  BY DEF Ent, Present, Pde
<1>7. Even
  <2>. SUFFICES ASSUME NEW f \in Frame PROVE Slack(f)' = Slack(f)
    BY DEF Even
  <2>1. Hand(at'[p], f) = Hand(at[p], f)
    BY ONLY <1>1, <1>4 DEF Hand, Holding
  <2>2. Bit(table[d][i].fr = f) = 0
    BY <1>6 DEF Bit, VmmAssumption
  <2>3. Bit(e.fr = f) = rc'[f] - rc[f]
    BY <1>5, <1>6 DEF Bit, VmmInv, TypeOK
  <2>4. /\ Slack(f)' = Slack(f) + (rc'[f] - rc[f]) + Bit(table[d][i].fr = f) - Bit(e.fr = f)
                           + Hand(at[p], f) - Hand(at'[p], f)
        /\ Slack(f) \in Int /\ rc[f] \in Int /\ rc'[f] \in Int /\ Hand(at[p], f) \in Int
    BY <1>0, <1>2, <1>3, <1>5, SlackWrite
  <2>. QED BY ONLY <2>1, <2>2, <2>3, <2>4
<1>8. Dirs' = Dirs
  BY <1>3, <1>4, DirsSame
<1>9. Tidy({p})
  <2>1. Exclusive(d) /\ Apart(d, {p})
    BY <1>2, OwnApart DEF Rooted
  <2>2. d \in Dirs
    BY <1>2 DEF Dirs
  <2>. QED BY <1>0, <1>2, <1>5, <1>6, <1>8, <2>1, <2>2, TidyWrite
<1>10. Record(p)'
  BY <1>1, <1>2, <1>4 DEF Record
<1>11. Progress(p)'
  <2>1. table'[d][i] = e
    BY <1>0, <1>2, Written
  <2>2. Pde(p, at[p].va[1])' = e
    BY <1>1, <1>4, <2>1 DEF Pde, Dir
  <2>3. Eager(e)
    BY <1>5, <1>6 DEF Eager, Private, Present, Ent, UserFlags, VmmAssumption
  <2>. QED BY <1>4, <2>2, <2>3 DEF Progress
<1>12. VmmInv'
  BY <1>1, <1>3, <1>4, <1>5, <1>7, <1>9, <1>10, <1>11, EvenSlack, LocalKept
<1>. QED BY <1>7, <1>12

\* map, map_copy: whatever it takes to make the directory entry usable.
LEMMA FixPdeKept ==
  ASSUME VmmAssumption, VmmInv, NEW p \in Proc, FixPde(p) PROVE VmmInv' /\ Even
<1>1. TypeOK'
  BY FixPdeTyped DEF VmmInv
<1>2. At(p, "fault", "pde") /\ UNCHANGED cr3
  BY DEF FixPde
<1>. QED BY <1>1, <1>2, FixPdeNewKept, FixPdeUsableKept, FixPdeCopyKept DEF FixPde

\* The table copy_pt fills is p's alone, and nobody's directory.
LEMMA Filling ==
  ASSUME VmmAssumption, VmmInv, NEW p \in Proc, at[p].pc = "copypt"
  PROVE  /\ at[p] \in Activation /\ Record(p) /\ cr3[p] \in Frame /\ TypeOK
         /\ at[p].job \in {"fault", "fork"} /\ Dir(p) \in Idx
         /\ Pde(p, Dir(p)) = at[p].pde
         /\ at[p].dst \in Frame /\ at[p].dst \notin Dirs /\ at[p].dst # cr3[p]
         /\ at[p].dst # at[p].new
         /\ Exclusive(at[p].dst) /\ Apart(at[p].dst, {p})
<1>1. at[p] \in Activation /\ Record(p) /\ cr3[p] \in Frame /\ TypeOK /\ Progress(p) /\ Coherent(p)
  BY ActingPc, Acting DEF TypeOK
<1>2. at[p].job \in {"fault", "fork"} /\ at[p].dst \in Frame /\ Pde(p, Dir(p)) = at[p].pde
      /\ (at[p].job = "fork" => at[p].dirs # {})
  BY <1>1 DEF Coherent, Progress
<1>3. Dir(p) \in Idx
  BY <1>1, <1>2, DirTyped
<1>4. Rooted(p, at[p].dst)
  BY DEF Rooted
<1>5. Exclusive(at[p].dst) /\ Apart(at[p].dst, {p})
  BY <1>2, <1>4, OwnApart
<1>6. at[p].dst # cr3[p] /\ at[p].dst # at[p].new
  BY <1>2, <1>5, Alone
<1>7. \A q \in Proc : Rooted(q, at[p].dst) => p = q
  BY <1>2, <1>4, <1>5, Alone
<1>8. at[p].dst \notin Dirs
  BY <1>6, <1>7 DEF Rooted, Dirs
<1>. QED BY <1>1, <1>2, <1>3, <1>5, <1>6, <1>8

\* What a page table's entry points to, if that is counted.
LEMMA TableLeaf ==
  ASSUME VmmAssumption, VmmInv, NEW p \in Proc, cr3[p] \in Frame, NEW i \in Idx, NEW j \in Idx,
         PT(Pde(p, i))[j].fr \in Frame
  PROVE  /\ Pde(p, i).fr \in Frame /\ PT(Pde(p, i)) = table[Pde(p, i).fr]
         /\ Leaf(PT(Pde(p, i))[j].fr)
         /\ rc[PT(Pde(p, i))[j].fr] >= 1
<1>. DEFINE d == Pde(p, i).fr
            f == PT(Pde(p, i))[j].fr
<1>1. d \in Frame
  <2>1. ApicTable[j].fr \notin Frame
    BY DEF ApicTable, Absent, Ent, VmmAssumption
  <2>. QED BY <2>1 DEF PT
<1>2. PT(Pde(p, i)) = table[d] /\ table[d][j].fr = f
  BY <1>1 DEF PT
<1>3. d \notin Dirs
  BY <1>1, BelowApart DEF Pde
<1>4. Leaf(f)
  BY <1>1, <1>2, <1>3 DEF Leaf
<1>5. rc[f] >= 1
  BY <1>1, <1>2, Referenced
<1>. QED BY <1>1, <1>2, <1>4, <1>5

\* copy_pt, one entry: the page is copied, or counted once more, or global.
LEMMA CopyPteKept ==
  ASSUME VmmAssumption, VmmInv, NEW p \in Proc, CopyPte(p)
  PROVE  VmmInv' /\ (table[at[p].dst][Some(at[p].ptes)] = Absent => Even)
<1>. DEFINE d == at[p].dst
            i == Some(at[p].ptes)
            s == PT(at[p].pde)[i]
            e == IF Eager(s) THEN Ent(Fresh, s.flags) ELSE s
<1>1. TypeOK'
  BY CopyPteTyped DEF VmmInv
<1>2. /\ at[p].pc = "copypt" /\ at[p].ptes # {} /\ UNCHANGED cr3
      /\ IF Eager(s) THEN AllocCopy(s.fr) ELSE IF Private(s) THEN IncRef(s.fr) ELSE FramesSame
      /\ at' = [at EXCEPT ![p].ptes = @ \ {i}]
  BY DEF CopyPte
<1>0. Wrote(d, i, e)
  BY DEF Wrote, CopyPte
<1>3. /\ at[p] \in Activation /\ Record(p) /\ cr3[p] \in Frame /\ TypeOK
      /\ at[p].job \in {"fault", "fork"} /\ Dir(p) \in Idx
      /\ Pde(p, Dir(p)) = at[p].pde
      /\ d \in Frame /\ d \notin Dirs /\ d # cr3[p]
      /\ Exclusive(d) /\ Apart(d, {p})
  BY <1>2, Filling
<1>4. i \in Idx /\ s \in Entry
  <2>1. i \in Idx
    BY <1>2, <1>3, PteIndexTyped
  <2>. QED BY <1>3, <2>1, PTTyped DEF TypeOK, TablesTyped
<1>5. /\ at'[p] = [at[p] EXCEPT !.ptes = @ \ {i}] /\ \A q \in Proc \ {p} : at'[q] = at[q]
  BY <1>2 DEF VmmInv, TypeOK
<1>6. /\ at'[p].job = at[p].job /\ at'[p].pc = "copypt" /\ at'[p].pa = at[p].pa
      /\ at'[p].dst = at[p].dst /\ at'[p].new = at[p].new /\ at'[p].old = at[p].old
      /\ at'[p].va = at[p].va /\ at'[p].dirs = at[p].dirs /\ at'[p].pde = at[p].pde
      /\ at'[p].kid = at[p].kid
  BY ONLY <1>2, <1>3, <1>5 DEF Activation
<1>7. s.fr \in Frame => Leaf(s.fr) /\ rc[s.fr] >= 1 /\ ~Exclusive(s.fr)
  <2>1. s.fr \in Frame => Leaf(s.fr) /\ rc[s.fr] >= 1
    BY <1>3, <1>4, TableLeaf
  <2>. QED BY <2>1, Leaves
<1>8. /\ e \in Entry /\ Gentle({p})
      /\ \A f \in Frame : rc'[f] = rc[f] + Bit(e.fr = f)
      /\ e.fr \in Frame => Leaf(e.fr) \/ table'[e.fr] = EmptyTable
  <2>1. CASE Eager(s)
    <3>1. s.fr \in Frame /\ \A f \in Frame : Ent(f, s.flags) \in Entry
      BY <1>4, <2>1, PrivateEntries DEF Eager
    <3>2. AllocCopy(s.fr) /\ e.fr = Fresh
      BY <1>2, <2>1 DEF Ent
    <3>3. /\ Fresh \in Frame /\ rc[Fresh] = 0 /\ table[Fresh] = EmptyTable /\ ~Exclusive(Fresh)
          /\ rc'[Fresh] = 1 /\ \A f \in Frame \ {Fresh} : rc'[f] = rc[f]
          /\ Gentle({p})
      BY <3>1, <3>2, Allocated
    <3>4. \A f \in Frame : rc'[f] = rc[f] + Bit(e.fr = f)
      BY <3>2, <3>3 DEF Bit, VmmInv, TypeOK
    <3>5. table'[Fresh] = EmptyTable
      BY <1>0, <1>3, <1>4, <3>3, Written
    <3>. QED BY <2>1, <3>1, <3>2, <3>3, <3>4, <3>5
  <2>2. CASE ~Eager(s) /\ Private(s)
    <3>1. s.fr \in Frame /\ IncRef(s.fr) /\ e = s
      BY <1>2, <1>4, <2>2, PrivateEntries
    <3>2. Gentle({p})
      BY <1>7, <3>1, IncGentle
    <3>3. \A f \in Frame : rc'[f] = rc[f] + Bit(e.fr = f)
      BY <3>1 DEF IncRef, Bit, VmmInv, TypeOK
    <3>. QED BY <1>4, <1>7, <3>1, <3>2, <3>3
  <2>3. CASE ~Eager(s) /\ ~Private(s)
    <3>1. e = s /\ s.fr \notin Frame /\ UNCHANGED <<rc, free>>
      BY <1>2, <1>4, <2>3, NotPrivate DEF FramesSame
    <3>2. Gentle({p})
      BY <3>1, SameGentle
    <3>3. \A f \in Frame : rc'[f] = rc[f] + Bit(e.fr = f)
      BY <3>1 DEF Bit, VmmInv, TypeOK
    <3>. QED BY <1>4, <3>1, <3>2, <3>3
  <2>. QED BY <2>1, <2>2, <2>3
<1>. HIDE DEF e
<1>9. ASSUME NEW f \in Frame
      PROVE  Slack(f)' >= Slack(f) /\ (table[d][i] = Absent => Slack(f)' = Slack(f))
  <2>1. Hand(at'[p], f) = Hand(at[p], f)
    BY ONLY <1>2, <1>6 DEF Hand, Holding
  <2>2. rc'[f] = rc[f] + Bit(e.fr = f)
    BY <1>8
  <2>3. /\ Slack(f)' = Slack(f) + (rc'[f] - rc[f]) + Bit(table[d][i].fr = f) - Bit(e.fr = f)
                           + Hand(at[p], f) - Hand(at'[p], f)
        /\ Slack(f) \in Int /\ rc[f] \in Int /\ rc'[f] \in Int /\ Hand(at[p], f) \in Int
        /\ Bit(table[d][i].fr = f) \in {0, 1} /\ Bit(e.fr = f) \in {0, 1}
    <3>. HIDE DEF d, i, s
    <3>1. UNCHANGED cr3
      BY <1>2
    <3>. QED BY <1>0, <1>1, <1>3, <1>4, <1>5, <1>8, <3>1, SlackWrite
  <2>4. table[d][i] = Absent => Bit(table[d][i].fr = f) = 0
    BY AbsentBit
  <2>. QED BY ONLY <2>1, <2>2, <2>3, <2>4
<1>10. Dirs' = Dirs
  BY <1>2, <1>5, <1>6, DirsSame
<1>11. Tidy({p})
  BY <1>0, <1>3, <1>4, <1>8, <1>10, TidyWrite
<1>12. Record(p)'
  BY <1>2, <1>3, <1>6 DEF Record
<1>13. Progress(p)'
  <2>1. table'[cr3[p]] = table[cr3[p]]
    BY <1>0, <1>3, <1>4, Written
  <2>2. Dir(p)' = Dir(p)
    BY <1>6 DEF Dir
  <2>3. Pde(p, Dir(p))' = Pde(p, Dir(p))
    BY <1>2, <2>1, <2>2 DEF Pde
  <2>. QED BY <1>3, <1>6, <2>3 DEF Progress
<1>14. VmmInv'
  BY <1>1, <1>2, <1>3, <1>5, <1>6, <1>8, <1>9, <1>11, <1>12, <1>13, LocalKept
<1>. QED BY <1>9, <1>14 DEF Even

\* map, map_copy: the copied table takes the place of the one it was copied from.
LEMMA InstallPtKept ==
  ASSUME VmmAssumption, VmmInv, NEW p \in Proc, InstallPt(p) PROVE VmmInv' /\ Even
<1>. DEFINE d == cr3[p]
            i == Dir(p)
            o == at[p].pde
            e == Ent(at[p].dst, o.flags \cup UserFlags)
<1>1. TypeOK'
  BY InstallPtTyped DEF VmmInv
<1>2. at[p].job = "fault" /\ at[p].pc = "copypt" /\ UNCHANGED <<cr3, rc, free>>
  BY DEF InstallPt, At, FramesSame
<1>0. Wrote(d, i, e)
  BY DEF Wrote, InstallPt
<1>3. /\ at[p] \in Activation /\ Record(p) /\ d \in Frame /\ TypeOK /\ i \in Idx
      /\ table[d][i] = o /\ at[p].dst \in Frame /\ Exclusive(at[p].dst)
  BY <1>2, Filling DEF Pde
<1>4. o \in Entry /\ e \in Entry /\ e.fr = at[p].dst /\ Eager(e)
  <2>1. o \in Entry
    BY <1>3 DEF Activation
  <2>2. o.flags \in SUBSET Flags
    BY <2>1, EntriesMade
  <2>3. e \in Entry
    BY <1>3, <2>2, EntriesMade
  <2>. QED BY <1>3, <2>1, <2>3 DEF Eager, Private, Present, Ent, UserFlags, VmmAssumption
<1>5. /\ at'[p] = [at[p] EXCEPT !.pc = IF Private(o) THEN "drop" ELSE "pte",
                                !.old = IF Private(o) THEN o.fr ELSE NoFrame,
                                !.dst = NoFrame, !.pde = Absent]
      /\ \A q \in Proc \ {p} : at'[q] = at[q]
  BY DEF InstallPt, VmmInv, TypeOK
<1>6. /\ at'[p].job = "fault" /\ at'[p].pa = at[p].pa
      /\ at'[p].dst = NoFrame /\ at'[p].new = at[p].new
      /\ at'[p].va = at[p].va
      /\ at'[p].pc = IF Private(o) THEN "drop" ELSE "pte"
      /\ at'[p].old = IF Private(o) THEN o.fr ELSE NoFrame
  BY ONLY <1>2, <1>3, <1>5 DEF Activation
<1>7. Even
  <2>. SUFFICES ASSUME NEW f \in Frame PROVE Slack(f)' = Slack(f)
    BY DEF Even
  <2>1. Private(o) \/ o.fr \notin Frame
    BY <1>4, NotPrivate
  <2>2. Hand(at'[p], f) = Hand(at[p], f) - Bit(e.fr = f) + Bit(o.fr = f)
    BY <1>2, <1>4, <1>6, <2>1 DEF Hand, Holding, Bit, VmmAssumption
  <2>3. /\ Slack(f)' = Slack(f) + (rc'[f] - rc[f]) + Bit(table[d][i].fr = f) - Bit(e.fr = f)
                           + Hand(at[p], f) - Hand(at'[p], f)
        /\ Slack(f) \in Int /\ rc[f] \in Int /\ rc'[f] \in Int /\ Hand(at[p], f) \in Int
        /\ Bit(table[d][i].fr = f) \in {0, 1} /\ Bit(e.fr = f) \in {0, 1}
    <3>. HIDE DEF d, i, e, o
    <3>. QED BY <1>0, <1>1, <1>2, <1>3, <1>4, <1>5, SlackWrite
  <2>. QED BY <1>2, <1>3, <2>2, <2>3
<1>8. Dirs' = Dirs
  BY <1>2, <1>5, <1>6, DirsSame
<1>9. Gentle({p})
  BY <1>2, SameGentle
<1>10. Tidy({p})
  <2>1. Exclusive(d) /\ Apart(d, {p})
    BY <1>3, OwnApart DEF Rooted
  <2>2. d \in Dirs
    BY <1>3 DEF Dirs
  <2>. HIDE DEF d, i, e, o
  <2>. QED BY <1>0, <1>3, <1>4, <1>8, <2>1, <2>2, TidyWrite
<1>11. Record(p)'
  BY <1>2, <1>3, <1>6 DEF Record, VmmAssumption
<1>12. Progress(p)'
  <2>1. table'[d][i] = e
    BY <1>0, <1>3, Written
  <2>2. Pde(p, at[p].va[1])' = e
    BY <1>2, <1>6, <2>1 DEF Pde, Dir
  <2>. QED BY <1>4, <1>6, <2>2 DEF Progress
<1>13. at'[p].pc # "doom"
  BY <1>6
<1>14. VmmInv'
  <2>. HIDE DEF o, d, i, e
  <2>. QED BY <1>1, <1>2, <1>5, <1>6, <1>7, <1>9, <1>10, <1>11, <1>12, <1>13, EvenSlack, LocalKept
<1>. QED BY <1>7, <1>14

\* The end of map and map_copy: the new page goes into the process's own table.
LEMMA MapKept ==
  ASSUME VmmAssumption, VmmInv, TypeOK', NEW p \in Proc,
         at[p].job = "fault", at[p].pc \in {"pte", "swap"}, UNCHANGED cr3,
         Wrote(Pde(p, at[p].va[1]).fr, at[p].va[2], Ent(at[p].pa, UserFlags)),
         at'[p] = Idle(p, "user"), \A q \in Proc \ {p} : at'[q] = at[q],
         Gentle({p}),
         \A f \in Frame : rc'[f] = rc[f] \/ rc'[f] = rc[f] - Bit(Pte(p, at[p].va).fr = f)
  PROVE  /\ VmmInv'
         /\ (\A f \in Frame : rc'[f] = rc[f] - Bit(Pte(p, at[p].va).fr = f)) => Even
<1>. DEFINE j == at[p].va[1]
            d == Pde(p, j).fr
            i == at[p].va[2]
            e == Ent(at[p].pa, UserFlags)
<1>0. Wrote(d, i, e)
  OBVIOUS
<1>1. /\ at[p] \in Activation /\ Record(p) /\ cr3[p] \in Frame /\ TypeOK
      /\ Eager(Pde(p, j)) /\ at[p].va \in Touched /\ at[p].pa \in Frame
  BY Acting DEF Progress, TypeOK, Coherent
<1>2. j \in Idx /\ i \in Idx
  BY <1>1 DEF VmmAssumption, VA
<1>3. Pde(p, j) \in Entry /\ d \in Frame /\ Present(Pde(p, j))
  <2>1. Pde(p, j) \in Entry
    BY <1>1, <1>2, PdeTyped
  <2>. QED BY <1>1, <2>1, PrivateEntries DEF Eager, Private
<1>4. Under(d, cr3[p], j) /\ table[cr3[p]][j].fr = d
  BY <1>1 DEF Under, Pde
<1>5. Exclusive(d) /\ Apart(d, {p}) /\ d \notin Dirs
  BY <1>1, <1>2, <1>3, <1>4, OwnApart, BelowApart
<1>6. Pte(p, at[p].va) = table[d][i]
  BY <1>3 DEF Pte, PT
<1>7. e \in Entry /\ e.fr = at[p].pa
  BY <1>1, EntriesMade DEF Ent
<1>8. table'[e.fr] = EmptyTable
  <2>1. table[e.fr] = EmptyTable /\ ~Exclusive(e.fr) /\ e.fr \in Frame
    BY <1>1, <1>7, Leaves
  <2>. HIDE DEF d, i, e
  <2>. QED BY <1>0, <1>1, <1>2, <1>3, <1>5, <2>1, Written
<1>9. /\ at'[p].pa = NoFrame /\ at'[p].dst = NoFrame /\ at'[p].new = NoFrame
      /\ at'[p].job = "user" /\ at'[p].pc = "none"
  BY DEF Idle
<1>10. at[p].dst = NoFrame /\ at[p].new = NoFrame
  BY <1>1 DEF Record, Activation
<1>11. ASSUME NEW f \in Frame
       PROVE  /\ Slack(f) \in Int /\ rc[f] \in Int /\ rc'[f] \in Int
              /\ Bit(Pte(p, at[p].va).fr = f) \in {0, 1}
              /\ Slack(f)' = Slack(f) + (rc'[f] - rc[f]) + Bit(Pte(p, at[p].va).fr = f)
  <2>1. Hand(at'[p], f) = 0
    BY IdleHand
  <2>2. Hand(at[p], f) = Bit(e.fr = f)
    BY <1>7, <1>10 DEF Hand, Holding, Bit, VmmAssumption
  <2>3. /\ Slack(f)' = Slack(f) + (rc'[f] - rc[f]) + Bit(table[d][i].fr = f) - Bit(e.fr = f)
                           + Hand(at[p], f) - Hand(at'[p], f)
        /\ Slack(f) \in Int /\ rc[f] \in Int /\ rc'[f] \in Int /\ Hand(at[p], f) \in Int
        /\ Bit(table[d][i].fr = f) \in {0, 1} /\ Bit(e.fr = f) \in {0, 1}
    <3>. HIDE DEF d, i, e
    <3>. QED BY <1>0, <1>1, <1>2, <1>3, <1>7, SlackWrite
  <2>4. Bit(Pte(p, at[p].va).fr = f) = Bit(table[d][i].fr = f)
    BY <1>6
  <2>. HIDE DEF d, i, e
  <2>. QED BY ONLY <2>1, <2>2, <2>3, <2>4
<1>12. (\A f \in Frame : rc'[f] = rc[f] - Bit(Pte(p, at[p].va).fr = f)) => Even
  BY <1>11 DEF Even
<1>13. \A f \in Frame : Slack(f)' >= Slack(f)
  <2>. TAKE f \in Frame
  <2>1. rc'[f] = rc[f] \/ rc'[f] = rc[f] - Bit(Pte(p, at[p].va).fr = f)
    OBVIOUS
  <2>. QED BY ONLY <1>11, <2>1
<1>14. Dirs' = Dirs
  BY <1>9, <1>10, DirsSame
<1>15. Tidy({p})
  <2>. HIDE DEF d, i, e
  <2>. QED BY <1>0, <1>2, <1>3, <1>5, <1>7, <1>8, <1>14, TidyWrite
<1>16. Record(p)' /\ Progress(p)'
  BY IdleProper
<1>17. VmmInv'
  BY <1>9, <1>10, <1>13, <1>15, <1>16, LocalKept
<1>. QED BY <1>12, <1>17

\* The three ends of map and map_copy.
LEMMA FixPteKept ==
  ASSUME VmmAssumption, VmmInv, NEW p \in Proc, FixPte(p)
  PROVE  VmmInv' /\ (at'[p].job # "exit" /\ (Present(Pte(p, at[p].va)) => at[p].copy) => Even)
<1>1. TypeOK' /\ TypeOK
  BY FixPteTyped DEF VmmInv
<1>2. /\ At(p, "fault", "pte") /\ at[p].job = "fault" /\ at[p].pc = "pte"
      /\ UNCHANGED <<rc, free, cr3>>
  BY DEF FixPte, At
<1>3. CASE /\ ~(at[p].copy /\ Present(Pte(p, at[p].va)))
           /\ table' = [table EXCEPT ![Pde(p, at[p].va[1]).fr][at[p].va[2]] =
                          Ent(at[p].pa, UserFlags)]
           /\ at' = [at EXCEPT ![p] = Idle(p, "user")]
  <2>1. at'[p] = Idle(p, "user") /\ \A q \in Proc \ {p} : at'[q] = at[q]
    BY <1>1, <1>3 DEF TypeOK
  <2>2. Wrote(Pde(p, at[p].va[1]).fr, at[p].va[2], Ent(at[p].pa, UserFlags))
    BY <1>3 DEF Wrote
  <2>3. Gentle({p}) /\ \A f \in Frame : rc'[f] = rc[f]
    BY <1>2, SameGentle
  <2>4. VmmInv' /\ ((\A f \in Frame : rc'[f] = rc[f] - Bit(Pte(p, at[p].va).fr = f)) => Even)
    BY <1>1, <1>2, <2>1, <2>2, <2>3, MapKept
  <2>5. ASSUME Present(Pte(p, at[p].va)) => at[p].copy
        PROVE  \A f \in Frame : rc'[f] = rc[f] - Bit(Pte(p, at[p].va).fr = f)
    <3>1. Pte(p, at[p].va).fr \notin Frame
      BY <1>3, <2>5 DEF Present, VmmAssumption
    <3>. QED BY <1>1, <1>2, <3>1 DEF Bit, TypeOK
  <2>. QED BY <2>4, <2>5
<1>4. CASE /\ Present(Pte(p, at[p].va)) /\ "RW" \notin Pte(p, at[p].va).flags
           /\ at' = [at EXCEPT ![p].pc = "swap", ![p].old = Pte(p, at[p].va).fr]
           /\ UNCHANGED table
  BY <1>1, <1>2, <1>4, FixPteSharedKept
<1>5. CASE at' = [at EXCEPT ![p] = Loop(p, "exit")] /\ UNCHANGED table
  <2>1. at'[p] = Loop(p, "exit")
    BY <1>1, <1>5 DEF TypeOK
  <2>2. at'[p].job = "exit"
    BY ONLY <2>1 DEF Loop, Idle
  <2>. QED BY <1>1, <1>2, <1>5, <2>2, FixPteExitKept
<1>. QED BY <1>3, <1>4, <1>5 DEF FixPte, Begin

\* map_copy's end: the shared page loses the reference its entry counted.
LEMMA SwapPteKept ==
  ASSUME VmmAssumption, VmmInv, NEW p \in Proc, SwapPte(p) PROVE VmmInv' /\ Even
<1>. DEFINE va == at[p].va
            g == at[p].old
<1>1. TypeOK' /\ TypeOK
  BY SwapPteTyped DEF VmmInv
<1>2. /\ at[p].job = "fault" /\ at[p].pc = "swap" /\ UNCHANGED cr3 /\ DecRef(g)
      /\ at' = [at EXCEPT ![p] = Idle(p, "user")]
  BY DEF SwapPte, At, Begin
<1>3. Wrote(Pde(p, at[p].va[1]).fr, at[p].va[2], Ent(at[p].pa, UserFlags))
  BY DEF SwapPte, Wrote
<1>4. /\ at[p] \in Activation /\ cr3[p] \in Frame /\ Eager(Pde(p, va[1]))
      /\ va \in Touched /\ g \in Frame /\ Pte(p, va).fr = g
  BY <1>2, Acting DEF Progress, TypeOK, Coherent
<1>5. at'[p] = Idle(p, "user") /\ \A q \in Proc \ {p} : at'[q] = at[q]
  BY <1>1, <1>2 DEF TypeOK
<1>6. table[g] = EmptyTable /\ ~Exclusive(g) /\ rc[g] >= 1
  <2>1. va[1] \in Idx /\ va[2] \in Idx
    BY <1>4 DEF VmmAssumption, VA
  <2>2. PT(Pde(p, va[1]))[va[2]].fr = g
    BY <1>4 DEF Pte, Eager, Private
  <2>3. Leaf(g) /\ rc[g] >= 1
    BY <1>4, <2>1, <2>2, TableLeaf
  <2>. QED BY <1>4, <2>3, Leaves
<1>7. Gentle({p})
  BY <1>2, <1>4, <1>6, DecGentle
<1>8. \A f \in Frame : rc'[f] = rc[f] - Bit(Pte(p, at[p].va).fr = f)
  BY <1>1, <1>2, <1>4 DEF DecRef, Bit, TypeOK
<1>. QED BY <1>1, <1>2, <1>3, <1>5, <1>7, <1>8, MapKept

-----------------------------------------------------------------------------
(* A table's last reference: its entries go, then its frame.                *)

\* decref(table): nobody else destroys a table that still has a reference.
LEMMA DropPtKept ==
  ASSUME VmmAssumption, VmmInv, NEW p \in Proc, DropPt(p) PROVE VmmInv' /\ Even
<1>. DEFINE o == at[p].old
<1>1. TypeOK' /\ TypeOK
  BY DropPtTyped DEF VmmInv
<1>2. at[p].pc = "drop" /\ UNCHANGED <<table, free, cr3>> /\ rc' = [rc EXCEPT ![o] = @ - 1]
  BY DEF DropPt
<1>3. /\ at[p] \in Activation /\ Record(p) /\ Progress(p) /\ cr3[p] \in Frame /\ o \in Frame
      /\ at[p].job \in {"fault", "exec", "exit"} /\ rc \in [Frame -> Int]
  BY <1>1, <1>2, ActingPc, Acting DEF TypeOK, Coherent
<1>4. \A q \in Proc \ {p} : at'[q] = at[q]
  BY <1>1 DEF DropPt, TypeOK
<1>5. \/ rc[o] = 1 /\ at'[p] = [at[p] EXCEPT !.pc = "doom", !.ptes = Idx]
      \/ rc[o] # 1 /\ at'[p] = [at[p] EXCEPT !.pc = After(p), !.old = NoFrame]
  BY <1>1 DEF DropPt, TypeOK
<1>6. /\ at'[p].job = at[p].job /\ at'[p].pa = at[p].pa /\ at'[p].dst = at[p].dst
      /\ at'[p].new = at[p].new /\ at'[p].va = at[p].va /\ at'[p].kid = at[p].kid
  BY ONLY <1>3, <1>5 DEF Activation
<1>7. \/ rc[o] = 1 /\ at'[p].pc = "doom" /\ at'[p].old = o /\ at'[p].ptes = Idx
      \/ rc[o] # 1 /\ at'[p].pc = After(p) /\ at'[p].old = NoFrame
  BY ONLY <1>3, <1>5 DEF Activation
<1>8. /\ at'[p].pc # "drop" /\ at'[p].pc # "copypt" /\ at'[p].pc # "swap"
      /\ rc[o] # 1 => at'[p].pc = (IF at[p].job = "fault" THEN "pte" ELSE "dir")
  BY <1>7 DEF After
<1>9. rc[o] >= 1 /\ o \notin free
  BY <1>2, <1>3, Referenced
<1>10. Even
  <2>. SUFFICES ASSUME NEW f \in Frame PROVE Slack(f)' = Slack(f)
    BY DEF Even
  <2>1. Slack(f)' = Slack(f) + (rc'[f] - rc[f]) + Bit(cr3[p] = f) - Bit(cr3'[p] = f)
                     + Hand(at[p], f) - Hand(at'[p], f)
    BY <1>1, <1>2, <1>4, SlackHand
  <2>2. Hand(at'[p], f) = Hand(at[p], f) - Bit(o = f)
    BY <1>2, <1>6, <1>8 DEF Hand, Holding, Bit
  <2>3. rc'[f] = rc[f] - Bit(o = f)
    BY <1>2, <1>3 DEF Bit
  <2>4. /\ Hand(at[p], f) \in Int /\ Bit(cr3[p] = f) \in Int /\ rc[f] \in Int /\ Slack(f) \in Int
        /\ Bit(o = f) \in Int /\ Bit(cr3'[p] = f) = Bit(cr3[p] = f)
    BY <1>2, <1>3, ReferencesStep DEF Hand, Bit, Slack
  <2>. HIDE DEF o
  <2>. QED BY ONLY <2>1, <2>2, <2>3, <2>4
<1>11. ASSUME NEW q \in Proc, at[q].pc = "doom"
       PROVE  /\ rc[at[q].old] = 0 /\ at[q].old # o /\ at[q].old \notin free
              /\ at[q].old \in Frame
  BY <1>9, <1>11 DEF VmmInv, Dooms, Dooming, TypeOK, Coherent
<1>12. Gentle({p})
  <2>1. \A f \in Frame : rc'[f] <= rc[f]
    BY <1>2, <1>3
  <2>2. \A f \in free : f \in Frame /\ rc[f] = 0 /\ table[f] = EmptyTable /\ ~Exclusive(f)
    BY Unreferenced DEF VmmInv, TypeOK, FreeEmpty
  <2>3. \A f \in free : rc'[f] = 0
    BY <1>2, <1>3, <1>9, <2>2
  <2>4. \A q \in Proc : at[q].pc = "doom" => rc'[at[q].old] = 0 /\ at[q].old \notin free
    BY <1>2, <1>3, <1>11
  <2>. QED BY <1>2, <2>1, <2>2, <2>3, <2>4 DEF Gentle
<1>13. Tidy({p})
  <2>1. Dirs' = Dirs
    BY <1>2, <1>4, <1>6, DirsSame
  <2>. QED BY <1>2, <2>1, TidySame
<1>14. at'[p].pc = "doom" => Dooming(p)'
  <2>. SUFFICES ASSUME at'[p].pc = "doom" PROVE Dooming(p)'
    OBVIOUS
  <2>1. rc[o] = 1 /\ at'[p].old = o /\ at'[p].ptes = Idx
    BY <1>7 DEF After
  <2>2. rc'[o] = 0
    BY <1>2, <1>3, <2>1
  <2>3. \A q \in Proc : at'[q].pc = "doom" /\ at'[q].old = o => p = q
    BY <1>4, <1>11
  <2>. QED BY <1>2, <1>9, <2>1, <2>2, <2>3 DEF Dooming
<1>15. Record(p)'
  <2>1. at[p].dst \notin Frame
    BY <1>2, <1>3 DEF Record
  <2>2. /\ at'[p].pc \in {"doom", "pte", "dir"}
        /\ at'[p].pc = "pte" => at[p].job = "fault"
        /\ at'[p].pc = "dir" => at[p].job # "fault"
        /\ at'[p].old \in Frame => at'[p].pc = "doom"
    BY <1>7, <1>8 DEF VmmAssumption
  <2>. QED BY <1>3, <1>6, <2>1, <2>2 DEF Record
<1>16. Progress(p)'
  <2>1. \A j : Pde(p, j)' = Pde(p, j)
    BY <1>2 DEF Pde
  <2>. QED BY <1>2, <1>3, <1>6, <1>8, <2>1 DEF Progress
<1>17. VmmInv'
  <2>1. at[p].job # "born" /\ at'[p].job # "fork"
    BY <1>3, <1>6
  <2>. QED BY <1>1, <1>2, <1>4, <1>6, <1>10, <1>12, <1>13, <1>14, <1>15, <1>16, <2>1, EvenSlack, LocalKept
<1>. QED BY <1>10, <1>17

\* destroy_pt, one entry: the page loses the reference the entry counted.
LEMMA DoomPteKept ==
  ASSUME VmmAssumption, VmmInv, NEW p \in Proc, DoomPte(p) PROVE VmmInv' /\ Even
<1>. DEFINE d == at[p].old
            i == Some(at[p].ptes)
            s == table[d][i]
<1>1. TypeOK' /\ TypeOK
  BY DoomPteTyped DEF VmmInv
<1>2. /\ at[p].pc = "doom" /\ at[p].ptes # {} /\ UNCHANGED cr3
      /\ IF Private(s) THEN DecRef(s.fr) ELSE FramesSame
      /\ at' = [at EXCEPT ![p].ptes = @ \ {i}]
  BY DEF DoomPte
<1>0. Wrote(d, i, Absent)
  BY DEF Wrote, DoomPte
<1>3. /\ at[p] \in Activation /\ Record(p) /\ Progress(p) /\ cr3[p] \in Frame /\ d \in Frame
      /\ at[p].job \in {"fault", "exec", "exit"} /\ rc \in [Frame -> Int] /\ Dooming(p)
  BY <1>1, <1>2, ActingPc, Acting DEF TypeOK, Coherent
<1>4. i \in Idx /\ s \in Entry /\ Absent \in Entry /\ Absent.fr = NoFrame
  <2>1. i \in Idx
    BY <1>1, <1>2, PteIndexTyped
  <2>. QED BY <1>1, <1>3, <2>1, EntriesMade DEF TypeOK, Absent, Ent
<1>5. /\ at'[p] = [at[p] EXCEPT !.ptes = @ \ {i}] /\ \A q \in Proc \ {p} : at'[q] = at[q]
  BY <1>1, <1>2 DEF TypeOK
<1>6. /\ at'[p].job = at[p].job /\ at'[p].pc = "doom" /\ at'[p].pa = at[p].pa
      /\ at'[p].dst = at[p].dst /\ at'[p].new = at[p].new /\ at'[p].old = at[p].old
      /\ at'[p].va = at[p].va /\ at'[p].kid = at[p].kid /\ at'[p].ptes = at[p].ptes \ {i}
  BY ONLY <1>2, <1>3, <1>5 DEF Activation
<1>7. /\ rc[d] = 0 /\ d \notin Dirs /\ d # cr3[p] /\ Apart(d, {p})
      /\ \A g \in Frame, j \in Idx : table[g][j].fr # d
  <2>1. rc[d] = 0
    BY <1>3 DEF Dooming
  <2>. QED BY <1>3, <2>1, Unreferenced, DoomApart DEF Dirs
<1>8. /\ Gentle({p})
      /\ \A f \in Frame : rc'[f] = rc[f] - Bit(s.fr = f)
      /\ s.fr # d
      /\ free' \subseteq free \cup {s.fr}
  <2>1. CASE Private(s)
    <3>1. s.fr \in Frame /\ DecRef(s.fr)
      BY <1>2, <1>4, <2>1, PrivateEntries
    <3>2. Leaf(s.fr) /\ rc[s.fr] >= 1
      BY <1>3, <1>4, <1>7, <3>1, Referenced DEF Leaf
    <3>3. table[s.fr] = EmptyTable /\ ~Exclusive(s.fr)
      BY <3>1, <3>2, Leaves
    <3>4. Gentle({p})
      BY <3>1, <3>2, <3>3, DecGentle
    <3>5. \A f \in Frame : rc'[f] = rc[f] - Bit(s.fr = f)
      <4>1. rc' = [rc EXCEPT ![s.fr] = @ - 1]
        BY <3>1 DEF DecRef
      <4>. TAKE f \in Frame
      <4>. HIDE DEF s
      <4>2. CASE s.fr = f
        BY <1>3, <4>1, <4>2 DEF Bit
      <4>3. CASE s.fr # f
        BY <1>3, <4>1, <4>3 DEF Bit
      <4>. QED BY <4>2, <4>3
    <3>6. free' \subseteq free \cup {s.fr}
      BY <3>1 DEF DecRef
    <3>. QED BY <1>3, <1>4, <1>7, <3>4, <3>5, <3>6
  <2>2. CASE ~Private(s)
    <3>1. s.fr \notin Frame /\ UNCHANGED <<rc, free>>
      BY <1>2, <1>4, <2>2, NotPrivate DEF FramesSame
    <3>2. \A f \in Frame : rc'[f] = rc[f] - Bit(s.fr = f)
      BY <1>3, <3>1 DEF Bit
    <3>. QED BY <1>3, <3>1, <3>2, SameGentle
  <2>. QED BY <2>1, <2>2
<1>9. Even
  <2>. SUFFICES ASSUME NEW f \in Frame PROVE Slack(f)' = Slack(f)
    BY DEF Even
  <2>1. Hand(at'[p], f) = Hand(at[p], f)
    BY ONLY <1>2, <1>6 DEF Hand, Holding
  <2>2. /\ Slack(f)' = Slack(f) + (rc'[f] - rc[f]) + Bit(table[d][i].fr = f) - Bit(Absent.fr = f)
                           + Hand(at[p], f) - Hand(at'[p], f)
        /\ Slack(f) \in Int /\ rc[f] \in Int /\ rc'[f] \in Int /\ Hand(at[p], f) \in Int
        /\ Bit(table[d][i].fr = f) \in {0, 1} /\ Bit(Absent.fr = f) \in {0, 1}
    <3>1. UNCHANGED cr3
      BY <1>2
    <3>. HIDE DEF d, i, s
    <3>. QED BY <1>0, <1>1, <1>3, <1>4, <1>5, <3>1, SlackWrite
  <2>3. Bit(Absent.fr = f) = 0
    BY <1>4 DEF Bit, VmmAssumption
  <2>4. rc'[f] = rc[f] - Bit(table[d][i].fr = f)
    BY <1>8
  <2>. HIDE DEF d, i, s
  <2>. QED BY ONLY <2>1, <2>2, <2>3, <2>4
<1>10. Dirs' = Dirs
  BY <1>2, <1>5, <1>6, DirsSame
<1>11. Tidy({p})
  <2>1. Absent.fr \notin Frame
    BY <1>4 DEF VmmAssumption
  <2>. HIDE DEF d, i, s
  <2>. QED BY <1>0, <1>3, <1>4, <1>7, <1>10, <2>1, TidyWrite
<1>12. Dooming(p)'
  <2>1. rc'[d] = 0 /\ d \notin free'
    BY <1>3, <1>7, <1>8 DEF Bit, Dooming
  <2>2. /\ table'[d][i] = Absent
        /\ \A j \in Idx \ {i} : table'[d][j] = table[d][j]
    <3>. HIDE DEF i, s
    <3>. QED BY <1>0, <1>1, <1>3, <1>4, Written
  <2>3. \A j \in Idx \ at'[p].ptes : table'[d][j] = Absent
    BY <1>3, <1>6, <2>2 DEF Dooming
  <2>4. \A q \in Proc : at'[q].pc = "doom" /\ at'[q].old = d => p = q
    BY <1>3, <1>5 DEF Dooming
  <2>. QED BY <1>6, <2>1, <2>3, <2>4 DEF Dooming
<1>13. Record(p)'
  BY <1>2, <1>3, <1>6 DEF Record
<1>14. Progress(p)'
  <2>1. table'[cr3[p]] = table[cr3[p]]
    <3>. HIDE DEF i, s
    <3>. QED BY <1>0, <1>1, <1>3, <1>4, <1>7, Written
  <2>2. \A j : Pde(p, j)' = Pde(p, j)
    BY <1>2, <2>1 DEF Pde
  <2>. QED BY <1>2, <1>3, <1>6, <2>2 DEF Progress
<1>15. VmmInv'
  <2>1. at[p].job # "born" /\ at'[p].job # "fork" /\ UNCHANGED cr3
    BY <1>2, <1>3, <1>6
  <2>. QED BY <1>1, <1>5, <1>6, <1>8, <1>9, <1>11, <1>12, <1>13, <1>14, <2>1, EvenSlack, LocalKept
<1>. QED BY <1>9, <1>15

\* dealloc_frame of a table whose entries are all gone.
LEMMA FreePtKept ==
  ASSUME VmmAssumption, VmmInv, NEW p \in Proc, FreePt(p) PROVE VmmInv' /\ Even
<1>. DEFINE d == at[p].old
<1>1. TypeOK' /\ TypeOK
  BY FreePtTyped DEF VmmInv
<1>2. /\ at[p].pc = "doom" /\ at[p].ptes = {} /\ UNCHANGED <<table, rc, cr3>>
      /\ free' = free \cup {d}
  BY DEF FreePt
<1>3. /\ at[p] \in Activation /\ Record(p) /\ Progress(p) /\ cr3[p] \in Frame /\ d \in Frame
      /\ at[p].job \in {"fault", "exec", "exit"} /\ Dooming(p) /\ rc \in [Frame -> Int]
      /\ table[d] \in [Idx -> Entry]
  BY <1>1, <1>2, ActingPc, Acting DEF TypeOK, Coherent
<1>4. rc[d] = 0 /\ table[d] = EmptyTable /\ ~Exclusive(d)
  <2>1. rc[d] = 0 /\ \A i \in Idx : table[d][i] = Absent
    BY <1>2, <1>3 DEF Dooming
  <2>2. table[d] = EmptyTable
    BY <1>3, <2>1 DEF EmptyTable
  <2>. QED BY <1>3, <2>1, <2>2, Unreferenced
<1>5. /\ at'[p] = [at[p] EXCEPT !.pc = After(p), !.old = NoFrame]
      /\ \A q \in Proc \ {p} : at'[q] = at[q]
  BY <1>1 DEF FreePt, TypeOK
<1>6. /\ at'[p].job = at[p].job /\ at'[p].pa = at[p].pa
      /\ at'[p].dst = at[p].dst /\ at'[p].new = at[p].new /\ at'[p].old = NoFrame
      /\ at'[p].va = at[p].va /\ at'[p].kid = at[p].kid
      /\ at'[p].pc = IF at[p].job = "fault" THEN "pte" ELSE "dir"
  BY ONLY <1>3, <1>5 DEF Activation, After
<1>7. Even
  <2>. SUFFICES ASSUME NEW f \in Frame PROVE Slack(f)' = Slack(f)
    BY DEF Even
  <2>1. Slack(f)' = Slack(f) + (rc'[f] - rc[f]) + Bit(cr3[p] = f) - Bit(cr3'[p] = f)
                     + Hand(at[p], f) - Hand(at'[p], f)
    BY <1>1, <1>2, <1>5, SlackHand
  <2>2. Hand(at'[p], f) = Hand(at[p], f)
    BY <1>2, <1>6 DEF Hand, Holding, Bit
  <2>3. /\ Hand(at[p], f) \in Int /\ Bit(cr3[p] = f) \in Int /\ rc[f] \in Int /\ Slack(f) \in Int
        /\ rc'[f] = rc[f] /\ Bit(cr3'[p] = f) = Bit(cr3[p] = f)
    BY <1>2, <1>3, ReferencesStep DEF Hand, Bit, Slack
  <2>. QED BY ONLY <2>1, <2>2, <2>3
<1>8. Gentle({p})
  <2>1. \A f \in free' : f \in Frame /\ rc[f] = 0 /\ table[f] = EmptyTable /\ ~Exclusive(f)
    BY <1>2, <1>3, <1>4, Unreferenced DEF VmmInv, TypeOK, FreeEmpty
  <2>2. \A q \in Proc \ {p} : at[q].pc = "doom" => rc[at[q].old] = 0 /\ at[q].old \notin free'
    BY <1>2, <1>3 DEF VmmInv, Dooms, Dooming
  <2>. QED BY <1>2, <1>3, <2>1, <2>2 DEF Gentle
<1>9. Tidy({p})
  <2>1. Dirs' = Dirs
    BY <1>2, <1>5, <1>6, DirsSame
  <2>. QED BY <1>2, <2>1, TidySame
<1>10. Record(p)'
  BY <1>2, <1>3, <1>6 DEF Record, VmmAssumption
<1>11. Progress(p)'
  <2>1. \A j : Pde(p, j)' = Pde(p, j)
    BY <1>2 DEF Pde
  <2>. QED BY <1>2, <1>3, <1>6, <2>1 DEF Progress
<1>12. VmmInv'
  <2>1. at[p].job # "born" /\ at'[p].job # "fork" /\ at'[p].pc # "doom" /\ UNCHANGED cr3
    BY <1>2, <1>3, <1>6
  <2>. QED BY <1>1, <1>5, <1>6, <1>7, <1>8, <1>9, <1>10, <1>11, <2>1, EvenSlack, LocalKept
<1>. QED BY <1>7, <1>12

-----------------------------------------------------------------------------
(* copy_pd, clear_pd and clear_pt.                                          *)

\* The directory copy_pd fills is p's alone.
LEMMA Copying ==
  ASSUME VmmAssumption, VmmInv, NEW p \in Proc, at[p].job = "fork"
  PROVE  /\ at[p] \in Activation /\ Record(p) /\ cr3[p] \in Frame /\ TypeOK
         /\ at[p].new \in Frame /\ at[p].new \in Dirs /\ at[p].new # cr3[p]
         /\ Exclusive(at[p].new) /\ Apart(at[p].new, {p})
<1>1. at[p] \in Activation /\ Record(p) /\ cr3[p] \in Frame /\ TypeOK /\ at[p].new \in Frame
  BY Acting DEF TypeOK, Coherent
<1>2. Rooted(p, at[p].new) /\ at[p].new \in Dirs
  BY <1>1 DEF Rooted, Dirs
<1>3. Exclusive(at[p].new) /\ Apart(at[p].new, {p})
  BY <1>1, <1>2, OwnApart
<1>4. at[p].new # cr3[p]
  BY <1>1, <1>3, Alone
<1>. QED BY <1>1, <1>2, <1>3, <1>4

\* A shared entry's table is counted once more.
LEMMA CopyPdeShareKept ==
  ASSUME VmmAssumption, VmmInv, TypeOK', NEW p \in Proc, At(p, "fork", "dir"),
         at[p].dirs # {}, UNCHANGED cr3, ~Eager(Pde(p, Dir(p))),
         IF Private(Pde(p, Dir(p))) THEN IncRef(Pde(p, Dir(p)).fr) ELSE FramesSame,
         table' = [table EXCEPT ![at[p].new][Dir(p)] = Pde(p, Dir(p))],
         at' = [at EXCEPT ![p].dirs = @ \ {Dir(p)}]
  PROVE  VmmInv' /\ (table[at[p].new][Dir(p)] = Absent => Even)
<1>. DEFINE d == at[p].new
            i == Dir(p)
            e == Pde(p, i)
<1>1. at[p].job = "fork" /\ at[p].pc = "dir"
  BY DEF At
<1>0. Wrote(d, i, e)
  BY DEF Wrote
<1>2. /\ at[p] \in Activation /\ Record(p) /\ cr3[p] \in Frame /\ TypeOK
      /\ d \in Frame /\ d \in Dirs /\ Exclusive(d) /\ Apart(d, {p}) /\ rc \in [Frame -> Int]
  BY <1>1, Copying DEF TypeOK
<1>3. i \in Idx /\ e \in Entry /\ e = table[cr3[p]][i]
  <2>1. i \in Idx
    BY <1>2, DirTyped
  <2>. QED BY <1>2, <2>1, PdeTyped DEF Pde
<1>4. /\ at'[p] = [at[p] EXCEPT !.dirs = @ \ {i}] /\ \A q \in Proc \ {p} : at'[q] = at[q]
  BY <1>2 DEF TypeOK
<1>5. /\ at'[p].job = "fork" /\ at'[p].pc = "dir" /\ at'[p].pa = at[p].pa
      /\ at'[p].dst = at[p].dst /\ at'[p].new = at[p].new /\ at'[p].old = at[p].old
      /\ at'[p].kid = at[p].kid
  BY ONLY <1>1, <1>2, <1>4 DEF Activation
<1>6. ASSUME e.fr \in Frame PROVE ~Exclusive(e.fr) /\ rc[e.fr] >= 1
  <2>1. rc[e.fr] >= 1
    BY <1>2, <1>3, <1>6, Referenced
  <2>2. ASSUME Exclusive(e.fr) PROVE FALSE
    <3>1. \A q \in Proc : ~Rooted(q, e.fr)
      BY <1>2, <1>3, <1>6, BelowApart
    <3>2. PICK g \in Dirs, j \in Idx : Under(e.fr, g, j)
      BY <2>2, <3>1 DEF Exclusive
    <3>3. g \in Frame /\ table[g][j].fr = e.fr /\ Eager(table[g][j])
      BY <3>2 DEF Under, Dirs
    <3>4. g = cr3[p] /\ j = i
      BY <1>2, <1>3, <1>6, <2>2, <3>3, Alone
    <3>. QED BY <1>3, <3>3, <3>4
  <2>. QED BY <2>1, <2>2
<1>7. Gentle({p}) /\ \A f \in Frame : rc'[f] = rc[f] + Bit(e.fr = f)
  <2>1. CASE Private(e)
    <3>1. e.fr \in Frame /\ IncRef(e.fr)
      BY <1>3, <2>1, PrivateEntries
    <3>2. \A f \in Frame : rc'[f] = rc[f] + Bit(e.fr = f)
      BY <1>2, <3>1 DEF IncRef, Bit
    <3>. QED BY <1>6, <3>1, <3>2, IncGentle
  <2>2. CASE ~Private(e)
    <3>1. e.fr \notin Frame /\ UNCHANGED <<rc, free>>
      BY <1>3, <2>2, NotPrivate DEF FramesSame
    <3>. QED BY <1>2, <3>1, SameGentle DEF Bit
  <2>. QED BY <2>1, <2>2
<1>8. ASSUME NEW f \in Frame
      PROVE  Slack(f)' >= Slack(f) /\ (table[d][i] = Absent => Slack(f)' = Slack(f))
  <2>1. Hand(at'[p], f) = Hand(at[p], f)
    BY ONLY <1>1, <1>5 DEF Hand, Holding
  <2>2. rc'[f] = rc[f] + Bit(e.fr = f)
    BY <1>7
  <2>3. /\ Slack(f)' = Slack(f) + (rc'[f] - rc[f]) + Bit(table[d][i].fr = f) - Bit(e.fr = f)
                           + Hand(at[p], f) - Hand(at'[p], f)
        /\ Slack(f) \in Int /\ rc[f] \in Int /\ rc'[f] \in Int /\ Hand(at[p], f) \in Int
        /\ Bit(table[d][i].fr = f) \in {0, 1} /\ Bit(e.fr = f) \in {0, 1}
    <3>1. VmmAssumption /\ TypeOK' /\ UNCHANGED cr3 /\ p \in Proc /\ f \in Frame
      OBVIOUS
    <3>. HIDE DEF d, i, e
    <3>. QED BY ONLY <3>1, <1>0, <1>2, <1>3, <1>4, SlackWrite
  <2>4. table[d][i] = Absent => Bit(table[d][i].fr = f) = 0
    BY AbsentBit
  <2>. HIDE DEF d, i, e
  <2>. QED BY ONLY <2>1, <2>2, <2>3, <2>4
<1>9. Dirs' = Dirs
  BY <1>4, <1>5, DirsSame
<1>10. Tidy({p})
  <2>1. ~Eager(e)
    OBVIOUS
  <2>. HIDE DEF d, i, e
  <2>. QED BY <1>0, <1>2, <1>3, <1>9, <2>1, TidyWrite
<1>11. Record(p)'
  BY <1>1, <1>2, <1>5 DEF Record
<1>12. Progress(p)'
  BY <1>5 DEF Progress
<1>13. VmmInv'
  BY <1>1, <1>4, <1>5, <1>7, <1>8, <1>10, <1>11, <1>12, LocalKept
<1>. QED BY <1>8, <1>13 DEF Even

\* copy_pd, one entry.
LEMMA CopyPdeKept ==
  ASSUME VmmAssumption, VmmInv, NEW p \in Proc, CopyPde(p)
  PROVE  /\ VmmInv'
         /\ Eager(Pde(p, Dir(p))) \/ table[at[p].new][Dir(p)] = Absent => Even
<1>1. TypeOK'
  BY CopyPdeTyped DEF VmmInv
<1>2. At(p, "fork", "dir") /\ at[p].dirs # {} /\ UNCHANGED cr3
  BY DEF CopyPde
<1>3. CASE /\ AllocFrame
           /\ at' = [at EXCEPT ![p].pc = "copypt", ![p].pde = Pde(p, Dir(p)), ![p].dst = Fresh,
                             ![p].ptes = Idx]
           /\ UNCHANGED table
  BY <1>1, <1>2, <1>3, CopyPdeCopyKept
<1>4. CASE /\ ~Eager(Pde(p, Dir(p)))
           /\ IF Private(Pde(p, Dir(p))) THEN IncRef(Pde(p, Dir(p)).fr) ELSE FramesSame
           /\ table' = [table EXCEPT ![at[p].new][Dir(p)] = Pde(p, Dir(p))]
           /\ at' = [at EXCEPT ![p].dirs = @ \ {Dir(p)}]
  BY <1>1, <1>2, <1>4, CopyPdeShareKept
<1>. QED BY <1>3, <1>4 DEF CopyPde

\* The copied table enters the new directory.
LEMMA EnterPtKept ==
  ASSUME VmmAssumption, VmmInv, NEW p \in Proc, EnterPt(p)
  PROVE  VmmInv' /\ (table[at[p].new][Dir(p)] = Absent => Even)
<1>. DEFINE d == at[p].new
            i == Dir(p)
            e == Ent(at[p].dst, at[p].pde.flags)
<1>1. TypeOK'
  BY EnterPtTyped DEF VmmInv
<1>2. at[p].job = "fork" /\ at[p].pc = "copypt" /\ UNCHANGED <<cr3, rc, free>>
  BY DEF EnterPt, At, FramesSame
<1>0. Wrote(d, i, e)
  BY DEF Wrote, EnterPt
<1>3. /\ at[p] \in Activation /\ Record(p) /\ cr3[p] \in Frame /\ TypeOK
      /\ d \in Frame /\ d \in Dirs /\ Exclusive(d) /\ Apart(d, {p}) /\ i \in Idx
      /\ at[p].dst \in Frame /\ Exclusive(at[p].dst)
  BY <1>2, Copying, Filling
<1>4. e \in Entry /\ e.fr = at[p].dst
  <2>1. at[p].pde \in Entry /\ Private(at[p].pde)
    BY <1>2, <1>3 DEF Activation, TypeOK, Coherent
  <2>. QED BY <1>3, <2>1, PrivateEntries DEF Ent
<1>5. /\ at'[p] = [at[p] EXCEPT !.pc = "dir", !.dst = NoFrame, !.pde = Absent,
                             !.dirs = @ \ {i}]
      /\ \A q \in Proc \ {p} : at'[q] = at[q]
  BY <1>3 DEF EnterPt, TypeOK
<1>6. /\ at'[p].job = "fork" /\ at'[p].pc = "dir" /\ at'[p].pa = at[p].pa
      /\ at'[p].dst = NoFrame /\ at'[p].new = at[p].new /\ at'[p].old = at[p].old
      /\ at'[p].kid = at[p].kid
  BY ONLY <1>2, <1>3, <1>5 DEF Activation
<1>7. ASSUME NEW f \in Frame
      PROVE  Slack(f)' >= Slack(f) /\ (table[d][i] = Absent => Slack(f)' = Slack(f))
  <2>1. Hand(at'[p], f) = Hand(at[p], f) - Bit(e.fr = f)
    BY <1>2, <1>4, <1>6 DEF Hand, Holding, Bit, VmmAssumption
  <2>2. rc'[f] = rc[f]
    BY <1>2
  <2>3. /\ Slack(f)' = Slack(f) + (rc'[f] - rc[f]) + Bit(table[d][i].fr = f) - Bit(e.fr = f)
                           + Hand(at[p], f) - Hand(at'[p], f)
        /\ Slack(f) \in Int /\ rc[f] \in Int /\ rc'[f] \in Int /\ Hand(at[p], f) \in Int
        /\ Bit(table[d][i].fr = f) \in {0, 1} /\ Bit(e.fr = f) \in {0, 1}
    <3>. HIDE DEF d, i, e
    <3>. QED BY <1>0, <1>1, <1>2, <1>3, <1>4, <1>5, SlackWrite
  <2>4. table[d][i] = Absent => Bit(table[d][i].fr = f) = 0
    BY AbsentBit
  <2>. HIDE DEF d, i, e
  <2>. QED BY ONLY <2>1, <2>2, <2>3, <2>4
<1>8. Dirs' = Dirs
  BY <1>2, <1>5, <1>6, DirsSame
<1>9. Tidy({p})
  <2>. HIDE DEF d, i, e
  <2>. QED BY <1>0, <1>3, <1>4, <1>8, TidyWrite
<1>10. Gentle({p})
  BY <1>2, SameGentle
<1>11. Record(p)'
  BY <1>2, <1>3, <1>6 DEF Record, VmmAssumption
<1>12. Progress(p)'
  BY <1>6 DEF Progress
<1>13. VmmInv'
  BY <1>1, <1>2, <1>5, <1>6, <1>7, <1>9, <1>10, <1>11, <1>12, LocalKept
<1>. QED BY <1>7, <1>13 DEF Even

\* clear_pd, destroy_pd: an entry is dropped, and its reference is in hand.
LEMMA ClearPdeDropKept ==
  ASSUME VmmAssumption, VmmInv, TypeOK', NEW p \in Proc, at[p].job \in {"exec", "exit"},
         at[p].pc = "dir", at[p].dirs # {}, UNCHANGED <<cr3, rc, free>>,
         Private(Pde(p, Dir(p))),
         at' = [at EXCEPT ![p].dirs = @ \ {Dir(p)}, ![p].pc = "drop",
                          ![p].old = Pde(p, Dir(p)).fr],
         table' = [table EXCEPT ![cr3[p]][Dir(p)] = Absent]
  PROVE  VmmInv' /\ Even
<1>. DEFINE d == cr3[p]
            i == Dir(p)
            s == table[d][i]
<1>0. Wrote(d, i, Absent)
  BY DEF Wrote
<1>2. /\ at[p] \in Activation /\ Record(p) /\ d \in Frame /\ TypeOK
      /\ i \in Idx /\ Absent \in Entry /\ Absent.fr = NoFrame
  <2>1. at[p] \in Activation /\ Record(p) /\ d \in Frame /\ TypeOK
    BY Acting
  <2>. QED BY <2>1, DirTyped, EntriesMade DEF Absent, Ent
<1>3. s = Pde(p, i) /\ s.fr \in Frame
  <2>1. s = Pde(p, i)
    BY DEF Pde
  <2>. QED BY <1>2, <2>1, PdeTyped, PrivateEntries
<1>4. /\ at'[p] = [at[p] EXCEPT !.dirs = @ \ {i}, !.pc = "drop", !.old = s.fr]
      /\ \A q \in Proc \ {p} : at'[q] = at[q]
  BY <1>2, <1>3 DEF TypeOK
<1>5. /\ at'[p].job = at[p].job /\ at'[p].pc = "drop" /\ at'[p].pa = at[p].pa
      /\ at'[p].dst = at[p].dst /\ at'[p].new = at[p].new /\ at'[p].old = s.fr
      /\ at'[p].kid = at[p].kid
  BY ONLY <1>2, <1>4 DEF Activation
<1>6. Even
  <2>. SUFFICES ASSUME NEW f \in Frame PROVE Slack(f)' = Slack(f)
    BY DEF Even
  <2>1. Hand(at'[p], f) = Hand(at[p], f) + Bit(s.fr = f)
    BY <1>5 DEF Hand, Holding, Bit
  <2>2. rc'[f] = rc[f] /\ Bit(Absent.fr = f) = 0
    BY <1>2 DEF Bit, VmmAssumption
  <2>3. /\ Slack(f)' = Slack(f) + (rc'[f] - rc[f]) + Bit(table[d][i].fr = f) - Bit(Absent.fr = f)
                           + Hand(at[p], f) - Hand(at'[p], f)
        /\ Slack(f) \in Int /\ rc[f] \in Int /\ rc'[f] \in Int /\ Hand(at[p], f) \in Int
        /\ Bit(table[d][i].fr = f) \in {0, 1} /\ Bit(Absent.fr = f) \in {0, 1}
    <3>1. VmmAssumption /\ TypeOK' /\ UNCHANGED cr3 /\ p \in Proc /\ f \in Frame
      OBVIOUS
    <3>. HIDE DEF d, i, s
    <3>. QED BY ONLY <3>1, <1>0, <1>2, <1>4, SlackWrite
  <2>4. Bit(table[d][i].fr = f) = Bit(s.fr = f)
    OBVIOUS
  <2>. HIDE DEF d, i, s
  <2>. QED BY ONLY <2>1, <2>2, <2>3, <2>4
<1>7. Dirs' = Dirs
  BY <1>4, <1>5, DirsSame
<1>8. Tidy({p})
  <2>1. Exclusive(d) /\ Apart(d, {p})
    BY <1>2, OwnApart DEF Rooted
  <2>2. d \in Dirs /\ ~Eager(Absent)
    BY <1>2 DEF Dirs, Eager, Private, Present
  <2>. HIDE DEF d, i, s
  <2>. QED BY <1>0, <1>2, <1>7, <2>1, <2>2, TidyWrite
<1>9. Gentle({p})
  BY SameGentle
<1>10. Record(p)'
  BY <1>2, <1>5 DEF Record
<1>11. Progress(p)'
  BY <1>5 DEF Progress
<1>12. VmmInv'
  <2>1. at[p].job # "born" /\ at'[p].job # "fork" /\ at'[p].pc # "doom"
    BY <1>5
  <2>. QED BY <1>4, <1>5, <1>6, <1>8, <1>9, <1>10, <1>11, <2>1, EvenSlack, LocalKept
<1>. QED BY <1>6, <1>12

\* clear_pd and destroy_pd, one entry.
LEMMA ClearPdeKept ==
  ASSUME VmmAssumption, VmmInv, NEW p \in Proc, ClearPde(p) PROVE VmmInv' /\ Even
<1>1. TypeOK' /\ TypeOK
  BY ClearPdeTyped DEF VmmInv
<1>2. /\ at[p].job \in {"exec", "exit"} /\ at[p].pc = "dir" /\ at[p].dirs # {}
      /\ UNCHANGED <<cr3, rc, free>>
  BY DEF ClearPde, FramesSame
<1>3. at[p] \in Activation /\ Record(p)
  BY <1>2, Acting
<1>4. ASSUME \/ at' = [at EXCEPT ![p].dirs = @ \ {Dir(p)}]
             \/ at' = [at EXCEPT ![p].pc = "clearpt", ![p].ptes = Idx] /\ at[p].job = "exec",
             UNCHANGED table
      PROVE  VmmInv' /\ Even
  <2>1. /\ \/ at'[p] = [at[p] EXCEPT !.dirs = @ \ {Dir(p)}]
           \/ at'[p] = [at[p] EXCEPT !.pc = "clearpt", !.ptes = Idx] /\ at[p].job = "exec"
        /\ \A q \in Proc \ {p} : at'[q] = at[q]
    BY <1>1, <1>4 DEF TypeOK
  <2>2. /\ at'[p].job = at[p].job /\ at'[p].pa = at[p].pa /\ at'[p].dst = at[p].dst
        /\ at'[p].new = at[p].new /\ at'[p].old = at[p].old
        /\ \/ at'[p].pc = "dir"
           \/ at'[p].pc = "clearpt" /\ at[p].job = "exec"
    BY ONLY <1>2, <1>3, <2>1 DEF Activation
  <2>3. Record(p)'
    BY <1>2, <1>3, <2>2 DEF Record
  <2>4. Progress(p)'
    BY <1>2, <2>2 DEF Progress
  <2>5. /\ at[p].job # "born" /\ at'[p].job # "fork"
        /\ at[p].pc \notin {"drop", "doom"} /\ at'[p].pc \notin {"drop", "doom"}
    BY <1>2, <2>2
  <2>. QED BY <1>1, <1>2, <1>4, <2>1, <2>2, <2>3, <2>4, <2>5, LocalStepKept DEF Even
<1>5. CASE at' = [at EXCEPT ![p].dirs = @ \ {Dir(p)}] /\ UNCHANGED table
  BY <1>4, <1>5
<1>6. CASE /\ Private(Pde(p, Dir(p)))
           /\ at' = [at EXCEPT ![p].dirs = @ \ {Dir(p)}, ![p].pc = "drop",
                               ![p].old = Pde(p, Dir(p)).fr]
           /\ table' = [table EXCEPT ![cr3[p]][Dir(p)] = Absent]
  BY <1>1, <1>2, <1>6, ClearPdeDropKept
<1>7. CASE /\ Keeps(p, Pde(p, Dir(p))) /\ UNCHANGED table
           /\ at' = [at EXCEPT ![p].pc = "clearpt", ![p].ptes = Idx]
  BY <1>4, <1>7 DEF Keeps
<1>. QED BY <1>5, <1>6, <1>7 DEF ClearPde

\* clear_pt, one entry: the page loses the reference the entry counted.
LEMMA ClearPteKept ==
  ASSUME VmmAssumption, VmmInv, NEW p \in Proc, ClearPte(p) PROVE VmmInv' /\ Even
<1>. DEFINE i == Some(at[p].ptes)
            t == Pde(p, Dir(p))
            s == PT(t)[i]
            d == t.fr
<1>1. TypeOK' /\ TypeOK
  BY ClearPteTyped DEF VmmInv
<1>2. /\ at[p].pc = "clearpt" /\ at[p].ptes # {} /\ UNCHANGED cr3
      /\ at' = [at EXCEPT ![p].ptes = @ \ {i}]
  BY DEF ClearPte
<1>3. /\ at[p] \in Activation /\ Record(p) /\ cr3[p] \in Frame
      /\ at[p].job = "exec" /\ rc \in [Frame -> Int] /\ Dir(p) \in Idx
  <2>1. /\ at[p] \in Activation /\ Record(p) /\ cr3[p] \in Frame
        /\ at[p].job = "exec" /\ rc \in [Frame -> Int] /\ at[p].dirs # {}
    BY <1>1, <1>2, ActingPc, Acting DEF TypeOK, Coherent
  <2>. QED BY <1>1, <2>1, DirTyped
<1>4. i \in Idx /\ s \in Entry /\ Absent \in Entry /\ Absent.fr = NoFrame
  <2>1. i \in Idx
    BY <1>1, <1>2, PteIndexTyped
  <2>. QED BY <1>1, <2>1, PTTyped, EntriesMade DEF TypeOK, TablesTyped, Absent, Ent
<1>5. /\ at'[p] = [at[p] EXCEPT !.ptes = @ \ {i}] /\ \A q \in Proc \ {p} : at'[q] = at[q]
  BY <1>1, <1>2 DEF TypeOK
<1>6. /\ at'[p].job = "exec" /\ at'[p].pc = "clearpt" /\ at'[p].pa = at[p].pa
      /\ at'[p].dst = at[p].dst /\ at'[p].new = at[p].new /\ at'[p].old = at[p].old
  BY ONLY <1>2, <1>3, <1>5 DEF Activation
<1>7. Record(p)' /\ Progress(p)'
  <2>1. Record(p)'
    BY <1>2, <1>3, <1>6 DEF Record
  <2>2. Progress(p)'
    BY <1>6 DEF Progress
  <2>. QED BY <2>1, <2>2
<1>8. CASE ~Private(s)
  <2>1. UNCHANGED <<table, rc, free>>
    BY <1>8 DEF ClearPte, FramesSame
  <2>. QED BY <1>1, <1>2, <1>3, <1>5, <1>6, <1>7, <2>1, LocalStepKept DEF Even
<1>9. CASE Private(s)
  <2>1. DecRef(s.fr) /\ Wrote(d, i, Absent) /\ s.fr \in Frame
    BY <1>4, <1>9, PrivateEntries DEF ClearPte, Wrote
  <2>2. d \in Frame /\ s = table[d][i] /\ Leaf(s.fr) /\ rc[s.fr] >= 1
    BY <1>3, <1>4, <2>1, TableLeaf
  <2>3. Apart(d, {p}) /\ d \notin Dirs
    BY <1>3, <2>2, BelowApart DEF Pde
  <2>4. table[s.fr] = EmptyTable /\ ~Exclusive(s.fr)
    BY <2>1, <2>2, Leaves
  <2>5. Gentle({p})
    BY <2>1, <2>2, <2>4, DecGentle
  <2>6. Even
    <3>. SUFFICES ASSUME NEW f \in Frame PROVE Slack(f)' = Slack(f)
      BY DEF Even
    <3>1. Hand(at'[p], f) = Hand(at[p], f)
      BY ONLY <1>2, <1>6 DEF Hand, Holding
    <3>2. rc'[f] = rc[f] - Bit(s.fr = f) /\ Bit(Absent.fr = f) = 0
      BY <1>3, <1>4, <2>1 DEF Bit, DecRef, VmmAssumption
    <3>3. /\ Slack(f)' = Slack(f) + (rc'[f] - rc[f]) + Bit(table[d][i].fr = f) - Bit(Absent.fr = f)
                           + Hand(at[p], f) - Hand(at'[p], f)
          /\ Slack(f) \in Int /\ rc[f] \in Int /\ rc'[f] \in Int /\ Hand(at[p], f) \in Int
          /\ Bit(table[d][i].fr = f) \in {0, 1} /\ Bit(Absent.fr = f) \in {0, 1}
      <4>1. UNCHANGED cr3
        BY <1>2
      <4>. HIDE DEF d, i, s, t
      <4>. QED BY <1>1, <1>4, <1>5, <2>1, <2>2, <4>1, SlackWrite
    <3>4. Bit(table[d][i].fr = f) = Bit(s.fr = f)
      BY <2>2
    <3>. HIDE DEF d, i, s, t
    <3>. QED BY ONLY <3>1, <3>2, <3>3, <3>4
  <2>7. Dirs' = Dirs
    BY <1>2, <1>5, <1>6, DirsSame
  <2>8. Tidy({p})
    <3>1. Absent.fr \notin Frame
      BY <1>4 DEF VmmAssumption
    <3>. HIDE DEF d, i, s, t
    <3>. QED BY <1>4, <2>1, <2>2, <2>3, <2>7, <3>1, TidyWrite
  <2>9. VmmInv'
    <3>1. at[p].job # "born" /\ at'[p].job # "fork" /\ at'[p].pc # "doom" /\ UNCHANGED cr3
      BY <1>2, <1>3, <1>6
    <3>. QED BY <1>1, <1>5, <1>6, <1>7, <2>5, <2>6, <2>8, <3>1, EvenSlack, LocalKept
  <2>. QED BY <2>6, <2>9
<1>. QED BY <1>8, <1>9

-----------------------------------------------------------------------------
(* fork, and the end of a process.                                          *)

\* An entry without a frame is absent.
LEMMA FramelessAbsent ==
  ASSUME VmmAssumption, NEW e \in Entry, e.fr = NoFrame PROVE e = Absent
  BY DEF Entry, Absent, Ent, VmmAssumption

\* write_protect takes flags away, and only below p's own directory.
LEMMA WriteProtected ==
  ASSUME VmmAssumption, TypeOK, TypeOK', NEW p \in Proc, cr3[p] \in Frame,
         table' = WriteProtect(p)
  PROVE  /\ \A g \in Frame, i \in Idx : /\ table'[g][i].fr = table[g][i].fr
                                        /\ Eager(table'[g][i]) => Eager(table[g][i])
         /\ \A g \in Frame : \/ table'[g] = table[g]
                             \/ g = cr3[p]
                             \/ \E i \in Idx : Under(g, cr3[p], i)
         /\ \A g \in Frame : table[g] = EmptyTable => table'[g] = EmptyTable
<1>. DEFINE pd == table[cr3[p]]
            open == {i \in Idx : Private(pd[i]) /\ "RW" \in pd[i].flags}
<1>1. \A e : /\ ReadOnly(e).fr = e.fr /\ ReadOnly(e).flags \subseteq e.flags
             /\ ProtectedPde(e) \in {e, ReadOnly(e)}
  BY DEF ReadOnly, Ent, ProtectedPde
<1>2. ASSUME NEW g \in Frame
      PROVE  table'[g] = IF g = cr3[p]
                         THEN [i \in Idx |-> IF i \in open THEN ProtectedPde(pd[i]) ELSE pd[i]]
                         ELSE IF \E i \in open : pd[i].fr = g THEN Protected(table[g])
                         ELSE table[g]
  BY DEF WriteProtect
<1>3. ASSUME NEW g \in Frame, NEW i \in Idx
      PROVE  table'[g][i] \in {table[g][i], ReadOnly(table[g][i])}
  <2>1. CASE g = cr3[p]
    <3>1. table'[g] = [k \in Idx |-> IF k \in open THEN ProtectedPde(pd[k]) ELSE pd[k]]
      BY <1>2, <2>1
    <3>2. table'[g][i] = IF i \in open THEN ProtectedPde(pd[i]) ELSE pd[i]
      BY <3>1
    <3>3. ProtectedPde(pd[i]) \in {pd[i], ReadOnly(pd[i])}
      BY <1>1
    <3>. QED BY <2>1, <3>2, <3>3
  <2>2. CASE g # cr3[p] /\ \E j \in open : pd[j].fr = g
    <3>1. table'[g] = Protected(table[g])
      BY <1>2, <2>2
    <3>. QED BY <3>1 DEF Protected
  <2>3. CASE g # cr3[p] /\ ~\E j \in open : pd[j].fr = g
    <3>1. table'[g] = table[g]
      BY <1>2, <2>3
    <3>. QED BY <3>1
  <2>. QED BY <2>1, <2>2, <2>3
<1>4. ASSUME NEW g \in Frame, NEW i \in Idx
      PROVE  /\ table'[g][i].fr = table[g][i].fr
             /\ table'[g][i].flags \subseteq table[g][i].flags
  <2>. DEFINE e == table[g][i]
              n == table'[g][i]
  <2>1. n = e \/ n = ReadOnly(e)
    BY <1>3
  <2>2. ReadOnly(e).fr = e.fr /\ ReadOnly(e).flags \subseteq e.flags
    BY <1>1
  <2>. HIDE DEF e, n
  <2>3. n.fr = e.fr /\ n.flags \subseteq e.flags
    BY <2>1, <2>2
  <2>. QED BY <2>3 DEF e, n
<1>5. \A g \in Frame, i \in Idx : Eager(table'[g][i]) => Eager(table[g][i])
  BY <1>4 DEF Eager, Private, Present
<1>6. ASSUME NEW g \in Frame, g # cr3[p], table'[g] # table[g]
      PROVE  \E i \in Idx : Under(g, cr3[p], i)
  BY <1>2, <1>6 DEF Under, Eager
<1>7. ASSUME NEW g \in Frame, table[g] = EmptyTable PROVE table'[g] = EmptyTable
  <2>1. table'[g] \in [Idx -> Entry]
    BY DEF TypeOK
  <2>2. ASSUME NEW i \in Idx PROVE table'[g][i] = Absent
    <3>1. table'[g][i].fr = NoFrame
      BY <1>4, <1>7 DEF EmptyTable, Absent, Ent
    <3>2. table'[g][i] \in Entry
      BY <2>1
    <3>. QED BY <3>1, <3>2, FramelessAbsent
  <2>. QED BY <2>1, <2>2 DEF EmptyTable
<1>. QED BY <1>4, <1>5, <1>6, <1>7

\* Who has not started has nothing.
LEMMA Nothing ==
  ASSUME VmmAssumption, VmmInv, NEW p \in Proc, at[p].job \in {"unborn", "born"}
  PROVE  /\ cr3[p] = NoFrame /\ at[p].new = NoFrame /\ at[p].dst = NoFrame
         /\ at[p].pa = NoFrame /\ at[p].pc = "none"
         /\ \A f \in Frame, k \in Keys : ~Holding(at[p], k, f)
<1>1. Record(p) /\ at[p] \in Activation
  BY DEF VmmInv, Records, TypeOK
<1>2. /\ cr3[p] = NoFrame /\ at[p].new = NoFrame /\ at[p].dst = NoFrame
      /\ at[p].pa = NoFrame /\ at[p].pc = "none"
  BY <1>1 DEF Record, Activation
<1>. QED BY <1>2 DEF Keys, Holding, VmmAssumption

\* Nor has who is idle.
LEMMA IdleNothing ==
  ASSUME VmmAssumption, NEW p, NEW j
  PROVE  \A f \in Frame, k \in Keys : ~Holding(Idle(p, j), k, f)
  BY DEF Idle, Keys, Holding, VmmAssumption

\* fork: the new directory is the parent's until the child has it.
LEMMA ForkKept ==
  ASSUME VmmAssumption, VmmInv, NEW p \in Proc, Fork(p) PROVE VmmInv' /\ Even
<1>1. TypeOK' /\ TypeOK
  BY ForkTyped DEF VmmInv
<1>2. at[p].job = "user" /\ AllocFrame /\ table' = WriteProtect(p) /\ UNCHANGED cr3
  BY DEF Fork
<1>3. PICK c \in Proc :
        /\ at[c].job = "unborn"
        /\ at' = [at EXCEPT ![p] = [Loop(p, "fork") EXCEPT !.new = Fresh, !.kid = c],
                            ![c] = Idle(c, "born")]
  BY DEF Fork
<1>. DEFINE M == {p, c}
<1>4. at[p] \in Activation /\ Record(p) /\ cr3[p] \in Frame /\ p # c
  BY <1>2, <1>3, Acting
<1>5. /\ at'[p] = [Loop(p, "fork") EXCEPT !.new = Fresh, !.kid = c]
      /\ at'[c] = Idle(c, "born")
      /\ \A q \in Proc \ M : at'[q] = at[q]
  BY <1>1, <1>3, <1>4 DEF TypeOK
<1>6. /\ at'[p].job = "fork" /\ at'[p].pc = "dir" /\ at'[p].pa = NoFrame
      /\ at'[p].dst = NoFrame /\ at'[p].new = Fresh /\ at'[p].old = NoFrame
      /\ at'[p].kid = c
  BY ONLY <1>5 DEF Loop, Idle
<1>7. /\ at[p].pc = "none" /\ at[p].dst = NoFrame /\ at[p].pa = NoFrame /\ at[p].new = NoFrame
  BY <1>2, <1>4 DEF Record, Activation
<1>8. /\ Fresh \in Frame /\ rc[Fresh] = 0 /\ table[Fresh] = EmptyTable /\ ~Exclusive(Fresh)
      /\ rc'[Fresh] = 1 /\ \A f \in Frame \ {Fresh} : rc'[f] = rc[f]
      /\ Gentle(M)
  BY <1>2, Allocated
<1>9. /\ \A g \in Frame, i \in Idx : /\ table'[g][i].fr = table[g][i].fr
                                     /\ Eager(table'[g][i]) => Eager(table[g][i])
      /\ \A g \in Frame : \/ table'[g] = table[g]
                          \/ g = cr3[p]
                          \/ \E i \in Idx : Under(g, cr3[p], i)
      /\ table'[Fresh] = EmptyTable
  BY <1>1, <1>2, <1>4, <1>8, WriteProtected
<1>10. /\ cr3[c] = NoFrame /\ at[c].new = NoFrame
       /\ \A f \in Frame, k \in Keys : ~Holding(at[c], k, f) /\ ~Holding(at'[c], k, f)
  BY <1>3, <1>5, Nothing, IdleNothing
<1>11. at'[c].job = "born" /\ at'[c].pc = "none" /\ at'[c].pa = NoFrame /\ at'[c].dst = NoFrame
       /\ at'[c].new = NoFrame
  BY ONLY <1>5 DEF Idle
<1>12. Even
  <2>. SUFFICES ASSUME NEW f \in Frame PROVE Slack(f)' = Slack(f)
    BY DEF Even
  <2>1. \A r \in Proc \ {p}, k \in Keys : Holding(at'[r], k, f) <=> Holding(at[r], k, f)
    BY <1>5, <1>10
  <2>2. Slack(f)' = Slack(f) + (rc'[f] - rc[f]) + Bit(cr3[p] = f) - Bit(cr3'[p] = f)
                     + Hand(at[p], f) - Hand(at'[p], f)
    BY <1>1, <1>2, <1>9, <2>1, SlackHand
  <2>3. Hand(at[p], f) = 0 /\ Hand(at'[p], f) = Bit(Fresh = f)
    BY <1>6, <1>7 DEF Hand, Holding, Bit, VmmAssumption
  <2>4. rc'[f] = rc[f] + Bit(Fresh = f)
    BY <1>1, <1>8 DEF Bit, TypeOK
  <2>5. /\ Bit(cr3[p] = f) \in Int /\ rc[f] \in Int /\ Slack(f) \in Int
        /\ Bit(Fresh = f) \in Int /\ Bit(cr3'[p] = f) = Bit(cr3[p] = f)
    <3>1. rc[f] \in Int
      BY <1>1 DEF TypeOK
    <3>. QED BY <1>2, <3>1, ReferencesStep DEF Bit, Slack
  <2>. QED BY ONLY <2>2, <2>3, <2>4, <2>5
<1>13. Counted'
  BY <1>1, <1>12, EvenSlack, SlackCounted
<1>14. Dirs' = Dirs \cup {Fresh}
  <2>1. \A q \in Proc, d \in Frame : at'[q].new = d <=> at[q].new = d \/ (q = p /\ d = Fresh)
    <3>. TAKE q \in Proc, d \in Frame
    <3>1. CASE q = p
      BY <1>6, <1>7, <3>1 DEF VmmAssumption
    <3>2. CASE q = c
      BY <1>4, <1>10, <1>11, <3>2
    <3>3. CASE q \notin M
      BY <1>5, <3>3
    <3>. QED BY <3>1, <3>2, <3>3
  <2>. QED BY <1>2, <1>8, <2>1 DEF Dirs
<1>15. Tidy(M)
  <2>1. ASSUME NEW g \in Frame, table'[g] # table[g] PROVE Apart(g, M) /\ Exclusive(g)
    BY <1>4, <1>9, <2>1, OwnApart DEF Rooted
  <2>2. ASSUME NEW f \in Frame, NEW g \in Dirs', NEW i \in Idx, Under(f, g, i)'
        PROVE  Exclusive(f)
    <3>1. Eager(table'[g][i]) /\ table'[g][i].fr = f
      BY <2>2 DEF Under, Eager, Private, Present
    <3>2. g # Fresh
      BY <1>9, <3>1 DEF EmptyTable, Absent, Ent, VmmAssumption
    <3>3. g \in Dirs /\ g \in Frame
      BY <1>14, <3>2 DEF Dirs
    <3>4. Under(f, g, i)
      BY <1>9, <3>1, <3>3 DEF Under
    <3>. QED BY <3>3, <3>4 DEF Exclusive
  <2>3. ASSUME NEW g \in Frame \ Dirs', NEW i \in Idx, table'[g][i].fr \in Frame
        PROVE  Leaf(table'[g][i].fr)
    BY <1>9, <1>14, <2>3 DEF Leaf
  <2>. QED BY <2>1, <2>2, <2>3 DEF Tidy
<1>16. Proper(p)
  <2>1. \A f \in Frame : Rooted(p, f)' => Exclusive(f) \/ rc'[f] = 1
    BY <1>2, <1>6, <1>8 DEF Rooted, Exclusive, VmmAssumption
  <2>2. Record(p)'
    BY <1>6, <1>8 DEF Record, VmmAssumption
  <2>3. Progress(p)'
    BY <1>6 DEF Progress
  <2>. QED BY <1>6, <2>1, <2>2, <2>3 DEF Proper, VmmAssumption
<1>17. Proper(c)
  <2>1. \A f \in Frame : ~Rooted(c, f)'
    BY <1>2, <1>10, <1>11 DEF Rooted, VmmAssumption
  <2>2. Record(c)' /\ Progress(c)'
    BY <1>2, <1>5, <1>10, IdleProper
  <2>. QED BY <1>11, <2>1, <2>2 DEF Proper, VmmAssumption
<1>18. Kids'
  <2>. SUFFICES ASSUME NEW q \in Proc, at'[q].job = "fork"
                PROVE  /\ at'[at'[q].kid].job = "born"
                       /\ \A r \in Proc : at'[r].job = "fork" /\ at'[r].kid = at'[q].kid => r = q
    BY DEF Kids
  <2>1. ASSUME NEW r \in Proc \ {p}, at'[r].job = "fork"
        PROVE  /\ r \notin M /\ at'[r] = at[r] /\ at[r].kid \in Proc
               /\ at[at[r].kid].job = "born" /\ at[r].kid \notin M
               /\ at'[at[r].kid] = at[at[r].kid]
    <3>1. r \notin M /\ at'[r] = at[r]
      BY <1>5, <1>11, <2>1
    <3>2. at[r].kid \in Proc /\ at[at[r].kid].job = "born"
      BY <1>1, <2>1, <3>1 DEF VmmInv, Kids, TypeOK, Activation
    <3>3. at[r].kid \notin M
      BY <1>2, <1>3, <3>2
    <3>. QED BY <1>5, <3>1, <3>2, <3>3
  <2>2. CASE q = p
    BY <1>6, <1>11, <2>1, <2>2
  <2>3. CASE q # p
    BY <1>6, <2>1, <2>3 DEF VmmInv, Kids
  <2>. QED BY <2>2, <2>3
<1>19. VmmInv'
  <2>1. \A q \in Proc \ M : at'[q] = at[q] /\ cr3'[q] = cr3[q]
    BY <1>2, <1>5
  <2>2. M \in SUBSET Proc /\ \A q \in M : Proper(q)
    BY <1>16, <1>17
  <2>. HIDE DEF M
  <2>. QED BY <1>1, <1>8, <1>13, <1>15, <1>18, <2>1, <2>2, Kept
<1>. QED BY <1>12, <1>19

\* The child gets its directory from the parent's hand.
LEMMA ForkedKept ==
  ASSUME VmmAssumption, VmmInv, NEW p \in Proc, Forked(p) PROVE VmmInv' /\ Even
<1>. DEFINE k == at[p].kid
            n == at[p].new
            M == {p, k}
<1>1. TypeOK' /\ TypeOK
  BY ForkedTyped DEF VmmInv
<1>2. /\ at[p].job = "fork" /\ at[p].pc = "dir" /\ UNCHANGED <<table, rc, free>>
      /\ cr3' = [cr3 EXCEPT ![k] = n]
      /\ at' = [at EXCEPT ![p] = Idle(p, "user"), ![k] = Idle(k, "user")]
  BY DEF Forked, At, FramesSame
<1>3. /\ at[p] \in Activation /\ Record(p) /\ cr3[p] \in Frame /\ n \in Frame /\ k \in Proc
      /\ n \in Dirs /\ Exclusive(n)
      /\ at[k].job = "born"
      /\ \A q \in Proc : at[q].job = "fork" /\ at[q].kid = k => q = p
  BY <1>2, Copying DEF VmmInv, Kids, Activation
<1>4. p # k
  BY <1>2, <1>3
<1>5. /\ at'[p] = Idle(p, "user") /\ at'[k] = Idle(k, "user")
      /\ \A q \in Proc \ M : at'[q] = at[q]
      /\ cr3'[k] = n /\ \A q \in Proc \ {k} : cr3'[q] = cr3[q]
  BY <1>1, <1>2, <1>3, <1>4 DEF TypeOK
<1>6. /\ at[p].pa = NoFrame /\ at[p].dst = NoFrame
  BY <1>2, <1>3 DEF Record, Activation
<1>7. /\ cr3[k] = NoFrame /\ at[k].new = NoFrame
      /\ \A f \in Frame, x \in Keys : ~Holding(at[k], x, f) /\ ~Holding(at'[k], x, f)
  BY <1>3, <1>5, Nothing, IdleNothing
<1>8. \A q \in M : /\ at'[q].job = "user" /\ at'[q].pc = "none" /\ at'[q].new = NoFrame
                   /\ at'[q].dst = NoFrame /\ at'[q].pa = NoFrame
  BY ONLY <1>5 DEF Idle
<1>9. Even
  <2>. SUFFICES ASSUME NEW f \in Frame PROVE Slack(f)' = Slack(f)
    BY DEF Even
  <2>1. \A r \in Proc \ {p}, x \in Keys : Holding(at'[r], x, f) <=> Holding(at[r], x, f)
    BY <1>5, <1>7
  <2>2. Slack(f)' = Slack(f) + (rc'[f] - rc[f]) + Bit(cr3[k] = f) - Bit(cr3'[k] = f)
                     + Hand(at[p], f) - Hand(at'[p], f)
    <3>1. \A d \in Frame, i \in Idx : table'[d][i].fr = table[d][i].fr
      BY <1>2
    <3>2. \A r \in Proc \ {k} : cr3'[r] = cr3[r]
      BY <1>5
    <3>3. k \in Proc
      BY <1>3
    <3>. HIDE DEF k, n, M
    <3>. QED BY <1>1, <2>1, <3>1, <3>2, <3>3, SlackHand
  <2>3. Hand(at'[p], f) = 0 /\ Hand(at[p], f) = Bit(n = f)
    <3>1. Hand(at'[p], f) = 0
      BY <1>5, IdleHand
    <3>2. /\ ~Holding(at[p], "pa", f) /\ ~Holding(at[p], "dst", f)
          /\ ~Holding(at[p], "old", f) /\ (Holding(at[p], "new", f) <=> n = f)
      BY <1>2, <1>6 DEF Holding, VmmAssumption
    <3>. QED BY <3>1, <3>2 DEF Hand, Bit
  <2>4. /\ rc'[f] = rc[f] /\ rc[f] \in Int /\ Slack(f) \in Int /\ Bit(n = f) \in Int
        /\ Bit(cr3[k] = f) = 0 /\ Bit(cr3'[k] = f) = Bit(n = f)
    <3>1. rc[f] \in Int
      BY <1>1 DEF TypeOK
    <3>. QED BY <1>2, <1>5, <1>7, <3>1, ReferencesStep DEF Bit, Slack, VmmAssumption
  <2>. HIDE DEF k, n, M
  <2>. QED BY ONLY <2>2, <2>3, <2>4
<1>10. Counted'
  BY <1>1, <1>9, EvenSlack, SlackCounted
<1>11. Dirs' = Dirs
  <2>1. ASSUME NEW d \in Frame, NEW q \in Proc, cr3'[q] = d \/ at'[q].new = d PROVE d \in Dirs
    <3>1. CASE q = k
      BY <1>3, <1>5, <1>8, <2>1, <3>1 DEF VmmAssumption
    <3>2. CASE q = p
      BY <1>4, <1>5, <1>8, <2>1, <3>2 DEF Dirs, VmmAssumption
    <3>3. CASE q \notin M
      BY <1>5, <2>1, <3>3 DEF Dirs
    <3>. QED BY <3>1, <3>2, <3>3
  <2>2. ASSUME NEW d \in Frame, NEW q \in Proc, cr3[q] = d \/ at[q].new = d
        PROVE  \E r \in Proc : cr3'[r] = d \/ at'[r].new = d
    <3>1. CASE q = k
      BY <1>7, <2>2, <3>1 DEF VmmAssumption
    <3>2. CASE q = p
      BY <1>3, <1>4, <1>5, <2>2, <3>2
    <3>3. CASE q \notin M
      BY <1>5, <2>2, <3>3
    <3>. QED BY <3>1, <3>2, <3>3
  <2>. QED BY <2>1, <2>2 DEF Dirs
<1>12. Gentle(M) /\ Tidy(M)
  BY <1>2, <1>11, SameGentle, TidySame
<1>13. \A q \in M : Proper(q)
  <2>1. \A f \in Frame : cr3[p] = f => Exclusive(f)
    BY DEF Exclusive, Rooted
  <2>2. \A q \in M, f \in Frame : Rooted(q, f)' => Exclusive(f)
    <3>. TAKE q \in M, f \in Frame
    <3>1. Rooted(q, f)' => cr3'[q] = f
      BY <1>8 DEF Rooted, VmmAssumption
    <3>. QED BY <1>3, <1>5, <2>1, <3>1
  <2>3. \A q \in M : Record(q)' /\ Progress(q)'
    BY <1>3, <1>5, IdleProper
  <2>. QED BY <1>8, <2>2, <2>3 DEF Proper, VmmAssumption
<1>14. Kids'
  <2>. SUFFICES ASSUME NEW q \in Proc, at'[q].job = "fork"
                PROVE  /\ at'[at'[q].kid].job = "born"
                       /\ \A r \in Proc : at'[r].job = "fork" /\ at'[r].kid = at'[q].kid => r = q
    BY DEF Kids
  <2>1. \A r \in Proc : at'[r].job = "fork" => r \notin M /\ at'[r] = at[r]
    BY <1>5, <1>8
  <2>2. at[q].kid \in Proc /\ at[at[q].kid].job = "born"
    BY <1>1, <2>1 DEF VmmInv, Kids, TypeOK, Activation
  <2>3. at[q].kid \notin M
    BY <1>2, <1>3, <2>1, <2>2
  <2>. QED BY <1>5, <2>1, <2>2, <2>3 DEF VmmInv, Kids
<1>15. VmmInv'
  <2>1. \A q \in Proc \ M : at'[q] = at[q] /\ cr3'[q] = cr3[q]
    BY <1>5
  <2>2. M \in SUBSET Proc
    BY <1>3
  <2>. HIDE DEF M
  <2>. QED BY <1>1, <1>10, <1>12, <1>13, <1>14, <2>1, <2>2, Kept
<1>. QED BY <1>9, <1>15

\* destroy_pd's last decref: the directory goes, with what is left in it.
LEMMA FreePdKept ==
  ASSUME VmmAssumption, VmmInv, NEW p \in Proc, FreePd(p)
  PROVE  VmmInv' /\ ((\A i \in Idx : table[cr3[p]][i].fr \notin Frame) => Even)
<1>. DEFINE d == cr3[p]
<1>1. TypeOK' /\ TypeOK
  BY FreePdTyped DEF VmmInv
<1>2. /\ at[p].job = "exit" /\ at[p].pc = "dir" /\ DecRef(d)
      /\ table' = [table EXCEPT ![d] = EmptyTable]
      /\ cr3' = [cr3 EXCEPT ![p] = NoFrame]
      /\ at' = [at EXCEPT ![p] = Idle(p, "unborn")]
  BY DEF FreePd, At, Begin
<1>3. /\ at[p] \in Activation /\ Record(p) /\ d \in Frame /\ rc \in [Frame -> Int]
  BY <1>1, <1>2, Acting DEF TypeOK
<1>4. Exclusive(d) /\ Apart(d, {p}) /\ rc[d] = 1
  BY <1>3, OwnApart, Alone DEF Rooted
<1>5. /\ at'[p] = Idle(p, "unborn") /\ \A q \in Proc \ {p} : at'[q] = at[q]
      /\ cr3'[p] = NoFrame /\ \A q \in Proc \ {p} : cr3'[q] = cr3[q]
      /\ table'[d] = EmptyTable /\ \A g \in Frame \ {d} : table'[g] = table[g]
  BY <1>1, <1>2, <1>3 DEF TypeOK
<1>6. /\ at'[p].job = "unborn" /\ at'[p].pc = "none" /\ at'[p].new = NoFrame
      /\ at'[p].dst = NoFrame /\ at'[p].pa = NoFrame
  BY ONLY <1>5 DEF Idle
<1>7. at[p].new = NoFrame /\ at[p].dst = NoFrame
  BY <1>2, <1>3 DEF Record, Activation
<1>8. \A f \in Frame : rc'[f] = rc[f] - Bit(d = f)
  BY <1>2, <1>3 DEF DecRef, Bit
<1>9. \A i \in Idx : table'[d][i].fr = NoFrame
  BY <1>5 DEF EmptyTable, Absent, Ent
<1>10. ASSUME NEW f \in Frame
       PROVE  /\ Slack(f)' >= Slack(f)
              /\ (\A i \in Idx : table[d][i].fr \notin Frame) => Slack(f)' = Slack(f)
  <2>1. Entries(f)' = {s \in Frame \X Idx : table'[s[1]][s[2]].fr = f}
    BY DEF Entries
  <2>2. Entries(f)' \in SUBSET Entries(f)
    <3>1. \A s \in Frame \X Idx : table'[s[1]][s[2]].fr = f => table[s[1]][s[2]].fr = f
      BY <1>5, <1>9 DEF VmmAssumption
    <3>. QED BY <2>1, <3>1 DEF Entries
  <2>3. IsFiniteSet(Entries(f)) /\ Cardinality(Entries(f)) \in Nat
    BY Countable
  <2>4. Cardinality(Entries(f)') <= Cardinality(Entries(f)) /\ Cardinality(Entries(f)') \in Nat
    BY <2>2, <2>3, FS_Subset, FS_CardinalityType
  <2>5. Cardinality(InHand(f)') = Cardinality(InHand(f)) - Hand(at[p], f) + Hand(at'[p], f)
    BY <1>5, HandStep
  <2>6. Cardinality(Loaded(f)') = Cardinality(Loaded(f)) - Bit(cr3[p] = f) + Bit(cr3'[p] = f)
    BY <1>5, LoadedStep
  <2>7. /\ Hand(at'[p], f) = 0 /\ Hand(at[p], f) \in Nat
        /\ Bit(d = f) \in Int /\ Bit(cr3'[p] = f) = 0
    BY <1>5, IdleHand DEF Hand, Bit, VmmAssumption
  <2>8. /\ Cardinality(InHand(f)) \in Int
        /\ Cardinality(Loaded(f)) \in Int /\ rc[f] \in Int /\ rc'[f] \in Int
        /\ References(f) = Cardinality(Entries(f)) + Cardinality(InHand(f))
                              + Cardinality(Loaded(f))
        /\ References(f)' = Cardinality(Entries(f)') + Cardinality(InHand(f)')
                              + Cardinality(Loaded(f)')
        /\ Slack(f) = rc[f] - References(f) /\ Slack(f)' = rc'[f] - References(f)'
    BY <1>1, Countable, ReferencesStep DEF TypeOK, Slack
  <2>9. rc'[f] = rc[f] - Bit(d = f)
    BY <1>8
  <2>10. (\A i \in Idx : table[d][i].fr \notin Frame) => Entries(f)' = Entries(f)
    <3>. SUFFICES ASSUME \A i \in Idx : table[d][i].fr \notin Frame
                  PROVE  Entries(f)' = Entries(f)
      OBVIOUS
    <3>1. \A s \in Frame \X Idx : table[s[1]][s[2]].fr = f => table'[s[1]][s[2]].fr = f
      BY <1>5
    <3>. QED BY <2>1, <2>2, <3>1 DEF Entries
  <2>11. Hand(at[p], f) = 0
    BY <1>2, <1>3, <1>7 DEF Hand, Holding, Bit, Record, VmmAssumption
  <2>. DEFINE leaf == \A i \in Idx : table[d][i].fr \notin Frame
  <2>12. leaf => Entries(f)' = Entries(f)
    BY <2>10
  <2>13. Bit(cr3[p] = f) = Bit(d = f)
    OBVIOUS
  <2>. HIDE DEF leaf
  <2>14. Slack(f)' >= Slack(f) /\ (leaf => Slack(f)' = Slack(f))
    BY ONLY <2>3, <2>4, <2>5, <2>6, <2>7, <2>8, <2>9, <2>11, <2>12, <2>13
  <2>. QED BY <2>14 DEF leaf
<1>11. Counted'
  BY <1>1, <1>10, SlackCounted
<1>12. Gentle({p})
  BY <1>2, <1>3, <1>4, <1>5, DecGentle
<1>13. Dirs' \subseteq Dirs /\ Dirs \ {d} \subseteq Dirs'
  <2>1. ASSUME NEW g \in Frame, NEW q \in Proc, cr3'[q] = g \/ at'[q].new = g PROVE g \in Dirs
    <3>1. q # p
      BY <1>5, <1>6, <2>1 DEF VmmAssumption
    <3>. QED BY <1>5, <2>1, <3>1 DEF Dirs
  <2>2. ASSUME NEW g \in Frame \ {d}, NEW q \in Proc, cr3[q] = g \/ at[q].new = g
        PROVE  cr3'[q] = g \/ at'[q].new = g
    <3>1. q # p
      BY <1>7, <2>2 DEF VmmAssumption
    <3>. QED BY <1>5, <2>2, <3>1
  <2>. QED BY <2>1, <2>2 DEF Dirs
<1>14. Tidy({p})
  <2>1. ASSUME NEW f \in Frame, NEW g \in Dirs', NEW i \in Idx, Under(f, g, i)'
        PROVE  Exclusive(f)
    <3>1. Eager(table'[g][i]) /\ table'[g][i].fr = f
      BY <2>1 DEF Under, Eager, Private, Present
    <3>2. g # d /\ g \in Frame
      BY <1>9, <3>1 DEF VmmAssumption, Dirs
    <3>3. Under(f, g, i)
      BY <1>5, <3>1, <3>2 DEF Under
    <3>. QED BY <1>13, <3>3 DEF Exclusive
  <2>2. ASSUME NEW g \in Frame \ Dirs', NEW i \in Idx, table'[g][i].fr \in Frame
        PROVE  Leaf(table'[g][i].fr)
    <3>1. g # d
      BY <1>9, <2>2 DEF VmmAssumption
    <3>. QED BY <1>5, <1>13, <2>2, <3>1 DEF Leaf
  <2>. QED BY <1>4, <1>5, <2>1, <2>2 DEF Tidy
<1>15. Proper(p)
  <2>1. \A f \in Frame : ~Rooted(p, f)'
    BY <1>5, <1>6 DEF Rooted, VmmAssumption
  <2>2. Record(p)' /\ Progress(p)'
    BY <1>5, IdleProper
  <2>. QED BY <1>6, <2>1, <2>2 DEF Proper, VmmAssumption
<1>16. Kids'
  BY <1>2, <1>5, <1>6, KidsKept
<1>17. VmmInv'
  BY <1>1, <1>5, <1>11, <1>12, <1>14, <1>15, <1>16, Kept
<1>. QED BY <1>10, <1>17 DEF Even

-----------------------------------------------------------------------------
(* The invariant, and what it says.                                         *)

\* One process, on a copy of kpd, and nothing counted but its directory.
LEMMA InitCounted == ASSUME VmmAssumption, Init PROVE VmmInv /\ \A f \in Frame : Slack(f) = 0
<1>1. TypeOK /\ PD0 \in Frame
  BY InitTyped, SomeIn DEF PD0, VmmAssumption
<1>2. \A d \in Frame, i \in Idx : table[d][i].fr \notin Frame /\ ~Private(table[d][i])
  BY DEF Init, Kpd, EmptyTable, Absent, Ent, Private, Present, KernelFlags, VmmAssumption
<1>3. \A p \in Proc : at[p] = Idle(p, IF p = First THEN "user" ELSE "unborn")
  BY DEF Init
<1>4. \A p \in Proc : /\ at[p].pa = NoFrame /\ at[p].dst = NoFrame /\ at[p].new = NoFrame
                      /\ at[p].old = NoFrame /\ at[p].pc = "none"
                      /\ at[p].job = IF p = First THEN "user" ELSE "unborn"
  <2>. TAKE p \in Proc
  <2>1. at[p] = Idle(p, IF p = First THEN "user" ELSE "unborn")
    BY <1>3
  <2>. QED BY ONLY <2>1 DEF Idle
<1>5. /\ \A p \in Proc : cr3[p] = IF p = First THEN PD0 ELSE NoFrame
      /\ \A f \in Frame : rc[f] = IF f = PD0 THEN 1 ELSE 0
      /\ \A f \in Frame : f # PD0 => table[f] = EmptyTable
      /\ free = Frame \ {PD0}
  BY DEF Init
<1>6. Counted /\ \A f \in Frame : Slack(f) = 0
  <2>. SUFFICES ASSUME NEW f \in Frame PROVE References(f) = rc[f] /\ rc[f] \in Int
    BY DEF Counted, Slack
  <2>1. Entries(f) = {} /\ InHand(f) = {}
    BY <1>2, <1>4 DEF Entries, InHand, VmmAssumption
  <2>2. Loaded(f) = IF f = PD0 THEN {First} ELSE {}
    BY <1>5 DEF Loaded, VmmAssumption
  <2>3. Cardinality(Loaded(f)) = rc[f]
    BY <1>5, <2>2, FS_Singleton, FS_EmptySet
  <2>4. Cardinality(Entries(f)) = 0 /\ Cardinality(InHand(f)) = 0
    BY <2>1, FS_EmptySet
  <2>5. References(f) = Cardinality(Entries(f)) + Cardinality(InHand(f)) + Cardinality(Loaded(f))
    BY ReferencesStep
  <2>6. rc[f] \in Int
    BY <1>5
  <2>. QED BY <2>3, <2>4, <2>5, <2>6
<1>7. ExclusiveOnce
  <2>1. \A p \in Proc, f \in Frame : Rooted(p, f) => f = PD0
    BY <1>4, <1>5 DEF Rooted, VmmAssumption
  <2>2. \A d \in Dirs, i \in Idx, f \in Frame : ~Under(f, d, i)
    BY <1>2 DEF Under, Dirs
  <2>. QED BY <1>5, <2>1, <2>2 DEF ExclusiveOnce, Exclusive
<1>8. FreeEmpty /\ LeavesEmpty /\ NewPageEmpty
  BY <1>2, <1>4, <1>5 DEF FreeEmpty, LeavesEmpty, NewPageEmpty, VmmAssumption
<1>9. Dooms /\ Kids /\ Progresses
  BY <1>4 DEF Dooms, Kids, Progresses, Progress
<1>10. Records
  BY <1>4, <1>5 DEF Records, Record, VmmAssumption
<1>. QED BY <1>1, <1>6, <1>7, <1>8, <1>9, <1>10 DEF VmmInv

\* A program's write touches no table and no count.
LEMMA WriteKept ==
  ASSUME VmmAssumption, VmmInv, NEW p \in Proc, Write(p) PROVE VmmInv' /\ Even
<1>1. TypeOK' /\ UNCHANGED <<table, rc, free, cr3, at>>
  BY WriteTyped DEF VmmInv, Write
<1>. QED BY <1>1, PagesOnly DEF Even

\* So do the kernel's steps,
LEMMA KernelKept ==
  ASSUME VmmAssumption, VmmInv, NEW p \in Proc, Kernel(p) PROVE VmmInv'
  BY FixPdeKept, CopyPteKept, InstallPtKept, DropPtKept, DoomPteKept, FreePtKept,
     FixPteKept, SwapPteKept, CopyPdeKept, EnterPtKept, ForkedKept, ClearPdeKept,
     ClearPteKept, ClearedPtKept, ExecedKept, FreePdKept DEF Kernel

\* and the program's.
LEMMA ProgramKept ==
  ASSUME VmmAssumption, VmmInv, NEW p \in Proc, Program(p) PROVE VmmInv'
  BY WriteKept, FaultKept, ForkKept, ExecExitKept DEF Program

\* Directories, the tables being filled and those behind writable entries belong
\* to one process each, with a count of one, however many processes fault, fork,
\* exec and exit at once; and every count covers the references there are.
THEOREM VmmInvariant == Spec => []VmmInv
<1>1. Init => VmmInv
  BY VmmAssumption, InitCounted
<1>2. VmmInv /\ [Next]_vars => VmmInv'
  <2>. SUFFICES ASSUME VmmInv, [Next]_vars PROVE VmmInv'
    OBVIOUS
  <2>1. CASE UNCHANGED vars
    <3>1. TypeOK' /\ UNCHANGED <<table, rc, free, cr3, at>>
      BY <2>1 DEF vars, VmmInv, TypeOK, Coherent
    <3>. QED BY <3>1, PagesOnly
  <2>2. ASSUME NEW p \in Proc, Program(p) \/ Kernel(p) PROVE VmmInv'
    BY <2>2, VmmAssumption, KernelKept, ProgramKept
  <2>. QED BY <2>1, <2>2 DEF Next
<1>. QED BY <1>1, <1>2, PTL DEF Spec

\* No frame is given back while an entry, a loaded directory or an operation
\* under way still refers to it, and what the allocator has nobody refers to
\* (physmem.h's decref against the increfs of copy_pd and copy_pt).
THEOREM NothingFreedEarly == Spec => []NoEarlyFree
<1>1. VmmInv => NoEarlyFree
  BY DEF VmmInv, Counted, FreeEmpty, NoEarlyFree
<1>. QED BY <1>1, VmmInvariant, PTL

-----------------------------------------------------------------------------
(* What a directory shows, and what is true of every address space.         *)

\* The page table entry that directory d leads to.
Look(d, i, j) == IF Present(table[d][i]) THEN PT(table[d][i])[j] ELSE Absent

\* The directories of p: its own, and its child's while it forks.
Space(p) == {cr3[p], at[p].new} \cap Frame

\* What may be in a directory: kpd's own entry, or a table for user pages, which
\* is a copy of kpd's, still writable and global, where the device page is.
DeviceEntry == Ent(ApicPage, KernelFlags)
DeviceDir(i) == \E a \in Apic : a[1] = i
DirEntry(i, e) == \/ e \in {Absent, Kpd[i]}
                  \/ /\ Private(e) /\ "US" \in e.flags
                     /\ DeviceDir(i) => {"RW", "G"} \subseteq e.flags
                     /\ ~DeviceDir(i) => "G" \notin e.flags

\* What may be in a table: the device page in its place, and user pages.
PageEntry(i, j, e) == \/ e = Absent
                      \/ <<i, j>> \in Apic /\ e = DeviceEntry
                      \/ <<i, j>> \notin Apic /\ Private(e) /\ "US" \in e.flags

\* A table that may be shared, being read-only, leads to no writable page.
Formed(d) == \A i \in Idx : /\ DirEntry(i, table[d][i])
                            /\ \A j \in Idx : PageEntry(i, j, Look(d, i, j))
                            /\ \A j \in Idx : Eager(Look(d, i, j)) => "RW" \in table[d][i].flags

Sealed(d) == \A a \in Apic : Look(d, a[1], a[2]) = DeviceEntry

\* The pages that one process has to itself: what it may write, and a fault's new page.
Sole(p, f) == \/ at[p].pa = f
              \/ \E d \in Space(p), i, j \in Idx : Eager(Look(d, i, j)) /\ Look(d, i, j).fr = f
SoleOnce == \A p \in Proc, f \in Frame : Sole(p, f) => rc[f] = 1

\* fork: the parent writes no page it shares, and the child's directory grows to be the same.
Forking(p) == at[p].job = "fork" =>
    /\ \A i, j \in Idx : ~Eager(Look(cr3[p], i, j))
    /\ \A i \in Idx \ at[p].dirs, j \in Idx : Look(at[p].new, i, j) = Look(cr3[p], i, j)
    /\ \A i \in at[p].dirs : table[at[p].new][i] = Absent

\* copy_pt: what has been copied is what is there.
CopyingPt(p) == at[p].pc = "copypt" =>
    /\ Present(Pde(p, Dir(p)))
    /\ \A j \in Idx :
         /\ ~Eager(Look(cr3[p], Dir(p), j))
         /\ table[at[p].dst][j] = IF j \in at[p].ptes THEN Absent ELSE Look(cr3[p], Dir(p), j)

\* A fault on a page that was not there finds it so, one on a page that was
\* finds it there and read-only; the new page is blank, and then a copy.
Found(p) == LET e == Look(cr3[p], at[p].va[1], at[p].va[2])
            IN /\ at[p].copy <=> Present(e)
               /\ at[p].copy /\ at[p].va \notin Apic => "RW" \notin e.flags
               /\ page[at[p].pa] = IF at[p].pc = "swap" THEN page[e.fr] ELSE Zero
               /\ at[p].pc = "swap" => Private(e) /\ "RW" \notin e.flags
Faulting(p) == at[p].job = "fault" => Found(p)

\* exec and exit: what the loop has been through is empty of user pages.
Clearing(p) ==
    /\ at[p].job = "exec" => \A i \in Idx \ at[p].dirs, j \in Idx : ~Private(Look(cr3[p], i, j))
    /\ at[p].pc = "clearpt" =>
         /\ Mixed(Pde(p, Dir(p)))
         /\ \A j \in Idx \ at[p].ptes : ~Private(Look(cr3[p], Dir(p), j))
    /\ at[p].job = "exit" => \A i \in Idx \ at[p].dirs : ~Private(table[cr3[p]][i])

Lives(p) == at[p].job \in {"user", "fault", "fork", "exec"}

Mem(p) == /\ \A d \in Space(p) : Formed(d)
          /\ Lives(p) => Sealed(cr3[p])
          /\ Forking(p) /\ CopyingPt(p) /\ Faulting(p) /\ Clearing(p)

MemInv == SoleOnce /\ \A p \in Proc : Mem(p)

-----------------------------------------------------------------------------
(* Reading a directory.                                                     *)

\* What a directory shows is an entry.
LEMMA LookTyped ==
  ASSUME VmmAssumption, TypeOK, NEW d \in Frame, NEW i \in Idx, NEW j \in Idx
  PROVE  Look(d, i, j) \in Entry
<1>1. PT(table[d][i]) \in [Idx -> Entry]
  BY PTTyped DEF TypeOK, TablesTyped
<1>. QED BY <1>1, EntriesMade DEF Look

\* What the MMU finds for p is what p's directory shows.
LEMMA PteLook ==
  ASSUME NEW p, NEW va PROVE Pte(p, va) = Look(cr3[p], va[1], va[2])
  BY DEF Pte, Look, Pde

\* A frame that a directory shows is in a table that the directory refers to.
LEMMA LookSlot ==
  ASSUME VmmAssumption, NEW d, NEW i \in Idx, NEW j \in Idx, Look(d, i, j).fr \in Frame
  PROVE  /\ table[d][i].fr \in Frame
         /\ Look(d, i, j) = table[table[d][i].fr][j]
<1>1. Absent.fr \notin Frame /\ \A k \in Idx : ApicTable[k].fr \notin Frame
  BY DEF Absent, Ent, ApicTable, VmmAssumption
<1>. QED BY <1>1 DEF Look, PT, Present

\* Nothing in kpd's own table is a user's.
LEMMA KpdLook ==
  ASSUME VmmAssumption, NEW d, NEW i \in Idx, NEW j \in Idx, table[d][i] \in {Absent, Kpd[i]}
  PROVE  ~Private(Look(d, i, j)) /\ ~Private(table[d][i]) /\ table[d][i].fr \notin Frame
<1>1. /\ ~Private(Absent) /\ Absent.fr \notin Frame
      /\ \A k \in Idx : ~Private(ApicTable[k])
      /\ Kpd[i].fr \notin Frame /\ ~Private(Kpd[i])
  BY DEF Absent, Ent, ApicTable, Kpd, KernelFlags, Private, VmmAssumption
<1>. QED BY <1>1 DEF Look, PT

\* An entry that is no user's table in a directory shows no user's page.
LEMMA NotPrivateLook ==
  ASSUME VmmAssumption, NEW d, Formed(d), NEW i \in Idx, ~Private(table[d][i])
  PROVE  /\ \A j \in Idx : ~Private(Look(d, i, j))
         /\ table[d][i].fr \notin Frame
<1>1. table[d][i] \in {Absent, Kpd[i]}
  BY DEF Formed, DirEntry
<1>. QED BY <1>1, KpdLook

\* A page the user may write is in a table that is the process's own.
LEMMA EagerLook ==
  ASSUME VmmAssumption, NEW d, Formed(d), NEW i \in Idx, NEW j \in Idx, Eager(Look(d, i, j))
  PROVE  Eager(table[d][i]) /\ Under(table[d][i].fr, d, i)
<1>1. "RW" \in table[d][i].flags /\ Private(Look(d, i, j))
  BY DEF Formed, Eager
<1>2. Private(table[d][i])
  BY <1>1, NotPrivateLook
<1>. QED BY <1>1, <1>2 DEF Eager, Under

\* The directories of a process are directories.
LEMMA SpaceDirs ==
  ASSUME NEW p \in Proc, NEW d \in Space(p)
  PROVE  d \in Dirs /\ d \in Frame /\ Rooted(p, d)
  BY DEF Space, Dirs, Rooted

-----------------------------------------------------------------------------
(* What the processes of a set M have to themselves.                        *)

\* Tables.
Mine(M, g) == \/ rc[g] = 0
              \/ \E p \in M : \/ Rooted(p, g)
                              \/ \E d \in Space(p), i \in Idx : Under(g, d, i)

\* No other process gets there.
LEMMA Elsewhere ==
  ASSUME VmmAssumption, VmmInv, NEW M \in SUBSET Proc, NEW g \in Frame, Mine(M, g),
         NEW q \in Proc \ M
  PROVE  /\ ~Rooted(q, g)
         /\ \A d \in Space(q), i \in Idx : table[d][i].fr # g
<1>1. CASE rc[g] = 0
  BY <1>1, Unreferenced DEF Rooted, Space
<1>2. ASSUME NEW p \in M, Rooted(p, g)
      PROVE  /\ ~Rooted(q, g) /\ \A d \in Space(q), i \in Idx : table[d][i].fr # g
  <2>1. Exclusive(g)
    BY <1>2 DEF Exclusive
  <2>. QED BY <1>2, <2>1, Alone DEF Space
<1>3. ASSUME NEW p \in M, NEW d \in Space(p), NEW i \in Idx, Under(g, d, i)
      PROVE  /\ ~Rooted(q, g) /\ \A b \in Space(q), j \in Idx : table[b][j].fr # g
  <2>1. Exclusive(g) /\ Exclusive(d) /\ Rooted(p, d) /\ d \in Frame /\ table[d][i].fr = g
    BY <1>3, SpaceDirs DEF Exclusive, Under
  <2>2. ~Rooted(q, g)
    BY <2>1, Alone
  <2>3. ASSUME NEW b \in Space(q), NEW j \in Idx, table[b][j].fr = g PROVE FALSE
    <3>1. b \in Frame /\ Rooted(q, b)
      BY SpaceDirs
    <3>2. b = d
      BY <2>1, <2>3, <3>1, Alone
    <3>. QED BY <2>1, <3>1, <3>2, Alone
  <2>. QED BY <2>2, <2>3
<1>. QED BY <1>1, <1>2, <1>3 DEF Mine

\* Pages: of frames with one reference, a new page, a directory and what a table
\* of one's own refers to.
Spare(M, f) ==
    \/ rc[f] = 0
    \/ /\ rc[f] = 1
       /\ \/ \E p \in M : at[p].pa = f \/ Rooted(p, f)
          \/ \E g \in Frame, i \in Idx : Mine(M, g) /\ table[g][i].fr = f

Uses(q, f) == \/ at[q].pa = f
              \/ \E d \in Space(q), i, j \in Idx : Look(d, i, j).fr = f

\* References to a frame with a count of one are the same reference.
LEMMA OneReference ==
  ASSUME VmmAssumption, VmmInv, NEW f \in Frame, rc[f] <= 1
  PROVE  /\ \A d, g \in Frame, i, j \in Idx :
              table[d][i].fr = f /\ table[g][j].fr = f => d = g /\ i = j
         /\ \A d \in Frame, i \in Idx : table[d][i].fr = f =>
              \A p \in Proc : at[p].pa # f /\ ~Rooted(p, f)
         /\ \A p, q \in Proc : at[p].pa = f /\ at[q].pa = f => p = q
         /\ \A p, q \in Proc : at[p].pa = f => ~Rooted(q, f)
<1>1. References(f) <= 1
  <2>1. References(f) <= rc[f] /\ rc[f] \in Int /\ References(f) \in Nat
    BY ReferencesStep DEF VmmInv, Counted, TypeOK
  <2>. QED BY <2>1
<1>2. /\ \A x, y \in Entries(f) : x = y
      /\ \A x, y \in InHand(f) : x = y
      /\ Entries(f) = {} \/ InHand(f) = {}
      /\ Entries(f) = {} \/ Loaded(f) = {}
      /\ InHand(f) = {} \/ Loaded(f) = {}
  BY <1>1, AtMostOne
<1>3. /\ \A p \in Proc : cr3[p] = f => p \in Loaded(f)
      /\ \A p \in Proc : at[p].new = f => <<p, "new">> \in InHand(f)
      /\ \A p \in Proc : at[p].dst = f => <<p, "dst">> \in InHand(f)
      /\ \A p \in Proc : at[p].pa = f => <<p, "pa">> \in InHand(f)
      /\ \A d \in Frame, i \in Idx : table[d][i].fr = f => <<d, i>> \in Entries(f)
  BY DEF Loaded, InHand, Entries
<1>4. ASSUME NEW d \in Frame, NEW g \in Frame, NEW i \in Idx, NEW j \in Idx,
             table[d][i].fr = f, table[g][j].fr = f
      PROVE  d = g /\ i = j
  <2>1. <<d, i>> \in Entries(f) /\ <<g, j>> \in Entries(f)
    BY <1>3, <1>4
  <2>2. <<d, i>> = <<g, j>>
    BY <1>2, <2>1
  <2>. QED BY <2>2
<1>5. ASSUME NEW d \in Frame, NEW i \in Idx, table[d][i].fr = f, NEW p \in Proc
      PROVE  at[p].pa # f /\ ~Rooted(p, f)
  <2>1. Entries(f) # {}
    BY <1>3, <1>5
  <2>2. InHand(f) = {} /\ Loaded(f) = {}
    BY <1>2, <2>1
  <2>. QED BY <1>3, <2>2 DEF Rooted
<1>6. ASSUME NEW p \in Proc, at[p].pa = f, NEW q \in Proc
      PROVE  (at[q].pa = f => p = q) /\ ~Rooted(q, f)
  <2>1. <<p, "pa">> \in InHand(f)
    BY <1>3, <1>6
  <2>2. Loaded(f) = {} /\ \A x \in InHand(f) : x = <<p, "pa">>
    BY <1>2, <2>1
  <2>. QED BY <1>3, <2>2 DEF Rooted
<1>. QED BY <1>4, <1>5, <1>6

\* No other process has them.
LEMMA PageElsewhere ==
  ASSUME VmmAssumption, VmmInv, NEW M \in SUBSET Proc, NEW f \in Frame, Spare(M, f),
         NEW q \in Proc \ M
  PROVE  ~Uses(q, f)
<1>1. ASSUME NEW d \in Space(q), NEW i \in Idx, NEW j \in Idx, Look(d, i, j).fr = f
      PROVE  /\ table[d][i].fr \in Frame /\ table[table[d][i].fr][j].fr = f
             /\ ~Mine(M, table[d][i].fr)
  <2>1. table[d][i].fr \in Frame /\ Look(d, i, j) = table[table[d][i].fr][j]
    BY <1>1, LookSlot
  <2>2. ~Mine(M, table[d][i].fr)
    BY <2>1, Elsewhere
  <2>. QED BY <1>1, <2>1, <2>2
<1>2. CASE rc[f] = 0
  BY <1>1, <1>2, Unreferenced DEF Uses
<1>3. ASSUME rc[f] = 1, NEW p \in M, at[p].pa = f \/ Rooted(p, f) PROVE ~Uses(q, f)
  BY <1>1, <1>3, OneReference DEF Uses
<1>4. ASSUME rc[f] = 1, NEW g \in Frame, NEW i \in Idx, Mine(M, g), table[g][i].fr = f
      PROVE  ~Uses(q, f)
  <2>1. at[q].pa # f
    BY <1>4, OneReference
  <2>2. ASSUME NEW d \in Space(q), NEW j \in Idx, NEW k \in Idx, Look(d, j, k).fr = f
        PROVE  FALSE
    BY <1>1, <1>4, <2>2, OneReference
  <2>. QED BY <2>1, <2>2 DEF Uses
<1>. QED BY <1>2, <1>3, <1>4 DEF Spare

-----------------------------------------------------------------------------
(* What a step leaves alone.                                                *)

\* d and the tables it refers to do not change.
Steady(d) == /\ table'[d] = table[d]
             /\ \A i \in Idx : table[d][i].fr \in Frame =>
                  table'[table[d][i].fr] = table[table[d][i].fr]

\* Such a directory shows what it showed,
LEMMA SteadyLook ==
  ASSUME NEW d, Steady(d), NEW i \in Idx, NEW j
  PROVE  Look(d, i, j)' = Look(d, i, j)
<1>1. table'[d][i] = table[d][i]
  BY DEF Steady
<1>2. PT(table[d][i])' = PT(table[d][i])
  BY <1>1 DEF Steady, PT
<1>. QED BY <1>1, <1>2 DEF Look

\* and keeps its form.
LEMMA SteadyFormed ==
  ASSUME VmmAssumption, NEW d, Steady(d)
  PROVE  (Formed(d) => Formed(d)') /\ (Sealed(d) => Sealed(d)')
<1>1. \A i, j \in Idx : Look(d, i, j)' = Look(d, i, j)
  BY SteadyLook
<1>2. \A a \in Apic : a[1] \in Idx /\ a[2] \in Idx
  BY DEF VmmAssumption, VA
<1>3. \A i : table'[d][i] = table[d][i]
  BY DEF Steady
<1>4. Formed(d) => Formed(d)'
  BY <1>1, <1>3 DEF Formed
<1>5. Sealed(d) => Sealed(d)'
  BY <1>1, <1>2 DEF Sealed
<1>. QED BY <1>4, <1>5

\* Nothing that is q's changes.
Undisturbed(q) == /\ \A d \in Space(q) : Steady(d)
                  /\ at[q].dst \in Frame => table'[at[q].dst] = table[at[q].dst]
                  /\ \A f \in Frame : Uses(q, f) => page'[f] = page[f]

\* A step changes only what the processes of M have to themselves,
Within(M) == /\ \A g \in Frame : table'[g] = table[g] \/ Mine(M, g)
             /\ \A f \in Frame : page'[f] = page[f] \/ Spare(M, f)

\* and does not disturb the others.
LEMMA Others ==
  ASSUME VmmAssumption, VmmInv, NEW M \in SUBSET Proc, Within(M), NEW q \in Proc \ M
  PROVE  Undisturbed(q)
<1>1. ASSUME NEW d \in Space(q) PROVE Steady(d)
  <2>1. d \in Frame /\ Rooted(q, d)
    BY SpaceDirs
  <2>2. table'[d] = table[d]
    BY <2>1, Elsewhere DEF Within
  <2>3. ASSUME NEW i \in Idx, table[d][i].fr \in Frame
        PROVE  table'[table[d][i].fr] = table[table[d][i].fr]
    BY <2>3, Elsewhere DEF Within
  <2>. QED BY <2>2, <2>3 DEF Steady
<1>2. at[q].dst \in Frame => table'[at[q].dst] = table[at[q].dst]
  BY Elsewhere DEF Within, Rooted
<1>3. \A f \in Frame : Uses(q, f) => page'[f] = page[f]
  BY PageElsewhere DEF Within
<1>. QED BY <1>1, <1>2, <1>3 DEF Undisturbed

\* Its memory then reads the same.
LEMMA SameReads ==
  ASSUME VmmAssumption, VmmInv, NEW q \in Proc, Undisturbed(q), cr3'[q] = cr3[q],
         at'[q].job \in {"user", "fault", "fork"} <=> at[q].job \in {"user", "fault", "fork"},
         NEW va \in Touched
  PROVE  Reads(q, va)' = Reads(q, va)
<1>1. CASE at[q].job \in {"user", "fault", "fork"}
  <2>. DEFINE e == Look(cr3[q], va[1], va[2])
  <2>1. cr3[q] \in Frame /\ cr3[q] \in Space(q) /\ va[1] \in Idx /\ va[2] \in Idx
    BY <1>1 DEF VmmInv, TypeOK, Coherent, Space, VmmAssumption, VA
  <2>2. e \in Entry /\ Pte(q, va) = e
    BY <2>1, LookTyped, PteLook DEF VmmInv
  <2>3. Pte(q, va)' = e
    <3>1. Look(cr3[q], va[1], va[2])' = e
      BY <2>1, SteadyLook DEF Undisturbed
    <3>2. Pte(q, va)' = Look(cr3[q], va[1], va[2])'
      BY DEF Pte, Look, Pde
    <3>. QED BY <3>1, <3>2
  <2>4. Private(e) => page'[e.fr] = page[e.fr]
    <3>1. Private(e) => e.fr \in Frame /\ Uses(q, e.fr)
      BY <2>1, <2>2, PrivateEntries DEF Uses
    <3>. QED BY <3>1 DEF Undisturbed
  <2>. HIDE DEF e
  <2>. QED BY <1>1, <2>2, <2>3, <2>4 DEF Reads
<1>. QED BY <1>1 DEF Reads

\* And what held of its address space still does.
LEMMA Spared ==
  ASSUME VmmAssumption, VmmInv, NEW q \in Proc, Undisturbed(q), Mem(q),
         cr3'[q] = cr3[q], at'[q] = at[q]
  PROVE  Mem(q)'
<1>1. Space(q)' = Space(q) /\ \A d \in Space(q) : Steady(d)
  BY DEF Space, Undisturbed
<1>2. \A d \in Space(q), i, j \in Idx : Look(d, i, j)' = Look(d, i, j)
  BY <1>1, SteadyLook
<1>3. /\ at[q] \in Activation /\ Coherent(q) /\ Record(q) /\ TypeOK
      /\ cr3[q] \in Frame \cup {NoFrame}
  BY DEF VmmInv, TypeOK, Records
<1>4. /\ Dir(q)' = Dir(q) /\ cr3[q]' = cr3[q]
      /\ \A d \in Space(q) : \A i : table'[d][i] = table[d][i]
  BY <1>1 DEF Dir, Steady
<1>5. at[q].job \notin {"unborn", "born"} => cr3[q] \in Space(q)
  BY <1>3 DEF Coherent, Space
<1>6. \A d \in Space(q)' : Formed(d)'
  BY <1>1, SteadyFormed DEF Mem
<1>7. Lives(q)' => Sealed(cr3[q])'
  BY <1>1, <1>4, <1>5, SteadyFormed DEF Mem, Lives, Sealed
<1>8. Forking(q)'
  <2>1. at[q].job = "fork" => at[q].new \in Space(q)
    BY <1>3 DEF Coherent, Space
  <2>. QED BY <1>2, <1>3, <1>4, <1>5, <2>1 DEF Mem, Forking, Activation
<1>9. CopyingPt(q)'
  <2>1. at[q].pc = "copypt" => at[q].dst \in Frame /\ Dir(q) \in Idx /\ cr3[q] \in Space(q)
    BY <1>3, <1>5, DirTyped DEF Coherent, Record
  <2>2. at[q].pc = "copypt" => Pde(q, Dir(q))' = Pde(q, Dir(q))
    BY <1>4, <2>1 DEF Pde
  <2>. QED BY <1>2, <1>4, <2>1, <2>2 DEF Mem, CopyingPt, Undisturbed
<1>10. Faulting(q)'
  <2>. DEFINE e == Look(cr3[q], at[q].va[1], at[q].va[2])
  <2>. SUFFICES ASSUME at[q].job = "fault" PROVE Found(q)'
    BY DEF Faulting
  <2>1. /\ cr3[q] \in Space(q) /\ cr3[q] \in Frame /\ at[q].pa \in Frame
        /\ at[q].va[1] \in Idx /\ at[q].va[2] \in Idx
    BY <1>3, <1>5 DEF Coherent, VmmAssumption, VA
  <2>2. e \in Entry /\ Look(cr3[q], at[q].va[1], at[q].va[2])' = e
    BY <1>2, <1>3, <2>1, LookTyped
  <2>3. page'[at[q].pa] = page[at[q].pa]
    BY <2>1 DEF Undisturbed, Uses
  <2>4. Found(q)
    BY DEF Mem, Faulting
  <2>5. Private(e) => page'[e.fr] = page[e.fr]
    <3>1. Private(e) => e.fr \in Frame /\ Uses(q, e.fr)
      BY <2>1, <2>2, PrivateEntries DEF Uses
    <3>. QED BY <3>1 DEF Undisturbed
  <2>. QED BY <2>2, <2>3, <2>4, <2>5 DEF Found
<1>11. Clearing(q)'
  <2>1. at[q].pc = "clearpt" => Dir(q) \in Idx
    BY <1>3, DirTyped DEF Coherent
  <2>2. Pde(q, Dir(q))' = Pde(q, Dir(q)) \/ cr3[q] \notin Space(q)
    BY <1>4 DEF Pde
  <2>3. Record(q) /\ (at[q].pc = "clearpt" => cr3[q] \in Space(q))
    BY <1>3, <1>5 DEF Coherent
  <2>. QED BY <1>2, <1>3, <1>4, <1>5, <2>1, <2>2, <2>3 DEF Mem, Clearing, Activation
<1>. QED BY <1>6, <1>7, <1>8, <1>9, <1>10, <1>11 DEF Mem

-----------------------------------------------------------------------------
(* Pages with one owner.                                                    *)

\* Somebody refers to them.
LEMMA SoleReferenced ==
  ASSUME VmmAssumption, VmmInv
  PROVE  \A p \in Proc, f \in Frame : Sole(p, f) => rc[f] >= 1
<1>. SUFFICES ASSUME NEW p \in Proc, NEW f \in Frame, Sole(p, f) PROVE rc[f] >= 1
  OBVIOUS
<1>1. CASE at[p].pa = f
  BY <1>1, Referenced
<1>2. ASSUME NEW d \in Space(p), NEW i \in Idx, NEW j \in Idx, Look(d, i, j).fr = f
      PROVE  rc[f] >= 1
  <2>1. table[d][i].fr \in Frame /\ table[table[d][i].fr][j].fr = f
    BY <1>2, LookSlot
  <2>. QED BY <2>1, Referenced
<1>. QED BY <1>1, <1>2 DEF Sole

\* A frame that something other than a writable entry refers to is nobody's own.
LEMMA NotSole ==
  ASSUME VmmAssumption, VmmInv, SoleOnce, NEW g \in Frame, NEW i \in Idx,
         table[g][i].fr \in Frame, ~Eager(table[g][i]), NEW p \in Proc
  PROVE  ~Sole(p, table[g][i].fr)
<1>. DEFINE f == table[g][i].fr
<1>. SUFFICES ASSUME Sole(p, f) PROVE FALSE
  OBVIOUS
<1>1. rc[f] = 1
  BY DEF SoleOnce
<1>2. CASE at[p].pa = f
  BY <1>1, <1>2, OneReference
<1>3. ASSUME NEW d \in Space(p), NEW j \in Idx, NEW k \in Idx,
             Eager(Look(d, j, k)), Look(d, j, k).fr = f
      PROVE  FALSE
  <2>1. table[d][j].fr \in Frame /\ Look(d, j, k) = table[table[d][j].fr][k]
    BY <1>3, LookSlot
  <2>2. table[d][j].fr = g /\ k = i
    BY <1>1, <1>3, <2>1, OneReference
  <2>. QED BY <1>3, <2>1, <2>2
<1>. QED BY <1>2, <1>3 DEF Sole

\* If none gains a reference and whatever is new has one, each still has one.
LEMMA SoleKept ==
  ASSUME VmmAssumption, VmmInv, VmmInv', SoleOnce,
         \A p \in Proc, f \in Frame : Sole(p, f) => rc'[f] <= rc[f],
         \A p \in Proc, f \in Frame : Sole(p, f)' => rc'[f] = 1 \/ \E q \in Proc : Sole(q, f)
  PROVE  SoleOnce'
<1>1. (\A p \in Proc, f \in Frame : Sole(p, f) => rc[f] >= 1)'
  BY SoleReferenced, PTL
<1>2. rc \in [Frame -> Int] /\ rc' \in [Frame -> Int]
  BY DEF VmmInv, TypeOK
<1>. SUFFICES ASSUME NEW p \in Proc, NEW f \in Frame, Sole(p, f)' PROVE rc'[f] = 1
  BY DEF SoleOnce
<1>3. rc'[f] >= 1
  BY <1>1
<1>4. CASE \E q \in Proc : Sole(q, f)
  BY <1>2, <1>3, <1>4 DEF SoleOnce
<1>. QED BY <1>4

\* An undisturbed process has no new ones.
LEMMA SameSoles ==
  ASSUME VmmAssumption, NEW q \in Proc, NEW f \in Frame, \A d \in Space(q) : Steady(d),
         Space(q)' \subseteq Space(q), at'[q].pa \in {at[q].pa, NoFrame}, Sole(q, f)'
  PROVE  Sole(q, f)
<1>1. \A d \in Space(q), i, j \in Idx : Look(d, i, j)' = Look(d, i, j)
  BY SteadyLook
<1>. QED BY <1>1 DEF Sole, VmmAssumption

-----------------------------------------------------------------------------
(* Steps of one process.                                                    *)

OthersIdle(p) == \A q \in Proc \ {p} : at'[q] = at[q] /\ cr3'[q] = cr3[q]

\* Only frames without a reference, or that a read-only entry refers to, gain one.
Counting == \A f \in Frame : \/ rc'[f] <= rc[f]
                             \/ rc[f] = 0
                             \/ \E g \in Frame, i \in Idx : table[g][i].fr = f /\ ~Eager(table[g][i])

\* What q's program sees is what it saw.
Same(q) == /\ Lives(q)' <=> Lives(q)
           /\ \A va \in Touched : Reads(q, va)' = Reads(q, va)

\* So a step of p alone keeps the invariant, once p and what it comes to own are seen to.
LEMMA LocalMem ==
  ASSUME VmmAssumption, VmmInv, VmmInv', MemInv, NEW p \in Proc, OthersIdle(p), Within({p}),
         Counting, \A f \in Frame : Sole(p, f)' => rc'[f] = 1 \/ Sole(p, f), Mem(p)'
  PROVE  MemInv' /\ \A q \in Proc \ {p} : Same(q)
<1>1. \A q \in Proc \ {p} : Undisturbed(q) /\ at'[q] = at[q] /\ cr3'[q] = cr3[q]
  BY Others DEF OthersIdle
<1>2. ASSUME NEW q \in Proc \ {p} PROVE Same(q) /\ Mem(q)'
  BY <1>1, SameReads, Spared DEF Same, Lives, MemInv
<1>3. ASSUME NEW q \in Proc, NEW f \in Frame, Sole(q, f)'
      PROVE  rc'[f] = 1 \/ Sole(q, f)
  <2>1. CASE q # p
    <3>1. Undisturbed(q) /\ Space(q)' = Space(q) /\ at'[q].pa = at[q].pa
      BY <1>1, <2>1 DEF Space
    <3>. QED BY <1>3, <3>1, SameSoles DEF Undisturbed
  <2>. QED BY <1>3, <2>1
<1>4. ASSUME NEW q \in Proc, NEW f \in Frame, Sole(q, f) PROVE rc'[f] <= rc[f]
  <2>1. rc[f] = 1
    BY <1>4 DEF MemInv, SoleOnce
  <2>2. \A g \in Frame, i \in Idx : table[g][i].fr = f => Eager(table[g][i])
    BY <1>4, NotSole DEF MemInv
  <2>. QED BY <2>1, <2>2 DEF Counting
<1>5. SoleOnce'
  BY <1>3, <1>4, SoleKept DEF MemInv
<1>. QED BY <1>2, <1>5 DEF MemInv

\* Steps that leave p's directories and the tables below them alone.
LEMMA QuietMem ==
  ASSUME VmmAssumption, VmmInv, VmmInv', MemInv, NEW p \in Proc, OthersIdle(p), Within({p}),
         Counting, \A d \in Space(p) : Steady(d),
         cr3'[p] = cr3[p], at'[p].new \in {at[p].new, NoFrame},
         at'[p].pa \in {at[p].pa, NoFrame} \/ rc'[at'[p].pa] = 1,
         Lives(p)' => Lives(p),
         Forking(p)', CopyingPt(p)', Faulting(p)', Clearing(p)'
  PROVE  MemInv' /\ \A q \in Proc \ {p} : Same(q)
<1>1. Space(p)' \subseteq Space(p)
  BY DEF Space, VmmAssumption
<1>2. Mem(p)
  BY DEF MemInv
<1>3. \A d \in Space(p)' : Formed(d)'
  BY <1>1, <1>2, SteadyFormed DEF Mem
<1>4. Lives(p)' => Sealed(cr3[p])'
  <2>1. Lives(p) => cr3[p] \in Space(p)
    BY DEF Lives, Space, VmmInv, TypeOK, Coherent
  <2>2. cr3[p]' = cr3[p]
    OBVIOUS
  <2>. QED BY <1>2, <2>1, <2>2, SteadyFormed DEF Mem, Lives, Sealed
<1>5. Mem(p)'
  BY <1>3, <1>4 DEF Mem
<1>6. ASSUME NEW f \in Frame, Sole(p, f)' PROVE rc'[f] = 1 \/ Sole(p, f)
  <2>1. CASE at'[p].pa \in {at[p].pa, NoFrame}
    BY <1>1, <1>6, <2>1, SameSoles
  <2>2. CASE rc'[at'[p].pa] = 1
    <3>1. \A d \in Space(p), i, j \in Idx : Look(d, i, j)' = Look(d, i, j)
      BY SteadyLook
    <3>. QED BY <1>1, <1>6, <2>2, <3>1 DEF Sole
  <2>. QED BY <2>1, <2>2
<1>. QED BY <1>5, <1>6, LocalMem

\* Writing an entry of a directory of p's.
LEMMA PdeWrite ==
  ASSUME VmmAssumption, VmmInv, NEW p \in Proc, NEW d \in Space(p), NEW i \in Idx,
         NEW e, Wrote(d, i, e), e.fr # d
  PROVE  /\ table'[d][i] = e /\ \A k \in Idx \ {i} : table'[d][k] = table[d][k]
         /\ \A k \in Idx \ {i}, j \in Idx : Look(d, k, j)' = Look(d, k, j)
         /\ \A j \in Idx : Look(d, i, j)' = IF Present(e) THEN PT(e)[j] ELSE Absent
         /\ \A b \in Space(p) \ {d} : Steady(b)
<1>1. d \in Frame /\ Exclusive(d) /\ \A b \in Frame, k \in Idx : table[b][k].fr # d
  BY SpaceDirs, Alone DEF Exclusive
<1>2. /\ table'[d][i] = e /\ \A k \in Idx \ {i} : table'[d][k] = table[d][k]
      /\ \A b \in Frame \ {d} : table'[b] = table[b]
  BY <1>1 DEF Wrote, VmmInv, TypeOK
<1>3. ASSUME NEW k \in Idx \ {i}, NEW j \in Idx PROVE Look(d, k, j)' = Look(d, k, j)
  <2>1. PT(table[d][k])' = PT(table[d][k])
    BY <1>1, <1>2 DEF PT
  <2>. QED BY <1>2, <2>1 DEF Look
<1>4. ASSUME NEW j \in Idx PROVE Look(d, i, j)' = IF Present(e) THEN PT(e)[j] ELSE Absent
  <2>1. PT(table[d][i])' = PT(e)
    BY <1>1, <1>2 DEF PT
  <2>. QED BY <1>2, <2>1 DEF Look
<1>5. \A b \in Space(p) \ {d} : Steady(b)
  BY <1>1, <1>2, SpaceDirs DEF Steady
<1>. QED BY <1>2, <1>3, <1>4, <1>5

\* Writing an entry of a table that is p's own.
LEMMA PteWrite ==
  ASSUME VmmAssumption, VmmInv, NEW p \in Proc, NEW d \in Space(p), NEW i \in Idx, NEW j \in Idx,
         NEW g \in Frame, Under(g, d, i), NEW e, Wrote(g, j, e)
  PROVE  /\ table'[d] = table[d]
         /\ Look(d, i, j)' = e
         /\ \A k, l \in Idx : <<k, l>> # <<i, j>> => Look(d, k, l)' = Look(d, k, l)
         /\ \A b \in Space(p) \ {d} : Steady(b)
<1>1. d \in Frame /\ d \in Dirs /\ Rooted(p, d) /\ Exclusive(d) /\ Exclusive(g) /\ table[d][i].fr = g
  BY SpaceDirs DEF Exclusive, Under
<1>2. /\ \A b \in Frame, k \in Idx : table[b][k].fr = g => b = d /\ k = i
      /\ \A q \in Proc : ~Rooted(q, g)
  BY <1>1, Alone
<1>3. /\ table'[g][j] = e /\ \A k \in Idx \ {j} : table'[g][k] = table[g][k]
      /\ \A b \in Frame \ {g} : table'[b] = table[b]
  BY <1>1 DEF Wrote, VmmInv, TypeOK
<1>4. table'[d] = table[d] /\ \A b \in Space(p) \ {d} : Steady(b)
  BY <1>1, <1>2, <1>3, SpaceDirs DEF Steady
<1>5. PT(table[d][i])' = table'[g] /\ PT(table[d][i]) = table[g] /\ Present(table[d][i])
  BY <1>1, <1>4 DEF PT, Present, VmmAssumption
<1>6. ASSUME NEW k \in Idx, NEW l \in Idx, <<k, l>> # <<i, j>>
      PROVE  Look(d, k, l)' = Look(d, k, l)
  <2>1. CASE k = i
    BY <1>3, <1>4, <1>5, <1>6, <2>1 DEF Look
  <2>2. CASE k # i
    <3>1. PT(table[d][k])' = PT(table[d][k])
      BY <1>1, <1>2, <1>3, <1>4, <2>2 DEF PT
    <3>. QED BY <1>4, <3>1 DEF Look
  <2>. QED BY <2>1, <2>2
<1>7. Look(d, i, j)' = e
  BY <1>3, <1>4, <1>5 DEF Look
<1>. QED BY <1>4, <1>6, <1>7

\* alloc_frame.
LEMMA AllocatedPage ==
  ASSUME VmmAssumption, VmmInv, AllocFrame
  PROVE  /\ Fresh \in Frame /\ rc[Fresh] = 0 /\ rc'[Fresh] = 1 /\ table[Fresh] = EmptyTable
         /\ page'[Fresh] = Zero /\ \A f \in Frame \ {Fresh} : page'[f] = page[f]
         /\ \A M : \A f \in Frame : page'[f] = page[f] \/ Spare(M, f)
         /\ Counting
         /\ \A d \in Frame, i \in Idx : table[d][i].fr # Fresh
         /\ \A p \in Proc : at[p].pa # Fresh
<1>1. /\ Fresh \in Frame /\ rc[Fresh] = 0 /\ rc'[Fresh] = 1 /\ table[Fresh] = EmptyTable
      /\ \A f \in Frame \ {Fresh} : rc'[f] = rc[f]
  BY Allocated
<1>2. page'[Fresh] = Zero /\ \A f \in Frame \ {Fresh} : page'[f] = page[f]
  BY <1>1 DEF AllocFrame, VmmInv, TypeOK
<1>3. /\ \A d \in Frame, i \in Idx : table[d][i].fr # Fresh
      /\ \A p \in Proc : at[p].pa # Fresh
  BY <1>1, Unreferenced
<1>4. Counting
  BY <1>1 DEF Counting, VmmInv, TypeOK
<1>. QED BY <1>1, <1>2, <1>3, <1>4 DEF Spare

\* Who disturbs nobody disturbs no others.
LEMMA WithinNone ==
  ASSUME VmmAssumption, VmmInv, Within({}), NEW p \in Proc
  PROVE  Within({p}) /\ Undisturbed(p)
<1>1. \A g : Mine({}, g) => Mine({p}, g)
  BY DEF Mine
<1>2. \A f : Spare({}, f) => Spare({p}, f)
  BY <1>1 DEF Spare
<1>3. Undisturbed(p)
  BY Others
<1>. QED BY <1>1, <1>2, <1>3 DEF Within

\* A fault stays as it was while it works on other things.
LEMMA FoundKept ==
  ASSUME NEW p \in Proc, Found(p), NEW d, d = cr3[p], NEW v, v = at[p].va, cr3'[p] = cr3[p],
         at'[p].va = at[p].va, at'[p].copy = at[p].copy, at'[p].pa = at[p].pa,
         at[p].pc # "swap", at'[p].pc # "swap",
         Look(d, v[1], v[2])' = Look(d, v[1], v[2]), page'[at[p].pa] = page[at[p].pa]
  PROVE  Found(p)'
  BY DEF Found

\* So do the steps that give up a table that is no longer in the directory.
LEMMA Background ==
  ASSUME VmmAssumption, VmmInv, MemInv, NEW p \in Proc, Undisturbed(p), cr3'[p] = cr3[p],
         at'[p].job = at[p].job, at'[p].va = at[p].va, at'[p].copy = at[p].copy,
         at'[p].pa = at[p].pa, at'[p].dirs = at[p].dirs,
         at[p].job \notin {"fork", "unborn", "born"},
         at[p].pc # "swap", at'[p].pc \notin {"copypt", "swap", "clearpt"}
  PROVE  Forking(p)' /\ CopyingPt(p)' /\ Faulting(p)' /\ Clearing(p)' /\ Same(p)
<1>1. /\ Mem(p) /\ cr3[p] \in Space(p) /\ cr3[p] \in Frame /\ Coherent(p) /\ at[p] \in Activation
  BY Acting DEF MemInv, Space, VmmInv, TypeOK
<1>2. \A i, j \in Idx : Look(cr3[p], i, j)' = Look(cr3[p], i, j)
  <2>1. PICK d \in Space(p) : d = cr3[p] /\ d = cr3'[p]
    BY <1>1
  <2>2. \A i, j \in Idx : Look(d, i, j)' = Look(d, i, j)
    BY SteadyLook DEF Undisturbed
  <2>. QED BY <2>1, <2>2
<1>3. Forking(p)' /\ CopyingPt(p)'
  BY DEF Forking, CopyingPt
<1>4. Faulting(p)'
  <2>. SUFFICES ASSUME at[p].job = "fault" PROVE Found(p)'
    BY DEF Faulting
  <2>1. /\ at[p].va[1] \in Idx /\ at[p].va[2] \in Idx /\ at[p].pa \in Frame
    BY <1>1 DEF Coherent, VmmAssumption, VA
  <2>2. page'[at[p].pa] = page[at[p].pa]
    BY <2>1 DEF Undisturbed, Uses
  <2>3. PICK d, v : d = cr3[p] /\ v = at[p].va
    OBVIOUS
  <2>4. Look(d, v[1], v[2])' = Look(d, v[1], v[2])
    BY <1>1, <2>1, <2>3, SteadyLook DEF Undisturbed
  <2>5. Found(p)
    BY <1>1 DEF Mem, Faulting
  <2>. QED BY <2>2, <2>3, <2>4, <2>5, FoundKept
<1>5. Clearing(p)'
  <2>1. \A i \in Idx : table'[cr3[p]][i] = table[cr3[p]][i]
    BY <1>1 DEF Undisturbed, Steady
  <2>. QED BY <1>1, <1>2, <2>1 DEF Mem, Clearing
<1>6. Same(p)
  BY SameReads DEF Same, Lives
<1>. QED BY <1>3, <1>4, <1>5, <1>6

\* map, map_copy: the directory entry will do.
LEMMA FixPdeUsableMem ==
  ASSUME VmmAssumption, VmmInv, VmmInv', MemInv, NEW p \in Proc, At(p, "fault", "pde"),
         UNCHANGED <<cr3, table>>, Goto(p, "pte"), FramesSame
  PROVE  MemInv' /\ \A q \in Proc : Same(q)
<1>1. at[p].job = "fault" /\ at[p].pc = "pde" /\ at[p] \in Activation /\ cr3[p] \in Frame
  BY Acting DEF At
<1>2. /\ at'[p] = [at[p] EXCEPT !.pc = "pte"] /\ OthersIdle(p)
  BY DEF VmmInv, TypeOK, OthersIdle, Goto
<1>3. /\ at'[p].job = "fault" /\ at'[p].pc = "pte" /\ at'[p].pa = at[p].pa
      /\ at'[p].new = at[p].new /\ at'[p].va = at[p].va /\ at'[p].copy = at[p].copy
      /\ at'[p].dirs = at[p].dirs
  BY ONLY <1>1, <1>2 DEF Activation
<1>4. Within({}) /\ Counting
  BY DEF Within, FramesSame, Counting, VmmInv, TypeOK
<1>5. Within({p}) /\ Undisturbed(p)
  BY <1>4, WithinNone
<1>6. Forking(p)' /\ CopyingPt(p)' /\ Faulting(p)' /\ Clearing(p)' /\ Same(p)
  BY <1>1, <1>3, <1>5, Background
<1>7. MemInv' /\ \A q \in Proc \ {p} : Same(q)
  BY <1>1, <1>2, <1>3, <1>4, <1>5, <1>6, QuietMem DEF Lives, Undisturbed
<1>. QED BY <1>6, <1>7

\* decref(table).
LEMMA DropPtMem ==
  ASSUME VmmAssumption, VmmInv, VmmInv', MemInv, NEW p \in Proc, DropPt(p)
  PROVE  MemInv' /\ \A q \in Proc : Same(q)
<1>1. /\ at[p].pc = "drop" /\ at[p].job \notin {"user", "unborn", "born"}
      /\ at[p] \in Activation /\ cr3[p] \in Frame /\ Coherent(p)
      /\ rc' = [rc EXCEPT ![at[p].old] = @ - 1] /\ UNCHANGED <<table, page, free, cr3>>
  BY ActingPc, Acting DEF DropPt, VmmInv, TypeOK
<1>2. /\ OthersIdle(p)
      /\ \/ at'[p] = [at[p] EXCEPT !.pc = "doom", !.ptes = Idx]
         \/ at'[p] = [at[p] EXCEPT !.pc = After(p), !.old = NoFrame]
  BY DEF VmmInv, TypeOK, OthersIdle, DropPt
<1>3. After(p) \in {"pte", "dir"}
  BY DEF After
<1>4. /\ at'[p].job = at[p].job /\ at'[p].pc \in {"doom", "pte", "dir"} /\ at'[p].pa = at[p].pa
      /\ at'[p].new = at[p].new /\ at'[p].va = at[p].va /\ at'[p].copy = at[p].copy
      /\ at'[p].dirs = at[p].dirs
  BY ONLY <1>1, <1>2, <1>3 DEF Activation
<1>5. Within({}) /\ Counting
  BY <1>1 DEF Within, Counting, VmmInv, TypeOK, Coherent
<1>6. Within({p}) /\ Undisturbed(p)
  BY <1>5, WithinNone
<1>7. Forking(p)' /\ CopyingPt(p)' /\ Faulting(p)' /\ Clearing(p)' /\ Same(p)
  BY <1>1, <1>4, <1>6, Background DEF Coherent
<1>8. MemInv' /\ \A q \in Proc \ {p} : Same(q)
  BY <1>1, <1>2, <1>4, <1>5, <1>6, <1>7, QuietMem DEF Lives, Undisturbed
<1>. QED BY <1>7, <1>8

\* destroy_pt, of a table that nobody refers to any more.
LEMMA DoomPteMem ==
  ASSUME VmmAssumption, VmmInv, VmmInv', MemInv, NEW p \in Proc, DoomPte(p)
  PROVE  MemInv' /\ \A q \in Proc : Same(q)
<1>. DEFINE g == at[p].old
            i == Some(at[p].ptes)
            e == table[g][i]
<1>3. /\ at[p].pc = "doom" /\ at[p].job \notin {"user", "unborn", "born", "fork"}
      /\ at[p] \in Activation /\ cr3[p] \in Frame /\ UNCHANGED cr3
      /\ g \in Frame /\ rc[g] = 0 /\ at[p].ptes # {} /\ TypeOK
  BY ActingPc, Acting DEF DoomPte, VmmInv, TypeOK, Coherent, Dooming
<1>1. i \in Idx /\ e \in Entry
  BY <1>3, PteIndexTyped DEF TypeOK
<1>2. /\ at'[p] = [at[p] EXCEPT !.ptes = @ \ {i}] /\ OthersIdle(p)
      /\ IF Private(e) THEN DecRef(e.fr) ELSE FramesSame
      /\ \A f \in Frame \ {g} : table'[f] = table[f]
  BY <1>1, <1>3 DEF VmmInv, TypeOK, OthersIdle, DoomPte
<1>4. /\ at'[p].job = at[p].job /\ at'[p].pc = at[p].pc /\ at'[p].pa = at[p].pa
      /\ at'[p].new = at[p].new /\ at'[p].va = at[p].va /\ at'[p].copy = at[p].copy
      /\ at'[p].dirs = at[p].dirs
  BY ONLY <1>1, <1>3, <1>2 DEF Activation
<1>5. Within({}) /\ Counting
  <2>1. Private(e) => e.fr \in Frame /\ rc[e.fr] >= 1
    BY <1>1, <1>3, PrivateEntries, Referenced
  <2>2. ASSUME NEW f \in Frame PROVE page'[f] = page[f] \/ Spare({}, f)
    BY <1>1, <1>3, <1>2, <2>1 DEF Spare, Mine, DecRef, FramesSame, VmmInv, TypeOK
  <2>3. Counting
    BY <1>2, <2>1 DEF Counting, DecRef, FramesSame, VmmInv, TypeOK
  <2>4. \A f \in Frame : table'[f] = table[f] \/ Mine({}, f)
    BY <1>1, <1>3, <1>2 DEF Mine
  <2>. QED BY <2>2, <2>3, <2>4 DEF Within
<1>6. Within({p}) /\ Undisturbed(p)
  BY <1>5, WithinNone
<1>7. Forking(p)' /\ CopyingPt(p)' /\ Faulting(p)' /\ Clearing(p)' /\ Same(p)
  BY <1>1, <1>3, <1>4, <1>6, Background
<1>8. MemInv' /\ \A q \in Proc \ {p} : Same(q)
  BY <1>1, <1>3, <1>2, <1>4, <1>5, <1>6, <1>7, QuietMem DEF Lives, Undisturbed
<1>. QED BY <1>7, <1>8

\* dealloc_frame of the destroyed table.
LEMMA FreePtMem ==
  ASSUME VmmAssumption, VmmInv, VmmInv', MemInv, NEW p \in Proc, FreePt(p)
  PROVE  MemInv' /\ \A q \in Proc : Same(q)
<1>1. /\ at[p].pc = "doom" /\ at[p].job \notin {"user", "unborn", "born", "fork"}
      /\ at[p] \in Activation /\ cr3[p] \in Frame /\ UNCHANGED <<table, rc, cr3>>
      /\ at[p].old \in Frame /\ rc[at[p].old] = 0
      /\ page' = [page EXCEPT ![at[p].old] = Junk]
  BY ActingPc, Acting DEF FreePt, VmmInv, TypeOK, Coherent, Dooming
<1>2. at'[p] = [at[p] EXCEPT !.pc = After(p), !.old = NoFrame] /\ OthersIdle(p)
  BY DEF VmmInv, TypeOK, OthersIdle, FreePt
<1>3. After(p) \in {"pte", "dir"}
  BY DEF After
<1>4. /\ at'[p].job = at[p].job /\ at'[p].pc \in {"pte", "dir"} /\ at'[p].pa = at[p].pa
      /\ at'[p].new = at[p].new /\ at'[p].va = at[p].va /\ at'[p].copy = at[p].copy
      /\ at'[p].dirs = at[p].dirs
  BY ONLY <1>1, <1>2, <1>3 DEF Activation
<1>5. Within({}) /\ Counting
  BY <1>1 DEF Within, Spare, Counting, VmmInv, TypeOK
<1>6. Within({p}) /\ Undisturbed(p)
  BY <1>5, WithinNone
<1>7. Forking(p)' /\ CopyingPt(p)' /\ Faulting(p)' /\ Clearing(p)' /\ Same(p)
  BY <1>1, <1>4, <1>6, Background
<1>8. MemInv' /\ \A q \in Proc \ {p} : Same(q)
  BY <1>1, <1>2, <1>4, <1>5, <1>6, <1>7, QuietMem DEF Lives, Undisturbed
<1>. QED BY <1>7, <1>8

-----------------------------------------------------------------------------
(* Steps that leave the process's own tables alone.                         *)

\* What p's directory shows does not change.
LEMMA OwnLooks ==
  ASSUME NEW p \in Proc, \A d \in Space(p) : Steady(d), cr3'[p] = cr3[p], cr3[p] \in Frame
  PROVE  /\ \A i, j \in Idx : Look(cr3[p], i, j)' = Look(cr3[p], i, j)
         /\ table'[cr3[p]] = table[cr3[p]]
<1>1. PICK d \in Space(p) : d = cr3[p] /\ d = cr3'[p]
  BY DEF Space
<1>2. \A i, j \in Idx : Look(d, i, j)' = Look(d, i, j)
  BY SteadyLook
<1>. QED BY <1>1, <1>2 DEF Steady

\* A fork stays where it was.
LEMMA ForkingKept ==
  ASSUME VmmInv, NEW p \in Proc, \A d \in Space(p) : Steady(d), cr3'[p] = cr3[p],
         at'[p].job = at[p].job, at'[p].new = at[p].new, at'[p].dirs = at[p].dirs, Forking(p)
  PROVE  Forking(p)'
<1>. SUFFICES ASSUME at[p].job = "fork" PROVE Forking(p)'
  BY DEF Forking
<1>1. at[p].new \in Space(p) /\ cr3[p] \in Frame /\ at[p].dirs \subseteq Idx
  BY DEF VmmInv, TypeOK, Coherent, Activation, Space
<1>2. PICK d \in Space(p) : d = at[p].new /\ d = at'[p].new
  BY <1>1
<1>3. (\A i, j \in Idx : Look(d, i, j)' = Look(d, i, j)) /\ table'[d] = table[d]
  BY SteadyLook DEF Steady
<1>4. \A i, j \in Idx : Look(cr3[p], i, j)' = Look(cr3[p], i, j)
  BY <1>1, OwnLooks
<1>. QED BY <1>1, <1>2, <1>3, <1>4 DEF Forking

\* What p's program reads, through the directory it keeps.
LEMMA ReadsLook ==
  ASSUME NEW p, NEW va, NEW d, d = cr3[p], d = cr3'[p]
  PROVE  /\ Reads(p, va) = IF /\ at[p].job \in {"user", "fault", "fork"}
                              /\ Private(Look(d, va[1], va[2]))
                           THEN page[Look(d, va[1], va[2]).fr] ELSE Zero
         /\ Reads(p, va)' = IF /\ at'[p].job \in {"user", "fault", "fork"}
                               /\ Private(Look(d, va[1], va[2]))'
                            THEN page'[(Look(d, va[1], va[2]).fr)'] ELSE Zero
<1>1. Pte(p, va) = Look(d, va[1], va[2]) /\ Pte(p, va)' = Look(d, va[1], va[2])'
  BY DEF Pte, Look, Pde
<1>. QED BY <1>1 DEF Reads, Private, Present

\* It reads the same if its directory shows the same page with the same contents.
LEMMA SameReading ==
  ASSUME NEW p, NEW va, NEW d, d = cr3[p], d = cr3'[p],
         at'[p].job \in {"user", "fault", "fork"} <=> at[p].job \in {"user", "fault", "fork"},
         Look(d, va[1], va[2])' = Look(d, va[1], va[2]),
         Private(Look(d, va[1], va[2])) =>
           page'[Look(d, va[1], va[2]).fr] = page[Look(d, va[1], va[2]).fr]
  PROVE  Reads(p, va)' = Reads(p, va)
<1>1. Pte(p, va) = Look(d, va[1], va[2]) /\ Pte(p, va)' = Look(d, va[1], va[2])'
  BY DEF Pte, Look, Pde
<1>2. Pte(p, va)' = Pte(p, va)
  BY <1>1
<1>. QED BY <1>1, <1>2 DEF Reads, Private, Present

\* The user may write a page that is there and writable, if it is no device's.
LEMMA EntryWritable ==
  ASSUME VmmAssumption, NEW p \in Proc, Formed(cr3[p]), NEW va \in Touched, va \notin Apic,
         Present(Look(cr3[p], va[1], va[2])), "RW" \in Look(cr3[p], va[1], va[2]).flags
  PROVE  Writable(p, va)
<1>. DEFINE e == Look(cr3[p], va[1], va[2])
<1>1. va[1] \in Idx /\ va[2] \in Idx /\ va = <<va[1], va[2]>>
  BY DEF VmmAssumption, VA
<1>2. Private(e) /\ "US" \in e.flags
  BY <1>1 DEF Formed, PageEntry, Present, Absent, Ent
<1>3. Eager(e)
  BY <1>2 DEF Eager
<1>4. Eager(table[cr3[p]][va[1]])
  BY <1>1, <1>3, EagerLook
<1>5. "US" \in table[cr3[p]][va[1]].flags
  <2>1. table[cr3[p]][va[1]] \notin {Absent, Kpd[va[1]]}
    BY <1>1, <1>4, KpdLook DEF Eager
  <2>. QED BY <1>1, <2>1 DEF Formed, DirEntry
<1>. QED BY <1>2, <1>4, <1>5, PteLook DEF Writable, Pde, Eager

\* vmm_pageFault.
LEMMA FaultMem ==
  ASSUME VmmAssumption, VmmInv, VmmInv', MemInv, NEW p \in Proc, Fault(p)
  PROVE  MemInv' /\ \A q \in Proc : Same(q)
<1>1. /\ at[p].job = "user" /\ at[p] \in Activation /\ cr3[p] \in Frame /\ AllocFrame
      /\ UNCHANGED <<table, cr3>>
  BY Acting DEF Fault
<1>2. PICK va \in Touched : ~Writable(p, va) /\ Begin(p, Faulted(p, va))
  BY DEF Fault
<1>3. at'[p] = Faulted(p, va) /\ OthersIdle(p)
  BY <1>1, <1>2 DEF VmmInv, TypeOK, OthersIdle, Begin
<1>4. /\ at'[p].job = "fault" /\ at'[p].pc = "pde" /\ at'[p].pa = Fresh /\ at'[p].va = va
      /\ at'[p].copy = Present(Pte(p, va)) /\ at'[p].new = NoFrame
  BY ONLY <1>3 DEF Faulted, Idle
<1>5. /\ Within({}) /\ Counting /\ page'[Fresh] = Zero /\ rc'[Fresh] = 1
  BY <1>1, AllocatedPage DEF Within
<1>6. Within({p}) /\ Undisturbed(p)
  BY <1>5, WithinNone
<1>7. Mem(p) /\ Formed(cr3[p]) /\ va[1] \in Idx /\ va[2] \in Idx
  BY <1>1 DEF MemInv, Mem, Space, VmmAssumption, VA
<1>8. Found(p)'
  <2>1. Look(cr3[p], va[1], va[2])' = Look(cr3[p], va[1], va[2])
    BY <1>1, <1>6, <1>7, OwnLooks DEF Undisturbed
  <2>2. va \notin Apic /\ Present(Look(cr3[p], va[1], va[2]))
          => "RW" \notin Look(cr3[p], va[1], va[2]).flags
    BY <1>2, <1>7, EntryWritable
  <2>3. at'[p].copy = Present(Look(cr3[p], va[1], va[2]))
    BY <1>4, PteLook
  <2>. QED BY <1>4, <1>5, <2>1, <2>2, <2>3 DEF Found
<1>9. Forking(p)' /\ CopyingPt(p)' /\ Faulting(p)' /\ Clearing(p)'
  BY <1>4, <1>8 DEF Forking, CopyingPt, Faulting, Clearing
<1>10. MemInv' /\ \A q \in Proc \ {p} : Same(q)
  BY <1>1, <1>3, <1>4, <1>5, <1>6, <1>9, QuietMem DEF Lives, Undisturbed
<1>11. Same(p)
  BY <1>1, <1>4, <1>6, SameReads DEF Same, Lives
<1>. QED BY <1>10, <1>11

\* exec and exit begin, and a fault on the device page ends in exit.
LEMMA LoopMem ==
  ASSUME VmmAssumption, VmmInv, VmmInv', MemInv, NEW p \in Proc, Lives(p),
         NEW j \in {"exec", "exit"}, Begin(p, Loop(p, j)), UNCHANGED <<table, page, rc, cr3>>
  PROVE  /\ MemInv' /\ \A q \in Proc \ {p} : Same(q)
         /\ Lives(p)' <=> j = "exec"
         /\ \A va : Reads(p, va)' = Zero
<1>1. /\ at'[p] = Loop(p, j) /\ OthersIdle(p)
  BY DEF VmmInv, TypeOK, OthersIdle, Begin
<1>2. /\ at'[p].job = j /\ at'[p].pc = "dir" /\ at'[p].pa = NoFrame /\ at'[p].new = NoFrame
      /\ at'[p].dirs = Idx
  BY ONLY <1>1 DEF Loop, Idle
<1>3. Within({}) /\ Counting
  BY DEF Within, Counting, VmmInv, TypeOK
<1>4. Within({p}) /\ Undisturbed(p)
  BY <1>3, WithinNone
<1>5. Forking(p)' /\ CopyingPt(p)' /\ Faulting(p)' /\ Clearing(p)'
  BY <1>2 DEF Forking, CopyingPt, Faulting, Clearing
<1>6. MemInv' /\ \A q \in Proc \ {p} : Same(q)
  BY <1>1, <1>2, <1>3, <1>4, <1>5, QuietMem DEF Undisturbed
<1>. QED BY <1>2, <1>6 DEF Lives, Reads

\* map, map_copy and copy_pd come to a table they must copy.
LEMMA CopyBeginsMem ==
  ASSUME VmmAssumption, VmmInv, VmmInv', MemInv, NEW p \in Proc,
         At(p, "fault", "pde") \/ (At(p, "fork", "dir") /\ at[p].dirs # {}),
         UNCHANGED <<cr3, table>>, AllocFrame,
         Present(Pde(p, Dir(p))), at[p].job = "fault" => ~Usable(Pde(p, Dir(p))),
         at' = [at EXCEPT ![p].pc = "copypt", ![p].pde = Pde(p, Dir(p)), ![p].dst = Fresh,
                          ![p].ptes = Idx]
  PROVE  MemInv' /\ \A q \in Proc : Same(q)
<1>1. /\ at[p].job \in {"fault", "fork"} /\ at[p].pc \in {"pde", "dir"}
      /\ at[p] \in Activation /\ cr3[p] \in Frame
      /\ at[p].job = "fault" \/ at[p].dirs # {}
  BY Acting DEF At
<1>2. /\ at'[p] = [at[p] EXCEPT !.pc = "copypt", !.pde = Pde(p, Dir(p)), !.dst = Fresh,
                                !.ptes = Idx]
      /\ OthersIdle(p)
  BY DEF VmmInv, TypeOK, OthersIdle
<1>3. /\ at'[p].job = at[p].job /\ at'[p].pc = "copypt" /\ at'[p].pa = at[p].pa
      /\ at'[p].new = at[p].new /\ at'[p].va = at[p].va /\ at'[p].copy = at[p].copy
      /\ at'[p].dirs = at[p].dirs /\ at'[p].dst = Fresh /\ at'[p].ptes = Idx
  BY ONLY <1>1, <1>2 DEF Activation
<1>4. Within({}) /\ Counting /\ table[Fresh] = EmptyTable /\ Fresh \in Frame
  BY AllocatedPage DEF Within
<1>5. Within({p}) /\ Undisturbed(p)
  BY <1>4, WithinNone
<1>6. /\ Mem(p) /\ Formed(cr3[p]) /\ Dir(p) \in Idx /\ Coherent(p) /\ TypeOK
      /\ \A i, j \in Idx : Look(cr3[p], i, j)' = Look(cr3[p], i, j)
  <2>1. TypeOK
    BY DEF VmmInv
  <2>. QED BY <1>1, <1>5, <2>1, DirTyped, OwnLooks DEF MemInv, Mem, Space, TypeOK, Undisturbed
<1>7. Dir(p)' = Dir(p) /\ Pde(p, Dir(p))' = Pde(p, Dir(p))
  <2>1. Dir(p)' = Dir(p)
    BY <1>3 DEF Dir
  <2>. QED BY <2>1 DEF Pde
<1>8. ASSUME NEW j \in Idx PROVE ~Eager(Look(cr3[p], Dir(p), j))
  <2>1. CASE at[p].job = "fork"
    BY <1>6, <2>1 DEF Mem, Forking
  <2>2. CASE at[p].job = "fault"
    <3>. SUFFICES ASSUME Eager(Look(cr3[p], Dir(p), j)) PROVE FALSE
      OBVIOUS
    <3>1. Eager(Pde(p, Dir(p)))
      BY <1>6, EagerLook DEF Pde
    <3>2. Pde(p, Dir(p)) \notin {Absent, Kpd[Dir(p)]}
      BY <1>6, <3>1, KpdLook DEF Pde, Eager
    <3>3. "US" \in Pde(p, Dir(p)).flags
      BY <1>6, <3>2 DEF Formed, DirEntry, Pde
    <3>. QED BY <2>2, <3>1, <3>3 DEF Usable, UserFlags, Eager, Private
  <2>. QED BY <1>1, <2>1, <2>2
<1>9. CopyingPt(p)'
  <2>1. \A j \in Idx : table'[Fresh][j] = Absent
    BY <1>4 DEF EmptyTable
  <2>. QED BY <1>3, <1>6, <1>7, <1>8, <2>1 DEF CopyingPt
<1>10. Forking(p)'
  BY <1>1, <1>3, <1>5, <1>6, ForkingKept DEF Mem, Undisturbed
<1>11. Faulting(p)'
  <2>. SUFFICES ASSUME at[p].job = "fault" PROVE Found(p)'
    BY <1>3 DEF Faulting
  <2>1. /\ at[p].va[1] \in Idx /\ at[p].va[2] \in Idx /\ at[p].pa \in Frame
    BY <1>6 DEF Coherent, VmmAssumption, VA
  <2>2. page'[at[p].pa] = page[at[p].pa]
    BY <1>5, <2>1 DEF Undisturbed, Uses
  <2>3. PICK d, v : d = cr3[p] /\ v = at[p].va
    OBVIOUS
  <2>4. Look(d, v[1], v[2])' = Look(d, v[1], v[2])
    BY <1>1, <1>5, <2>1, <2>3, SteadyLook DEF Undisturbed, Space
  <2>5. Found(p)
    BY <1>6 DEF Mem, Faulting
  <2>6. /\ cr3'[p] = cr3[p] /\ at'[p].va = at[p].va /\ at'[p].copy = at[p].copy /\ at'[p].pa = at[p].pa
        /\ at[p].pc # "swap" /\ at'[p].pc # "swap"
    BY <1>1, <1>3
  <2>. QED BY <2>2, <2>3, <2>4, <2>5, <2>6, FoundKept
<1>12. Clearing(p)'
  BY <1>1, <1>3 DEF Clearing
<1>13. MemInv' /\ \A q \in Proc \ {p} : Same(q)
  BY <1>1, <1>2, <1>3, <1>4, <1>5, <1>9, <1>10, <1>11, <1>12, QuietMem DEF Lives, Undisturbed
<1>14. Same(p)
  BY <1>1, <1>3, <1>5, SameReads DEF Same, Lives
<1>. QED BY <1>13, <1>14

\* copy_pt, one entry.
LEMMA CopyPteMem ==
  ASSUME VmmAssumption, VmmInv, VmmInv', MemInv, NEW p \in Proc, CopyPte(p)
  PROVE  /\ MemInv' /\ \A q \in Proc : Same(q)
         /\ table[at[p].dst][Some(at[p].ptes)] = Absent
<1>. DEFINE d == at[p].dst
            i == Some(at[p].ptes)
            k == Dir(p)
            e == Look(cr3[p], k, i)
<1>1. /\ at[p].pc = "copypt" /\ at[p].ptes # {} /\ at[p] \in Activation /\ cr3[p] \in Frame
      /\ TypeOK /\ at[p].job \in {"fault", "fork"} /\ k \in Idx /\ d \in Frame /\ d \notin Dirs
      /\ Pde(p, k) = at[p].pde /\ Rooted(p, d) /\ Exclusive(d) /\ UNCHANGED cr3 /\ Coherent(p)
  BY Filling DEF CopyPte, Rooted, TypeOK
<1>2. i \in Idx /\ i \in at[p].ptes
  BY <1>1, PteIndexTyped, SomeIn
<1>3. /\ Mem(p) /\ Formed(cr3[p]) /\ Present(at[p].pde) /\ CopyingPt(p)
      /\ ~Eager(e) /\ table[d][i] = Absent /\ e \in Entry /\ e = PT(at[p].pde)[i]
  BY <1>1, <1>2, LookTyped DEF MemInv, Mem, Space, CopyingPt, Look, Pde
<1>4. /\ at'[p] = [at[p] EXCEPT !.ptes = @ \ {i}] /\ OthersIdle(p)
      /\ IF Private(e) THEN IncRef(e.fr) ELSE FramesSame
      /\ table' = [table EXCEPT ![d][i] = e]
  BY <1>1, <1>3 DEF CopyPte, OthersIdle, TypeOK
<1>5. /\ at'[p].job = at[p].job /\ at'[p].pc = "copypt" /\ at'[p].pa = at[p].pa
      /\ at'[p].new = at[p].new /\ at'[p].va = at[p].va /\ at'[p].copy = at[p].copy
      /\ at'[p].dirs = at[p].dirs /\ at'[p].dst = d /\ at'[p].ptes = at[p].ptes \ {i}
  BY ONLY <1>1, <1>4 DEF Activation
<1>6. /\ \A g \in Frame \ {d} : table'[g] = table[g]
      /\ table'[d][i] = e /\ \A j \in Idx \ {i} : table'[d][j] = table[d][j]
      /\ UNCHANGED page
  BY <1>1, <1>2, <1>4 DEF TypeOK, IncRef, FramesSame
<1>7. \A b \in Space(p) : Steady(b)
  <2>1. \A b \in Frame, j \in Idx : table[b][j].fr # d
    BY <1>1, Alone
  <2>. QED BY <1>1, <1>6, <2>1, SpaceDirs DEF Steady
<1>8. Within({p})
  BY <1>1, <1>6 DEF Within, Mine
<1>9. Counting
  <2>1. CASE Private(e)
    <3>. DEFINE g == table[cr3[p]][k].fr
    <3>1. e.fr \in Frame
      BY <1>3, <2>1, PrivateEntries
    <3>2. g \in Frame /\ table[g][i] = e
      BY <1>1, <1>2, <3>1, LookSlot
    <3>3. \A f \in Frame \ {e.fr} : rc'[f] = rc[f]
      BY <1>1, <1>4, <2>1 DEF IncRef, TypeOK
    <3>. HIDE DEF e, g
    <3>4. \A f \in Frame : rc[f] \in Int
      BY <1>1 DEF TypeOK
    <3>. QED BY <1>2, <1>3, <3>2, <3>3, <3>4 DEF Counting
  <2>2. CASE ~Private(e)
    BY <1>1, <1>4, <2>2 DEF Counting, FramesSame, TypeOK
  <2>. QED BY <2>1, <2>2
<1>10. /\ \A a, j \in Idx : Look(cr3[p], a, j)' = Look(cr3[p], a, j)
       /\ table'[cr3[p]] = table[cr3[p]]
  BY <1>1, <1>7, OwnLooks
<1>11. Dir(p)' = k /\ Pde(p, Dir(p))' = Pde(p, k)
  <2>1. Dir(p)' = Dir(p)
    BY <1>5 DEF Dir
  <2>. QED BY <1>1, <1>10, <2>1 DEF Pde
<1>12. CopyingPt(p)'
  <2>1. ASSUME NEW j \in Idx
        PROVE  /\ ~Eager(Look(cr3[p], k, j))
               /\ table'[d][j] = IF j \in at'[p].ptes THEN Absent ELSE Look(cr3[p], k, j)
    <3>1. /\ ~Eager(Look(cr3[p], k, j))
          /\ table[d][j] = IF j \in at[p].ptes THEN Absent ELSE Look(cr3[p], k, j)
      BY <1>1, <1>3 DEF CopyingPt
    <3>. QED BY <1>2, <1>5, <1>6, <3>1
  <2>. QED BY <1>1, <1>3, <1>5, <1>10, <1>11, <2>1 DEF CopyingPt
<1>13. Forking(p)'
  BY <1>1, <1>3, <1>5, <1>7, ForkingKept DEF Mem
<1>14. Faulting(p)'
  <2>. SUFFICES ASSUME at[p].job = "fault" PROVE Found(p)'
    BY <1>5 DEF Faulting
  <2>1. /\ at[p].va[1] \in Idx /\ at[p].va[2] \in Idx
    BY <1>1 DEF Coherent, VmmAssumption, VA
  <2>3. PICK b, v : b = cr3[p] /\ v = at[p].va
    OBVIOUS
  <2>4. Look(b, v[1], v[2])' = Look(b, v[1], v[2])
    BY <1>1, <1>7, <2>1, <2>3, SteadyLook DEF Space
  <2>5. Found(p)
    BY <1>3 DEF Mem, Faulting
  <2>. QED BY <1>1, <1>5, <1>6, <2>3, <2>4, <2>5, FoundKept
<1>15. Clearing(p)'
  BY <1>1, <1>5 DEF Clearing
<1>16. MemInv' /\ \A q \in Proc \ {p} : Same(q)
  BY <1>1, <1>4, <1>5, <1>7, <1>8, <1>9, <1>12, <1>13, <1>14, <1>15, QuietMem DEF Lives
<1>17. Same(p)
  <2>. SUFFICES ASSUME NEW va \in Touched PROVE Reads(p, va)' = Reads(p, va)
    BY <1>5 DEF Same, Lives
  <2>1. PICK b : b = cr3[p] /\ b = cr3'[p]
    BY <1>1
  <2>2. Look(b, va[1], va[2])' = Look(b, va[1], va[2])
    BY <1>1, <1>7, <2>1, SteadyLook DEF Space, VmmAssumption, VA
  <2>. QED BY <1>5, <1>6, <2>1, <2>2, SameReading
<1>. QED BY <1>3, <1>16, <1>17

\* map_copy copies the page that it found.
LEMMA FixPteSharedMem ==
  ASSUME VmmAssumption, VmmInv, VmmInv', MemInv, NEW p \in Proc, At(p, "fault", "pte"),
         UNCHANGED <<table, cr3, rc>>, at[p].copy,
         Present(Pte(p, at[p].va)), "RW" \notin Pte(p, at[p].va).flags,
         page' = [page EXCEPT ![at[p].pa] = page[Pte(p, at[p].va).fr]],
         at' = [at EXCEPT ![p].pc = "swap", ![p].old = Pte(p, at[p].va).fr]
  PROVE  MemInv' /\ \A q \in Proc : Same(q)
<1>. DEFINE v == at[p].va
            e == Look(cr3[p], v[1], v[2])
            pa == at[p].pa
<1>1. /\ at[p].job = "fault" /\ at[p].pc = "pte" /\ at[p] \in Activation /\ cr3[p] \in Frame
      /\ pa \in Frame /\ v[1] \in Idx /\ v[2] \in Idx /\ TypeOK /\ e = Pte(p, v)
  <2>1. /\ at[p].job = "fault" /\ at[p].pc = "pte" /\ at[p] \in Activation /\ cr3[p] \in Frame
        /\ TypeOK /\ Coherent(p)
    BY Acting DEF At, VmmInv, TypeOK
  <2>. QED BY <2>1, PteLook DEF Coherent, VmmAssumption, VA
<1>2. e \in Entry /\ Private(e) /\ e.fr \in Frame /\ Mem(p) /\ "RW" \notin e.flags
  BY <1>1, LookTyped, ReadOnlyPrivate, PrivateEntries DEF MemInv
<1>3. /\ at'[p] = [at[p] EXCEPT !.pc = "swap", !.old = e.fr] /\ OthersIdle(p)
  BY <1>1 DEF TypeOK, OthersIdle
<1>4. /\ at'[p].job = "fault" /\ at'[p].pc = "swap" /\ at'[p].pa = pa
      /\ at'[p].new = at[p].new /\ at'[p].va = v /\ at'[p].copy = at[p].copy
  BY ONLY <1>1, <1>3 DEF Activation
<1>5. rc[pa] = 1 /\ \A d \in Frame, i \in Idx : table[d][i].fr # pa
  BY <1>1, OneReference DEF MemInv, SoleOnce, Sole
<1>6. \A i, j \in Idx : Look(cr3[p], i, j).fr # pa
  BY <1>1, <1>5, LookSlot
<1>7. page'[pa] = page[e.fr] /\ \A f \in Frame \ {pa} : page'[f] = page[f]
  BY <1>1 DEF TypeOK
<1>8. Within({p}) /\ Counting
  BY <1>1, <1>5, <1>7 DEF Within, Spare, Counting, TypeOK
<1>9. \A d \in Space(p) : Steady(d)
  BY DEF Steady
<1>10. \A i, j \in Idx : Look(cr3[p], i, j)' = Look(cr3[p], i, j)
  BY <1>1, <1>9, OwnLooks
<1>11. Found(p)'
  <2>1. Found(p)
    BY <1>1, <1>2 DEF Mem, Faulting
  <2>2. page'[e.fr] = page[e.fr]
    BY <1>1, <1>2, <1>6, <1>7
  <2>3. Look(cr3[p], at[p].va[1], at[p].va[2])' = e
    BY <1>1, <1>4, <1>10
  <2>. QED BY <1>1, <1>2, <1>4, <1>7, <2>1, <2>2, <2>3 DEF Found
<1>12. Forking(p)' /\ CopyingPt(p)' /\ Faulting(p)' /\ Clearing(p)'
  BY <1>4, <1>11 DEF Forking, CopyingPt, Faulting, Clearing
<1>13. MemInv' /\ \A q \in Proc \ {p} : Same(q)
  BY <1>1, <1>3, <1>4, <1>8, <1>9, <1>12, QuietMem DEF Lives
<1>14. Same(p)
  <2>. SUFFICES ASSUME NEW va \in Touched PROVE Reads(p, va)' = Reads(p, va)
    BY <1>1, <1>4 DEF Same, Lives
  <2>1. PICK b : b = cr3[p] /\ b = cr3'[p]
    BY <1>1
  <2>2. va[1] \in Idx /\ va[2] \in Idx
    BY DEF VmmAssumption, VA
  <2>3. Look(b, va[1], va[2])' = Look(b, va[1], va[2])
    BY <1>1, <1>9, <2>1, <2>2, SteadyLook DEF Space
  <2>4. Private(Look(b, va[1], va[2])) => page'[Look(b, va[1], va[2]).fr] = page[Look(b, va[1], va[2]).fr]
    BY <1>1, <1>6, <1>7, <2>1, <2>2, LookTyped, PrivateEntries
  <2>. QED BY <1>1, <1>4, <2>1, <2>3, <2>4, SameReading
<1>. QED BY <1>13, <1>14

\* clear_pd and destroy_pd pass an entry that stays, or come to a table that does.
LEMMA ClearPdeStaysMem ==
  ASSUME VmmAssumption, VmmInv, VmmInv', MemInv, NEW p \in Proc,
         at[p].job \in {"exec", "exit"}, at[p].pc = "dir", at[p].dirs # {},
         FramesSame, UNCHANGED <<cr3, table>>,
         \/ /\ ~Private(Pde(p, Dir(p)))
            /\ at' = [at EXCEPT ![p].dirs = @ \ {Dir(p)}]
         \/ /\ at[p].job = "exec" /\ Mixed(Pde(p, Dir(p)))
            /\ at' = [at EXCEPT ![p].pc = "clearpt", ![p].ptes = Idx]
  PROVE  MemInv' /\ \A q \in Proc : Same(q)
<1>. DEFINE i == Dir(p)
<1>1. /\ at[p] \in Activation /\ cr3[p] \in Frame /\ TypeOK /\ i \in Idx
      /\ Mem(p) /\ Formed(cr3[p])
  BY Acting, DirTyped DEF MemInv, Mem, Space
<1>2. /\ OthersIdle(p)
      /\ \/ at'[p] = [at[p] EXCEPT !.dirs = @ \ {i}] /\ ~Private(Pde(p, i))
         \/ /\ at'[p] = [at[p] EXCEPT !.pc = "clearpt", !.ptes = Idx]
            /\ at[p].job = "exec" /\ Mixed(Pde(p, i))
  BY <1>1 DEF TypeOK, OthersIdle
<1>3. /\ at'[p].job = at[p].job /\ at'[p].pa = at[p].pa /\ at'[p].new = at[p].new
      /\ \/ at'[p].dirs = at[p].dirs \ {i} /\ at'[p].pc = "dir" /\ ~Private(Pde(p, i))
         \/ /\ at'[p].dirs = at[p].dirs /\ at'[p].pc = "clearpt" /\ at'[p].ptes = Idx
            /\ Mixed(Pde(p, i))
  BY ONLY <1>1, <1>2, at[p].pc = "dir" DEF Activation
<1>4. Within({}) /\ Counting
  BY <1>1 DEF Within, FramesSame, Counting, TypeOK
<1>5. Within({p}) /\ Undisturbed(p)
  BY <1>4, WithinNone
<1>6. /\ \A k, j \in Idx : Look(cr3[p], k, j)' = Look(cr3[p], k, j)
      /\ \A k \in Idx : table'[cr3[p]][k] = table[cr3[p]][k]
  BY <1>1, <1>5, OwnLooks DEF Undisturbed
<1>7. Clearing(p)'
  <2>1. CASE at'[p].dirs = at[p].dirs \ {i} /\ at'[p].pc = "dir" /\ ~Private(Pde(p, i))
    <3>1. ~Private(table[cr3[p]][i]) /\ \A j \in Idx : ~Private(Look(cr3[p], i, j))
      BY <1>1, <2>1, NotPrivateLook DEF Pde
    <3>. QED BY <1>1, <1>3, <1>6, <2>1, <3>1 DEF Mem, Clearing
  <2>2. CASE /\ at'[p].dirs = at[p].dirs /\ at'[p].pc = "clearpt" /\ at'[p].ptes = Idx
             /\ Mixed(Pde(p, i))
    <3>1. Dir(p)' = i
      BY <1>3, <2>2 DEF Dir
    <3>2. Pde(p, Dir(p))' = Pde(p, i)
      BY <3>1 DEF Pde
    <3>. QED BY <1>1, <1>3, <1>6, <2>2, <3>1, <3>2 DEF Mem, Clearing
  <2>. QED BY <1>3, <2>1, <2>2
<1>8. Forking(p)' /\ CopyingPt(p)' /\ Faulting(p)'
  BY <1>3 DEF Forking, CopyingPt, Faulting
<1>9. MemInv' /\ \A q \in Proc \ {p} : Same(q)
  BY <1>1, <1>2, <1>3, <1>4, <1>5, <1>7, <1>8, QuietMem DEF Lives, Undisturbed
<1>10. Same(p)
  BY <1>3, <1>5, SameReads DEF Same, Lives
<1>. QED BY <1>9, <1>10

\* clear_pt is done: the table has no user's page left.
LEMMA ClearedPtMem ==
  ASSUME VmmAssumption, VmmInv, VmmInv', MemInv, NEW p \in Proc, ClearedPt(p)
  PROVE  MemInv' /\ \A q \in Proc : Same(q)
<1>. DEFINE i == Dir(p)
<1>1. /\ at[p].pc = "clearpt" /\ at[p].ptes = {} /\ at[p] \in Activation /\ cr3[p] \in Frame
      /\ at[p].job = "exec" /\ at[p].dirs # {} /\ TypeOK
      /\ FramesSame /\ UNCHANGED <<cr3, table>> /\ Mem(p)
  BY ActingPc, Acting DEF ClearedPt, VmmInv, TypeOK, Coherent, MemInv
<1>2. at'[p] = [at[p] EXCEPT !.pc = "dir", !.dirs = @ \ {i}] /\ OthersIdle(p) /\ i \in Idx
  BY <1>1, DirTyped DEF TypeOK, OthersIdle, ClearedPt
<1>3. /\ at'[p].job = "exec" /\ at'[p].pa = at[p].pa /\ at'[p].new = at[p].new
      /\ at'[p].dirs = at[p].dirs \ {i} /\ at'[p].pc = "dir"
  BY ONLY <1>1, <1>2 DEF Activation
<1>4. Within({}) /\ Counting
  BY <1>1 DEF Within, FramesSame, Counting, TypeOK
<1>5. Within({p}) /\ Undisturbed(p)
  BY <1>4, WithinNone
<1>6. \A k, j \in Idx : Look(cr3[p], k, j)' = Look(cr3[p], k, j)
  BY <1>1, <1>5, OwnLooks DEF Undisturbed
<1>7. Clearing(p)'
  BY <1>1, <1>2, <1>3, <1>6 DEF Mem, Clearing
<1>8. Forking(p)' /\ CopyingPt(p)' /\ Faulting(p)'
  BY <1>3 DEF Forking, CopyingPt, Faulting
<1>9. MemInv' /\ \A q \in Proc \ {p} : Same(q)
  BY <1>1, <1>2, <1>3, <1>4, <1>5, <1>7, <1>8, QuietMem DEF Lives, Undisturbed
<1>10. Same(p)
  BY <1>1, <1>3, <1>5, SameReads DEF Same, Lives
<1>. QED BY <1>9, <1>10

\* exec returns to a program whose address space is empty.
LEMMA ExecedMem ==
  ASSUME VmmAssumption, VmmInv, VmmInv', MemInv, NEW p \in Proc, Execed(p)
  PROVE  MemInv' /\ \A q \in Proc : Same(q)
<1>1. /\ at[p].job = "exec" /\ at[p].dirs = {} /\ at[p] \in Activation /\ cr3[p] \in Frame
      /\ TypeOK /\ FramesSame /\ UNCHANGED <<cr3, table>> /\ Mem(p)
  BY Acting DEF Execed, At, VmmInv, MemInv
<1>2. at'[p] = Idle(p, "user") /\ OthersIdle(p)
  BY <1>1 DEF TypeOK, OthersIdle, Execed, Begin
<1>3. /\ at'[p].job = "user" /\ at'[p].pa = NoFrame /\ at'[p].new = NoFrame /\ at'[p].pc = "none"
  BY ONLY <1>2 DEF Idle
<1>4. Within({}) /\ Counting
  BY <1>1 DEF Within, FramesSame, Counting, TypeOK
<1>5. Within({p}) /\ Undisturbed(p)
  BY <1>4, WithinNone
<1>6. Forking(p)' /\ CopyingPt(p)' /\ Faulting(p)' /\ Clearing(p)'
  BY <1>3 DEF Forking, CopyingPt, Faulting, Clearing
<1>7. MemInv' /\ \A q \in Proc \ {p} : Same(q)
  BY <1>1, <1>2, <1>3, <1>4, <1>5, <1>6, QuietMem DEF Lives, Undisturbed
<1>8. Same(p)
  <2>. SUFFICES ASSUME NEW va \in Touched PROVE Reads(p, va)' = Reads(p, va)
    BY <1>1, <1>3 DEF Same, Lives
  <2>1. PICK b : b = cr3[p] /\ b = cr3'[p]
    BY <1>1
  <2>2. va[1] \in Idx /\ va[2] \in Idx
    BY DEF VmmAssumption, VA
  <2>3. Look(b, va[1], va[2])' = Look(b, va[1], va[2])
    BY <1>1, <1>5, <2>1, <2>2, SteadyLook DEF Space, Undisturbed
  <2>4. ~Private(Look(b, va[1], va[2]))
    BY <1>1, <2>1, <2>2 DEF Mem, Clearing
  <2>. QED BY <1>1, <1>3, <2>1, <2>3, <2>4, ReadsLook DEF Private, Present
<1>. QED BY <1>7, <1>8

\* A program's write reaches a page that is its own, and only that.
LEMMA WriteMem ==
  ASSUME VmmAssumption, VmmInv, VmmInv', MemInv, NEW p \in Proc, Write(p)
  PROVE  /\ MemInv' /\ \A q \in Proc \ {p} : Same(q)
         /\ Lives(p) /\ Lives(p)'
         /\ \E va \in Touched, v \in Val :
              \A a \in Touched : Reads(p, a)' = IF a = va THEN v ELSE Reads(p, a)
<1>1. /\ at[p].job = "user" /\ at[p] \in Activation /\ cr3[p] \in Frame
      /\ TypeOK /\ UNCHANGED <<table, rc, cr3, at>> /\ Mem(p) /\ Formed(cr3[p]) /\ Sealed(cr3[p])
  BY Acting DEF Write, VmmInv, MemInv, Mem, Lives, Space
<1>2. PICK va \in Touched, v \in Val : /\ Writable(p, va)
                                       /\ page' = [page EXCEPT ![Pte(p, va).fr] = v]
  BY DEF Write
<1>. DEFINE e == Look(cr3[p], va[1], va[2])
            g == table[cr3[p]][va[1]].fr
<1>3. /\ va[1] \in Idx /\ va[2] \in Idx /\ va = <<va[1], va[2]>> /\ e = Pte(p, va)
  BY PteLook DEF VmmAssumption, VA
<1>4. Eager(e) /\ e.fr \in Frame /\ e \in Entry
  <2>1. Present(e) /\ {"US", "RW"} \subseteq e.flags
    BY <1>2, <1>3 DEF Writable
  <2>2. PageEntry(va[1], va[2], e)
    BY <1>1, <1>3 DEF Formed
  <2>3. e # DeviceEntry
    BY <2>1 DEF DeviceEntry, Ent, KernelFlags
  <2>4. Eager(e)
    BY <2>1, <2>2, <2>3 DEF PageEntry, Eager, Present, Absent, Ent
  <2>. QED BY <1>1, <1>3, <2>4, LookTyped, PrivateEntries DEF Eager
<1>5. Under(g, cr3[p], va[1]) /\ g \in Frame /\ table[g][va[2]] = e /\ rc[e.fr] = 1
  <2>1. Sole(p, e.fr)
    BY <1>1, <1>3, <1>4 DEF Sole, Space
  <2>. QED BY <1>1, <1>3, <1>4, <2>1, LookSlot, EagerLook DEF MemInv, SoleOnce
<1>6. page'[e.fr] = v /\ \A f \in Frame \ {e.fr} : page'[f] = page[f]
  BY <1>1, <1>2, <1>3, <1>4 DEF TypeOK
<1>7. Mine({p}, g)
  BY <1>1, <1>3, <1>5 DEF Mine, Space
<1>8. Within({p}) /\ Counting
  BY <1>1, <1>3, <1>5, <1>6, <1>7 DEF Within, Spare, Counting, TypeOK
<1>9. \A d \in Space(p) : Steady(d)
  BY <1>1 DEF Steady
<1>10. Forking(p)' /\ CopyingPt(p)' /\ Faulting(p)' /\ Clearing(p)'
  <2>1. at'[p] = at[p] /\ at[p].pc # "copypt" /\ at[p].pc # "clearpt"
    BY <1>1 DEF VmmInv, Records, Record
  <2>. QED BY <1>1, <2>1 DEF Forking, CopyingPt, Faulting, Clearing
<1>11. MemInv' /\ \A q \in Proc \ {p} : Same(q)
  BY <1>1, <1>8, <1>9, <1>10, QuietMem DEF Lives, OthersIdle
<1>12. ASSUME NEW a \in Touched PROVE Reads(p, a)' = IF a = va THEN v ELSE Reads(p, a)
  <2>. DEFINE b == Look(cr3[p], a[1], a[2])
  <2>1. PICK d : d = cr3[p] /\ d = cr3'[p]
    BY <1>1
  <2>2. a[1] \in Idx /\ a[2] \in Idx /\ a = <<a[1], a[2]>>
    BY DEF VmmAssumption, VA
  <2>3. Look(d, a[1], a[2])' = Look(d, a[1], a[2])
    BY <1>1, <1>9, <2>1, <2>2, SteadyLook DEF Space
  <2>4. CASE a = va
    <3>1. Look(d, a[1], a[2]) = e
      BY <2>1, <2>4
    <3>2. Private(e)
      BY <1>4 DEF Eager
    <3>. HIDE DEF e
    <3>. QED BY <1>1, <1>6, <2>1, <2>3, <2>4, <3>1, <3>2, ReadsLook DEF Private, Present
  <2>5. CASE a # va
    <3>1. Private(b) => b.fr \in Frame /\ b.fr # e.fr
      <4>. SUFFICES ASSUME Private(b), b.fr = e.fr PROVE FALSE
        BY <1>1, <2>2, LookTyped, PrivateEntries
      <4>1. table[cr3[p]][a[1]].fr \in Frame /\ b = table[table[cr3[p]][a[1]].fr][a[2]]
        BY <1>4, <2>2, LookSlot
      <4>2. table[cr3[p]][a[1]].fr = g /\ a[2] = va[2]
        <5>1. \A c, h \in Frame, i, j \in Idx :
                 table[c][i].fr = e.fr /\ table[h][j].fr = e.fr => c = h /\ i = j
          BY <1>4, <1>5, OneReference
        <5>2. table[g][va[2]].fr = e.fr /\ table[table[cr3[p]][a[1]].fr][a[2]].fr = e.fr
          BY <1>5, <4>1
        <5>. QED BY <1>3, <1>5, <2>2, <4>1, <5>1, <5>2
      <4>3. Exclusive(g)
        BY <1>1, <1>3, <1>5 DEF Exclusive, Dirs
      <4>4. a[1] = va[1]
        BY <1>1, <1>3, <1>5, <2>2, <4>2, <4>3, Alone
      <4>. QED BY <1>3, <2>2, <2>5, <4>2, <4>4
    <3>2. Private(b) => page'[b.fr] = page[b.fr]
      BY <1>6, <3>1
    <3>. QED BY <1>1, <2>1, <2>3, <2>5, <3>2, SameReading
  <2>. QED BY <2>4, <2>5
<1>. QED BY <1>1, <1>11, <1>12 DEF Lives

-----------------------------------------------------------------------------
(* Steps that write a directory or a table of the process's own.            *)

\* A sealed directory has something where the device page is.
LEMMA DevicePresent ==
  ASSUME VmmAssumption, NEW d, Sealed(d), NEW i \in Idx, DeviceDir(i)
  PROVE  Present(table[d][i])
<1>1. PICK a \in Apic : a[1] = i
  BY DEF DeviceDir
<1>2. Look(d, i, a[2]) # Absent
  BY <1>1 DEF Sealed, DeviceEntry, Absent, Ent, VmmAssumption
<1>. QED BY <1>2 DEF Look

\* A fault that gives its process a table of its own, showing the same pages.
LEMMA TableMem ==
  ASSUME VmmAssumption, VmmInv, VmmInv', MemInv, NEW p \in Proc, OthersIdle(p), UNCHANGED cr3,
         at[p].job = "fault", NEW i \in Idx, NEW e,
         Wrote(cr3[p], i, e), e.fr # cr3[p], DirEntry(i, e), "RW" \in e.flags,
         \A j \in Idx : Look(cr3[p], i, j) = IF Present(e) THEN PT(e)[j] ELSE Absent,
         Counting, \A f \in Frame : page'[f] = page[f] \/ rc[f] = 0,
         at'[p].job = "fault", at'[p].va = at[p].va, at'[p].copy = at[p].copy,
         at'[p].pa = at[p].pa, at'[p].new = at[p].new,
         at[p].pc # "swap", at'[p].pc \notin {"swap", "copypt", "clearpt"}
  PROVE  MemInv' /\ \A q \in Proc : Same(q)
<1>1. /\ at[p] \in Activation /\ cr3[p] \in Frame /\ TypeOK /\ Coherent(p) /\ Mem(p)
      /\ at[p].new = NoFrame /\ cr3[p] \in Space(p)
  BY Acting DEF MemInv, TypeOK, Space, Record, Activation
<1>2. PICK d \in Space(p) : d = cr3[p] /\ d = cr3'[p] /\ d \in Frame
  BY <1>1
<1>3. Space(p)' = {d} /\ Space(p) = {d}
  BY <1>1, <1>2 DEF Space, VmmAssumption
<1>4. /\ table'[d][i] = e /\ \A k \in Idx \ {i} : table'[d][k] = table[d][k]
      /\ \A k, j \in Idx : Look(d, k, j)' = Look(d, k, j)
  BY <1>2, PdeWrite
<1>5. Formed(d) /\ Sealed(d)
  BY <1>1, <1>2 DEF Mem, Lives
<1>6. Formed(d)'
  BY <1>4, <1>5 DEF Formed
<1>7. Sealed(d)'
  <2>1. \A a \in Apic : a[1] \in Idx /\ a[2] \in Idx
    BY DEF VmmAssumption, VA
  <2>. QED BY <1>4, <1>5, <2>1 DEF Sealed
<1>8. Within({p})
  <2>1. \A g \in Frame : table'[g] = table[g] \/ g = cr3[p]
    BY DEF Wrote
  <2>. QED BY <2>1 DEF Within, Mine, Spare, Rooted
<1>9. Found(p)'
  <2>1. /\ at[p].va[1] \in Idx /\ at[p].va[2] \in Idx /\ at[p].pa \in Frame
    BY <1>1 DEF Coherent, VmmAssumption, VA
  <2>2. page'[at[p].pa] = page[at[p].pa]
    BY <2>1, Unreferenced
  <2>3. PICK v : v = at[p].va
    OBVIOUS
  <2>4. Look(d, v[1], v[2])' = Look(d, v[1], v[2])
    BY <1>4, <2>1, <2>3
  <2>5. Found(p)
    BY <1>1 DEF Mem, Faulting
  <2>. QED BY <1>2, <2>2, <2>3, <2>4, <2>5, FoundKept
<1>10. Mem(p)'
  <2>1. Forking(p)' /\ CopyingPt(p)' /\ Faulting(p)' /\ Clearing(p)'
    BY <1>9 DEF Forking, CopyingPt, Faulting, Clearing
  <2>2. Lives(p)' => Sealed(cr3[p])'
    <3>1. cr3[p]' = d
      BY <1>2
    <3>. QED BY <1>7, <3>1 DEF Sealed
  <2>. QED BY <1>3, <1>6, <2>1, <2>2 DEF Mem
<1>11. \A f \in Frame : Sole(p, f)' => Sole(p, f)
  BY <1>3, <1>4 DEF Sole
<1>12. MemInv' /\ \A q \in Proc \ {p} : Same(q)
  BY <1>8, <1>10, <1>11, LocalMem
<1>13. Same(p)
  <2>. SUFFICES ASSUME NEW va \in Touched PROVE Reads(p, va)' = Reads(p, va)
    BY DEF Same, Lives
  <2>1. va[1] \in Idx /\ va[2] \in Idx
    BY DEF VmmAssumption, VA
  <2>2. Private(Look(d, va[1], va[2])) =>
          page'[Look(d, va[1], va[2]).fr] = page[Look(d, va[1], va[2]).fr]
    <3>. SUFFICES ASSUME Private(Look(d, va[1], va[2]))
                  PROVE  page'[Look(d, va[1], va[2]).fr] = page[Look(d, va[1], va[2]).fr]
      OBVIOUS
    <3>1. Look(d, va[1], va[2]).fr \in Frame
      BY <1>1, <1>2, <2>1, LookTyped, PrivateEntries
    <3>2. table[d][va[1]].fr \in Frame /\ table[table[d][va[1]].fr][va[2]].fr = Look(d, va[1], va[2]).fr
      BY <2>1, <3>1, LookSlot
    <3>3. rc[Look(d, va[1], va[2]).fr] # 0
      BY <2>1, <3>1, <3>2, Unreferenced
    <3>. QED BY <3>1, <3>3
  <2>. QED BY <1>2, <1>4, <2>1, <2>2, SameReading
<1>. QED BY <1>12, <1>13

\* map, map_copy: a new page table.
LEMMA FixPdeNewMem ==
  ASSUME VmmAssumption, VmmInv, VmmInv', MemInv, NEW p \in Proc, At(p, "fault", "pde"),
         UNCHANGED cr3, ~Present(Pde(p, Dir(p))), AllocFrame,
         table' = [table EXCEPT ![cr3[p]][Dir(p)] = Ent(Fresh, UserFlags)], Goto(p, "pte")
  PROVE  MemInv' /\ \A q \in Proc : Same(q)
<1>. DEFINE i == Dir(p)
            e == Ent(Fresh, UserFlags)
<1>1. /\ at[p].job = "fault" /\ at[p].pc = "pde" /\ at[p] \in Activation /\ cr3[p] \in Frame
      /\ TypeOK /\ i \in Idx /\ Mem(p) /\ Sealed(cr3[p]) /\ ~Present(table[cr3[p]][i])
  <2>1. at[p].job = "fault" /\ at[p].pc = "pde" /\ TypeOK
    BY DEF At, VmmInv
  <2>. QED BY <2>1, Acting, DirTyped DEF MemInv, Mem, Lives, Pde
<1>2. /\ at'[p] = [at[p] EXCEPT !.pc = "pte"] /\ OthersIdle(p)
  BY <1>1 DEF TypeOK, OthersIdle, Goto
<1>3. /\ at'[p].job = "fault" /\ at'[p].pc = "pte" /\ at'[p].pa = at[p].pa
      /\ at'[p].new = at[p].new /\ at'[p].va = at[p].va /\ at'[p].copy = at[p].copy
  BY ONLY <1>1, <1>2 DEF Activation
<1>4. /\ Fresh \in Frame /\ table[Fresh] = EmptyTable /\ Counting /\ Fresh # cr3[p]
      /\ \A f \in Frame : page'[f] = page[f] \/ rc[f] = 0
  BY <1>1, AllocatedPage, Unreferenced
<1>5. /\ Present(e) /\ Private(e) /\ e.fr = Fresh /\ PT(e) = EmptyTable
      /\ "RW" \in e.flags /\ "US" \in e.flags /\ "G" \notin e.flags
  BY <1>4 DEF Present, Private, Ent, UserFlags, PT, VmmAssumption
<1>6. DirEntry(i, e)
  BY <1>1, <1>5, DevicePresent DEF DirEntry
<1>7. \A j \in Idx : Look(cr3[p], i, j) = IF Present(e) THEN PT(e)[j] ELSE Absent
  BY <1>1, <1>5 DEF Look, EmptyTable
<1>. HIDE DEF e
<1>8. Wrote(cr3[p], i, e)
  BY DEF Wrote, e
<1>. QED BY <1>1, <1>2, <1>3, <1>4, <1>5, <1>6, <1>7, <1>8, TableMem

\* map, map_copy: the copied table.
LEMMA InstallPtMem ==
  ASSUME VmmAssumption, VmmInv, VmmInv', MemInv, NEW p \in Proc, InstallPt(p)
  PROVE  MemInv' /\ \A q \in Proc : Same(q)
<1>. DEFINE i == Dir(p)
            t == at[p].pde
            d == at[p].dst
            e == Ent(d, t.flags \cup UserFlags)
<1>1. /\ at[p].job = "fault" /\ at[p].pc = "copypt" /\ at[p].ptes = {} /\ FramesSame
      /\ at[p] \in Activation /\ cr3[p] \in Frame /\ TypeOK /\ i \in Idx
      /\ Pde(p, i) = t /\ d \in Frame /\ d # cr3[p] /\ UNCHANGED cr3
      /\ CopyingPt(p) /\ Mem(p) /\ Formed(cr3[p])
  BY Filling DEF InstallPt, At, MemInv, Mem, Space
<1>2. /\ OthersIdle(p) /\ Wrote(cr3[p], i, e)
      /\ at'[p] = [at[p] EXCEPT
                      !.pc = IF Private(t) THEN "drop" ELSE "pte",
                      !.old = IF Private(t) THEN t.fr ELSE NoFrame,
                      !.dst = NoFrame, !.pde = Absent]
  BY <1>1 DEF InstallPt, TypeOK, OthersIdle, Wrote
<1>3. /\ at'[p].job = "fault" /\ at'[p].pc \in {"pte", "drop"} /\ at'[p].pa = at[p].pa
      /\ at'[p].new = at[p].new /\ at'[p].va = at[p].va /\ at'[p].copy = at[p].copy
  BY ONLY <1>1, <1>2 DEF Activation
<1>4. Counting /\ \A f \in Frame : page'[f] = page[f] \/ rc[f] = 0
  BY <1>1 DEF Counting, FramesSame, TypeOK
<1>5. /\ Present(e) /\ Private(e) /\ e.fr = d /\ PT(e) = table[d]
      /\ e.flags = t.flags \cup UserFlags
  BY <1>1 DEF Present, Private, Ent, UserFlags, PT, VmmAssumption
<1>6. DirEntry(i, e) /\ "RW" \in e.flags
  <2>1. DirEntry(i, t) /\ Present(t)
    BY <1>1 DEF Formed, CopyingPt, Pde
  <2>2. t = Kpd[i] => DeviceDir(i) /\ t.flags = {"RW", "G"}
    BY <1>1, <2>1 DEF Kpd, DeviceDir, Present, Absent, Ent, KernelFlags
  <2>3. t # Absent
    BY <2>1 DEF Present, Absent, Ent
  <2>. QED BY <1>5, <2>1, <2>2, <2>3 DEF DirEntry, UserFlags
<1>7. \A j \in Idx : Look(cr3[p], i, j) = IF Present(e) THEN PT(e)[j] ELSE Absent
  BY <1>1, <1>5 DEF CopyingPt
<1>8. e.fr # cr3[p]
  BY <1>1, <1>5
<1>9. at[p].pc # "swap" /\ at'[p].pc \notin {"swap", "copypt", "clearpt"}
  BY <1>1, <1>3
<1>10. at[p].job = "fault" /\ UNCHANGED cr3 /\ i \in Idx /\ OthersIdle(p) /\ Wrote(cr3[p], i, e)
  BY <1>1, <1>2
<1>. HIDE DEF e, t, d, i
<1>. QED BY <1>3, <1>4, <1>6, <1>7, <1>8, <1>9, <1>10, TableMem

\* The end of map and of map_copy: the new page, which holds what the program
\* is to find, goes into the process's own table.
LEMMA MapMem ==
  ASSUME VmmAssumption, VmmInv, VmmInv', MemInv, NEW p \in Proc, OthersIdle(p), UNCHANGED cr3,
         at[p].job = "fault", at[p].pc \in {"pte", "swap"},
         NEW v \in Touched, v = at[p].va, v \notin Apic, NEW e, e = Look(cr3[p], v[1], v[2]),
         Wrote(Pde(p, v[1]).fr, v[2], Ent(at[p].pa, UserFlags)), at'[p] = Idle(p, "user"),
         \A f \in Frame : rc'[f] <= rc[f], rc'[at[p].pa] = rc[at[p].pa],
         \A f \in Frame : page'[f] = page[f] \/ (rc[f] = 1 /\ Private(e) /\ f = e.fr),
         page[at[p].pa] = IF Private(e) THEN page[e.fr] ELSE Zero
  PROVE  MemInv' /\ (\A q \in Proc : Same(q)) /\ Writable(p, v)'
<1>. DEFINE pa == at[p].pa
            n == Ent(pa, UserFlags)
<1>1. /\ at[p] \in Activation /\ cr3[p] \in Frame /\ TypeOK /\ Coherent(p) /\ Mem(p)
      /\ at[p].new = NoFrame /\ pa \in Frame /\ Eager(Pde(p, v[1]))
      /\ v[1] \in Idx /\ v[2] \in Idx /\ v = <<v[1], v[2]>>
  <2>1. at[p] \in Activation /\ cr3[p] \in Frame /\ TypeOK /\ Coherent(p) /\ Record(p) /\ Progress(p)
    BY Acting DEF TypeOK
  <2>. QED BY <2>1 DEF MemInv, Coherent, Record, Progress, Activation, VmmAssumption, VA
<1>2. at'[p].job = "user" /\ at'[p].pc = "none" /\ at'[p].pa = NoFrame /\ at'[p].new = NoFrame
  BY DEF Idle
<1>3. PICK d \in Space(p) : d = cr3[p] /\ d = cr3'[p] /\ d \in Frame
  BY <1>1 DEF Space
<1>4. Space(p)' = {d} /\ Space(p) = {d}
  BY <1>1, <1>2, <1>3 DEF Space, VmmAssumption
<1>5. PICK g \in Frame : Under(g, d, v[1]) /\ g = Pde(p, v[1]).fr
  <2>1. Pde(p, v[1]) \in Entry /\ Private(Pde(p, v[1]))
    BY <1>1, PdeTyped DEF Eager
  <2>2. Pde(p, v[1]).fr \in Frame
    BY <2>1, PrivateEntries
  <2>. QED BY <1>1, <1>3, <2>2 DEF Under, Pde
<1>6. /\ table'[d] = table[d] /\ Look(d, v[1], v[2])' = n
      /\ \A i, j \in Idx : <<i, j>> # v => Look(d, i, j)' = Look(d, i, j)
  BY <1>1, <1>3, <1>5, PteWrite
<1>7. /\ Private(n) /\ n.fr = pa /\ {"RW", "US"} \subseteq n.flags
  BY <1>1 DEF Private, Present, Ent, UserFlags, VmmAssumption
<1>. HIDE DEF n
<1>8. Formed(d) /\ Sealed(d)
  BY <1>1, <1>3 DEF Mem, Lives, Space
<1>9. Formed(d)'
  <2>1. ASSUME NEW i \in Idx, NEW j \in Idx
        PROVE  /\ PageEntry(i, j, Look(d, i, j))'
               /\ Eager(Look(d, i, j))' => "RW" \in table[d][i].flags
    <3>1. CASE <<i, j>> = v
      <4>1. i = v[1] /\ j = v[2]
        BY <1>1, <3>1
      <4>2. Look(d, i, j)' = n
        BY <1>6, <4>1
      <4>3. PageEntry(i, j, Look(d, i, j))'
        BY <1>7, <3>1, <4>2 DEF PageEntry
      <4>4. "RW" \in table[d][i].flags
        BY <1>1, <1>3, <4>1 DEF Eager, Pde
      <4>. QED BY <4>3, <4>4
    <3>2. CASE <<i, j>> # v
      BY <1>6, <1>8, <3>2 DEF Formed, PageEntry, Eager, Private, Present
    <3>. QED BY <3>1, <3>2
  <2>2. \A i \in Idx : DirEntry(i, table[d][i])'
    BY <1>6, <1>8 DEF Formed
  <2>. QED BY <1>6, <2>1, <2>2 DEF Formed
<1>10. Sealed(d)'
  <2>1. \A a \in Apic : a[1] \in Idx /\ a[2] \in Idx /\ <<a[1], a[2]>> # v
    BY DEF VmmAssumption, VA
  <2>. QED BY <1>6, <1>8, <2>1 DEF Sealed
<1>11. Mem(p)'
  <2>1. Forking(p)' /\ CopyingPt(p)' /\ Faulting(p)' /\ Clearing(p)'
    BY <1>2 DEF Forking, CopyingPt, Faulting, Clearing
  <2>2. cr3[p]' = d
    BY <1>3
  <2>. QED BY <1>4, <1>9, <1>10, <2>1, <2>2 DEF Mem, Sealed
<1>12. Look(d, v[1], v[2]) = e /\ (Private(e) => e.fr \in Frame /\ table[g][v[2]] = e)
  <2>1. Look(d, v[1], v[2]) = e /\ (Private(e) => e.fr \in Frame)
    BY <1>1, <1>3, LookTyped, PrivateEntries
  <2>2. ASSUME Private(e) PROVE table[g][v[2]] = e
    <3>1. Look(d, v[1], v[2]).fr \in Frame
      BY <2>1, <2>2
    <3>2. v[1] \in Idx /\ v[2] \in Idx
      BY <1>1
    <3>3. Look(d, v[1], v[2]) = table[table[d][v[1]].fr][v[2]]
      BY ONLY VmmAssumption, <3>1, <3>2, LookSlot
    <3>4. table[d][v[1]].fr = g
      BY <1>5 DEF Under
    <3>. QED BY <2>1, <3>3, <3>4
  <2>. QED BY <2>1, <2>2
<1>13. Within({p}) /\ Counting
  <2>1. Mine({p}, g)
    BY <1>4, <1>5, <1>1 DEF Mine
  <2>2. \A f \in Frame \ {g} : table'[f] = table[f]
    BY <1>5 DEF Wrote
  <2>. QED BY <1>1, <1>12, <2>1, <2>2 DEF Within, Spare, Counting
<1>14. rc[pa] = 1
  BY <1>1 DEF MemInv, SoleOnce, Sole
<1>15. ASSUME NEW f \in Frame, Sole(p, f)' PROVE rc'[f] = 1 \/ Sole(p, f)
  <2>1. PICK i, j \in Idx : Eager(Look(d, i, j))' /\ (Look(d, i, j).fr)' = f
    BY <1>2, <1>4, <1>15 DEF Sole, VmmAssumption
  <2>2. CASE <<i, j>> = v
    BY <1>1, <1>6, <1>7, <1>14, <2>1, <2>2
  <2>3. CASE <<i, j>> # v
    BY <1>4, <1>6, <2>1, <2>3 DEF Sole, Eager, Private, Present
  <2>. QED BY <2>2, <2>3
<1>16. MemInv' /\ \A q \in Proc \ {p} : Same(q)
  BY <1>11, <1>13, <1>15, LocalMem
<1>17. ASSUME NEW a \in Touched PROVE Reads(p, a)' = Reads(p, a)
  <2>. DEFINE b == Look(d, a[1], a[2])
  <2>1. a[1] \in Idx /\ a[2] \in Idx /\ a = <<a[1], a[2]>>
    BY DEF VmmAssumption, VA
  <2>2. CASE a = v
    <3>1. Look(d, a[1], a[2]) = e /\ Look(d, a[1], a[2])' = n
      BY <1>6, <1>12, <2>2
    <3>2. page'[pa] = page[pa]
      <4>1. Private(e) => e.fr # pa
        BY <1>1, <1>5, <1>12, <1>14, OneReference
      <4>. QED BY <1>1, <4>1
    <3>3. Reads(p, a) = IF Private(e) THEN page[e.fr] ELSE Zero
      BY <1>3, <3>1, ReadsLook
    <3>4. Private(Look(d, a[1], a[2]))' /\ (Look(d, a[1], a[2]).fr)' = pa
      BY <1>7, <3>1 DEF Private, Present
    <3>5. Reads(p, a)' = page'[pa]
      BY <1>2, <1>3, <3>4, ReadsLook
    <3>. QED BY <3>2, <3>3, <3>5
  <2>3. CASE a # v
    <3>1. ASSUME Private(b) PROVE page'[b.fr] = page[b.fr]
      <4>1. b.fr \in Frame
        BY <1>1, <1>3, <2>1, <3>1, LookTyped, PrivateEntries
      <4>2. table[d][a[1]].fr \in Frame /\ b = table[table[d][a[1]].fr][a[2]]
        BY <2>1, <4>1, LookSlot
      <4>3. ASSUME rc[b.fr] = 1, Private(e), b.fr = e.fr PROVE FALSE
        <5>1. table[d][a[1]].fr = g /\ a[2] = v[2]
          <6>1. \A c, h \in Frame, i, j \in Idx :
                   table[c][i].fr = b.fr /\ table[h][j].fr = b.fr => c = h /\ i = j
            BY <4>1, <4>3, OneReference
          <6>2. table[g][v[2]].fr = b.fr /\ table[table[d][a[1]].fr][a[2]].fr = b.fr
            BY <1>12, <4>2, <4>3
          <6>3. table[d][a[1]].fr \in Frame /\ a[2] \in Idx /\ g \in Frame /\ v[2] \in Idx
            BY <1>1, <1>5, <2>1, <4>2
          <6>. QED BY <6>1, <6>2, <6>3
        <5>2. Exclusive(g)
          BY <1>1, <1>3, <1>5, SpaceDirs DEF Exclusive
        <5>3. a[1] = v[1]
          <6>1. \A c, h \in Frame, i, j \in Idx :
                   table[c][i].fr = g /\ table[h][j].fr = g => c = h /\ i = j
            BY <1>5, <5>2, Alone
          <6>2. table[d][v[1]].fr = g
            BY <1>5 DEF Under
          <6>. QED BY <1>1, <1>3, <2>1, <5>1, <6>1, <6>2
        <5>. QED BY <1>1, <2>1, <2>3, <5>1, <5>3
      <4>. QED BY <4>1, <4>3
    <3>2. Look(d, a[1], a[2])' = Look(d, a[1], a[2])
      BY <1>6, <2>1, <2>3
    <3>. QED BY <1>2, <1>3, <3>1, <3>2, SameReading
  <2>. QED BY <2>2, <2>3
<1>18. Same(p)
  BY <1>2, <1>17 DEF Same, Lives
<1>19. Writable(p, v)'
  <2>1. table[d][v[1]] = Pde(p, v[1]) /\ {"US", "RW"} \subseteq Pde(p, v[1]).flags
    <3>1. table[d][v[1]] = Pde(p, v[1])
      BY <1>3 DEF Pde
    <3>2. table[d][v[1]] \notin {Absent, Kpd[v[1]]}
      BY <1>1, <3>1, KpdLook DEF Eager
    <3>. QED BY <1>1, <1>8, <3>1, <3>2 DEF Formed, DirEntry, Eager
  <2>2. Pde(p, v[1])' = Pde(p, v[1])
    BY <1>3, <1>6, <2>1 DEF Pde
  <2>3. Pte(p, v)' = n
    <3>1. Pte(p, v)' = Look(d, v[1], v[2])'
      BY <1>3 DEF Pte, Look, Pde
    <3>. QED BY <1>6, <3>1
  <2>. QED BY <1>7, <2>1, <2>2, <2>3 DEF Writable, Private, Present
<1>. QED BY <1>16, <1>18, <1>19

\* map and map_copy, where they do not leave the process to exit.
LEMMA FixPteMapMem ==
  ASSUME VmmAssumption, VmmInv, VmmInv', MemInv, NEW p \in Proc, At(p, "fault", "pte"),
         UNCHANGED <<rc, cr3, page>>, ~(at[p].copy /\ Present(Pte(p, at[p].va))),
         table' = [table EXCEPT ![Pde(p, at[p].va[1]).fr][at[p].va[2]] = Ent(at[p].pa, UserFlags)],
         Begin(p, Idle(p, "user"))
  PROVE  /\ MemInv' /\ \A q \in Proc : Same(q)
         /\ \A v \in Touched : v = at[p].va => Writable(p, v)'
<1>1. at[p].job = "fault" /\ at[p].pc = "pte" /\ cr3[p] \in Frame /\ Mem(p) /\ TypeOK
      /\ Coherent(p)
  <2>1. at[p].job = "fault" /\ at[p].pc = "pte" /\ TypeOK
    BY DEF At, VmmInv
  <2>. QED BY <2>1, Acting DEF MemInv, TypeOK
<1>2. PICK v \in Touched : v = at[p].va
  BY <1>1 DEF Coherent
<1>3. PICK e : e = Look(cr3[p], v[1], v[2])
  OBVIOUS
<1>4. Found(p) /\ ~Present(e) /\ page[at[p].pa] = Zero
  BY <1>1, <1>2, <1>3, PteLook DEF Mem, Faulting, Found
<1>5. v \notin Apic
  BY <1>1, <1>3, <1>4 DEF Mem, Lives, Sealed, DeviceEntry, Present, Ent, VmmAssumption
<1>6. at'[p] = Idle(p, "user") /\ OthersIdle(p) /\ (\A f \in Frame : rc'[f] <= rc[f])
  BY <1>1 DEF TypeOK, OthersIdle, Begin
<1>7. Wrote(Pde(p, v[1]).fr, v[2], Ent(at[p].pa, UserFlags))
  BY <1>2 DEF Wrote
<1>. QED BY <1>1, <1>2, <1>3, <1>4, <1>5, <1>6, <1>7, MapMem DEF Private

\* map_copy's end: the copy takes the place of the page that was shared.
LEMMA SwapPteMem ==
  ASSUME VmmAssumption, VmmInv, VmmInv', MemInv, NEW p \in Proc, SwapPte(p)
  PROVE  /\ MemInv' /\ \A q \in Proc : Same(q)
         /\ \A v \in Touched : v = at[p].va => Writable(p, v)'
<1>1. at[p].job = "fault" /\ at[p].pc = "swap" /\ cr3[p] \in Frame /\ Mem(p) /\ TypeOK
      /\ Coherent(p) /\ Progress(p)
  <2>1. at[p].job = "fault" /\ at[p].pc = "swap" /\ TypeOK
    BY DEF At, VmmInv, SwapPte
  <2>. QED BY <2>1, Acting DEF MemInv, TypeOK
<1>2. PICK v \in Touched : v = at[p].va
  BY <1>1 DEF Coherent
<1>3. PICK e : e = Look(cr3[p], v[1], v[2])
  OBVIOUS
<1>4. Found(p) /\ Private(e) /\ page[at[p].pa] = page[e.fr] /\ e.fr = at[p].old
      /\ at[p].pa \in Frame /\ v[1] \in Idx /\ v[2] \in Idx /\ v = <<v[1], v[2]>>
  BY <1>1, <1>2, <1>3, PteLook DEF Mem, Faulting, Found, Progress, Coherent, VmmAssumption, VA
<1>5. v \notin Apic
  BY <1>1, <1>3, <1>4 DEF Mem, Lives, Sealed, DeviceEntry, Private, Ent, KernelFlags
<1>6. /\ at'[p] = Idle(p, "user") /\ OthersIdle(p) /\ DecRef(e.fr) /\ UNCHANGED cr3
      /\ Wrote(Pde(p, v[1]).fr, v[2], Ent(at[p].pa, UserFlags))
  BY <1>1, <1>2, <1>4 DEF TypeOK, OthersIdle, Begin, SwapPte, Wrote
<1>7. e.fr \in Frame /\ e.fr # at[p].pa
  <2>1. rc[at[p].pa] = 1
    BY <1>4 DEF MemInv, SoleOnce, Sole
  <2>2. e.fr \in Frame
    BY <1>1, <1>4 DEF Coherent
  <2>3. table[cr3[p]][v[1]].fr \in Frame /\ table[table[cr3[p]][v[1]].fr][v[2]].fr = e.fr
    BY <1>3, <1>4, <2>2, LookSlot
  <2>. QED BY <1>4, <2>1, <2>2, <2>3, OneReference
<1>8. /\ \A f \in Frame : rc'[f] <= rc[f]
      /\ rc'[at[p].pa] = rc[at[p].pa]
      /\ \A f \in Frame : page'[f] = page[f] \/ (rc[f] = 1 /\ f = e.fr)
  BY <1>1, <1>4, <1>6, <1>7 DEF DecRef, TypeOK
<1>. QED BY <1>1, <1>2, <1>3, <1>4, <1>5, <1>6, <1>8, MapMem

\* Absent entries show nothing.
LEMMA AbsentShows ==
  ASSUME VmmAssumption
  PROVE  /\ ~Present(Absent) /\ ~Private(Absent) /\ ~Eager(Absent) /\ Absent.fr \notin Frame
         /\ \A i, j : DirEntry(i, Absent) /\ PageEntry(i, j, Absent)
  BY DEF Present, Private, Eager, Absent, Ent, DirEntry, PageEntry, VmmAssumption

\* clear_pd and destroy_pd take a user's table out of the directory.
LEMMA ClearPdeDropMem ==
  ASSUME VmmAssumption, VmmInv, VmmInv', MemInv, NEW p \in Proc,
         at[p].job \in {"exec", "exit"}, at[p].pc = "dir", at[p].dirs # {},
         FramesSame, UNCHANGED cr3, Private(Pde(p, Dir(p))),
         at[p].job = "exec" => ~Mixed(Pde(p, Dir(p))),
         at' = [at EXCEPT ![p].dirs = @ \ {Dir(p)}, ![p].pc = "drop",
                          ![p].old = Pde(p, Dir(p)).fr],
         table' = [table EXCEPT ![cr3[p]][Dir(p)] = Absent]
  PROVE  MemInv' /\ \A q \in Proc : Same(q)
<1>1. /\ at[p] \in Activation /\ cr3[p] \in Frame /\ TypeOK /\ Dir(p) \in Idx /\ Mem(p)
      /\ at[p].new = NoFrame
  BY Acting, DirTyped DEF MemInv, Record, Activation
<1>0. PICK i \in Idx : i = Dir(p)
  BY <1>1
<1>2. PICK d \in Space(p) : d = cr3[p] /\ d = cr3'[p] /\ d \in Frame
  BY <1>1 DEF Space
<1>3. OthersIdle(p) /\ at'[p] = [at[p] EXCEPT !.dirs = @ \ {i}, !.pc = "drop", !.old = Pde(p, i).fr]
  BY <1>0, <1>1 DEF TypeOK, OthersIdle
<1>4. /\ at'[p].job = at[p].job /\ at'[p].pc = "drop" /\ at'[p].pa = at[p].pa
      /\ at'[p].new = NoFrame /\ at'[p].dirs = at[p].dirs \ {i}
  BY ONLY <1>1, <1>3 DEF Activation
<1>5. Space(p)' = {d} /\ Space(p) = {d}
  BY <1>1, <1>2, <1>4 DEF Space, VmmAssumption
<1>6. /\ table'[d][i] = Absent /\ \A k \in Idx \ {i} : table'[d][k] = table[d][k]
      /\ \A k \in Idx \ {i}, j \in Idx : Look(d, k, j)' = Look(d, k, j)
      /\ \A j \in Idx : Look(d, i, j)' = Absent
  <2>1. Wrote(d, i, Absent) /\ Absent.fr # d
    BY <1>0, <1>2, AbsentShows DEF Wrote
  <2>2. ~Present(Absent)
    BY AbsentShows
  <2>. QED BY <2>1, <2>2, PdeWrite
<1>7. Formed(d) /\ (at[p].job = "exec" => Sealed(d) /\ ~DeviceDir(i))
  <2>1. Formed(d) /\ (at[p].job = "exec" => Sealed(d))
    BY <1>1, <1>2 DEF Mem, Lives
  <2>2. table[d][i] \notin {Absent, Kpd[i]} /\ table[d][i] = Pde(p, i)
    BY <1>0, <1>2, KpdLook DEF Pde
  <2>3. at[p].job = "exec" => ~DeviceDir(i)
    BY <1>0, <2>1, <2>2 DEF Formed, DirEntry, Mixed
  <2>. QED BY <2>1, <2>3
<1>8. Formed(d)'
  <2>1. ASSUME NEW k \in Idx
        PROVE  /\ DirEntry(k, table'[d][k])
               /\ \A j \in Idx : PageEntry(k, j, Look(d, k, j))'
               /\ \A j \in Idx : Eager(Look(d, k, j))' => "RW" \in table'[d][k].flags
    <3>1. CASE k = i
      <4>1. \A j \in Idx : Look(d, k, j)' = Absent
        BY <1>6, <3>1
      <4>2. DirEntry(k, table'[d][k])
        BY <1>6, <3>1, AbsentShows
      <4>. QED BY <4>1, <4>2, AbsentShows DEF PageEntry, Eager, Private, Present
    <3>2. CASE k # i
      BY <1>6, <1>7, <3>2 DEF Formed, PageEntry, Eager, Private, Present
    <3>. QED BY <3>1, <3>2
  <2>. QED BY <2>1 DEF Formed
<1>9. at[p].job = "exec" => Sealed(d)'
  <2>1. \A a \in Apic : a[1] \in Idx /\ a[2] \in Idx
    BY DEF VmmAssumption, VA
  <2>. QED BY <1>6, <1>7, <2>1 DEF Sealed, DeviceDir
<1>10. Clearing(p)'
  <2>1. Clearing(p)
    BY <1>1 DEF Mem
  <2>2. ASSUME at'[p].job = "exec", NEW k \in Idx \ at'[p].dirs, NEW j \in Idx
        PROVE  ~Private(Look(d, k, j))'
    <3>1. CASE k = i
      BY <1>6, <3>1, AbsentShows DEF Private, Present
    <3>2. CASE k # i
      <4>1. ~Private(Look(d, k, j))
        BY <1>0, <1>2, <1>4, <2>1, <2>2, <3>2 DEF Clearing
      <4>. QED BY <1>6, <3>2, <4>1 DEF Private, Present
    <3>. QED BY <3>1, <3>2
  <2>3. ASSUME at'[p].job = "exit", NEW k \in Idx \ at'[p].dirs
        PROVE  ~Private(table'[d][k])
    <3>1. CASE k = i
      BY <1>6, <3>1, AbsentShows DEF Private, Present
    <3>2. CASE k # i
      <4>1. ~Private(table[d][k])
        BY <1>0, <1>2, <1>4, <2>1, <2>3, <3>2 DEF Clearing
      <4>. QED BY <1>6, <3>2, <4>1
    <3>. QED BY <3>1, <3>2
  <2>. QED BY <1>2, <1>4, <2>2, <2>3 DEF Clearing
<1>11. Mem(p)'
  <2>1. Forking(p)' /\ CopyingPt(p)' /\ Faulting(p)'
    BY <1>4 DEF Forking, CopyingPt, Faulting
  <2>2. Lives(p)' => Sealed(cr3[p])'
    <3>1. cr3[p]' = d
      BY <1>2
    <3>. QED BY <1>4, <1>9, <3>1 DEF Sealed, Lives
  <2>. QED BY <1>5, <1>8, <1>10, <2>1, <2>2 DEF Mem
<1>12. ASSUME NEW f \in Frame, Sole(p, f)' PROVE Sole(p, f)
  <2>1. CASE at'[p].pa = f
    BY <1>4, <2>1 DEF Sole
  <2>2. ASSUME NEW k \in Idx, NEW j \in Idx, Eager(Look(d, k, j))', (Look(d, k, j).fr)' = f
        PROVE  Sole(p, f)
    <3>1. k # i
      BY <1>6, <2>2, AbsentShows DEF Eager, Private, Present
    <3>. QED BY <1>5, <1>6, <2>2, <3>1 DEF Sole, Eager, Private, Present
  <2>. QED BY <1>5, <1>12, <2>1, <2>2 DEF Sole
<1>13. Within({p}) /\ Counting
  <2>1. \A g \in Frame : table'[g] = table[g] \/ g = cr3[p]
    OBVIOUS
  <2>. QED BY <1>1, <2>1 DEF Within, Mine, Rooted, Counting, FramesSame, TypeOK
<1>14. MemInv' /\ \A q \in Proc \ {p} : Same(q)
  BY <1>3, <1>11, <1>12, <1>13, LocalMem
<1>15. Same(p)
  BY <1>4 DEF Same, Lives, Reads
<1>. QED BY <1>14, <1>15

\* clear_pd and destroy_pd, one entry.
LEMMA ClearPdeMem ==
  ASSUME VmmAssumption, VmmInv, VmmInv', MemInv, NEW p \in Proc, ClearPde(p)
  PROVE  MemInv' /\ \A q \in Proc : Same(q)
<1>1. /\ at[p].job \in {"exec", "exit"} /\ at[p].pc = "dir" /\ at[p].dirs # {}
      /\ FramesSame /\ UNCHANGED cr3
  BY DEF ClearPde
<1>2. CASE /\ ~Private(Pde(p, Dir(p)))
           /\ at' = [at EXCEPT ![p].dirs = @ \ {Dir(p)}]
           /\ UNCHANGED table
  BY <1>1, <1>2, ClearPdeStaysMem
<1>3. CASE /\ Private(Pde(p, Dir(p))) /\ ~Keeps(p, Pde(p, Dir(p)))
           /\ at' = [at EXCEPT ![p].dirs = @ \ {Dir(p)}, ![p].pc = "drop",
                               ![p].old = Pde(p, Dir(p)).fr]
           /\ table' = [table EXCEPT ![cr3[p]][Dir(p)] = Absent]
  BY <1>1, <1>3, ClearPdeDropMem DEF Keeps
<1>4. CASE /\ Keeps(p, Pde(p, Dir(p)))
           /\ at' = [at EXCEPT ![p].pc = "clearpt", ![p].ptes = Idx]
           /\ UNCHANGED table
  BY <1>1, <1>4, ClearPdeStaysMem DEF Keeps
<1>. QED BY <1>2, <1>3, <1>4 DEF ClearPde

\* clear_pt, one entry, of a table that is the process's own.
LEMMA ClearPteMem ==
  ASSUME VmmAssumption, VmmInv, VmmInv', MemInv, NEW p \in Proc, ClearPte(p)
  PROVE  MemInv' /\ \A q \in Proc : Same(q)
<1>1. /\ at[p] \in Activation /\ cr3[p] \in Frame /\ TypeOK
      /\ Dir(p) \in Idx /\ Some(at[p].ptes) \in Idx
      /\ Mem(p) /\ at[p].new = NoFrame /\ at[p].job = "exec" /\ at[p].pc = "clearpt"
      /\ at[p].ptes # {} /\ UNCHANGED cr3 /\ Coherent(p)
  <2>1. at[p].pc = "clearpt" /\ at[p].ptes # {} /\ UNCHANGED cr3 /\ TypeOK
    BY DEF ClearPte, VmmInv
  <2>2. at[p].job = "exec" /\ at[p].dirs # {} /\ Coherent(p)
    BY <2>1, ActingPc DEF TypeOK, Coherent
  <2>. QED BY <2>1, <2>2, Acting, DirTyped, PteIndexTyped DEF MemInv, Record, Activation
<1>2. PICK d \in Space(p) : d = cr3[p] /\ d = cr3'[p] /\ d \in Frame
  BY <1>1 DEF Space
<1>i. PICK i \in Idx, j \in Idx : i = Dir(p) /\ j = Some(at[p].ptes)
  BY <1>1
<1>e. PICK e, g : e = Look(d, i, j) /\ g = Pde(p, i).fr
  OBVIOUS
<1>3. OthersIdle(p) /\ at'[p] = [at[p] EXCEPT !.ptes = @ \ {j}]
  BY <1>i, <1>e, <1>1 DEF TypeOK, OthersIdle, ClearPte
<1>4. /\ at'[p].job = "exec" /\ at'[p].pc = "clearpt" /\ at'[p].pa = at[p].pa
      /\ at'[p].new = NoFrame /\ at'[p].dirs = at[p].dirs /\ at'[p].ptes = at[p].ptes \ {j}
  BY ONLY <1>1, <1>3 DEF Activation
<1>5. Space(p)' = {d} /\ Space(p) = {d} /\ Dir(p)' = i
  BY <1>i, <1>e, <1>1, <1>2, <1>4 DEF Space, VmmAssumption, Dir
<1>6. Mixed(Pde(p, i)) /\ e = PT(Pde(p, i))[j] /\ e \in Entry /\ Formed(d) /\ Sealed(d)
      /\ Pde(p, i) = table[d][i]
  BY <1>i, <1>e, <1>1, <1>2, LookTyped DEF Mem, Clearing, Lives, Mixed, Private, Look, Pde
<1>7. Within({p}) /\ Counting
      /\ (\A k, l \in Idx : Look(d, k, l)' = IF <<k, l>> = <<i, j>> /\ Private(e) THEN Absent
                                             ELSE Look(d, k, l))
      /\ table'[d] = table[d]
  <2>1. CASE Private(e)
    <3>1. DecRef(e.fr) /\ Wrote(g, j, Absent) /\ e.fr \in Frame
      BY <1>i, <1>e, <1>6, <2>1, PrivateEntries DEF ClearPte, Wrote
    <3>2. table[d][i].fr \in Frame /\ e = table[table[d][i].fr][j]
      BY <1>i, <1>e, <3>1, LookSlot
    <3>3. g \in Frame /\ table[g][j].fr = e.fr /\ Under(g, d, i)
      <4>1. table[d][i] \notin {Absent, Kpd[i]}
        BY <1>2, <1>6, KpdLook DEF Mixed
      <4>2. DeviceDir(i) /\ "RW" \in table[d][i].flags
        BY <1>1, <1>6, <4>1 DEF Formed, DirEntry, Mixed
      <4>. QED BY <1>i, <1>e, <1>6, <3>2, <4>2 DEF Under, Eager, Mixed
    <3>4. Mine({p}, g)
      BY <1>1, <1>2, <3>3 DEF Mine
    <3>5. /\ table'[d] = table[d] /\ Look(d, i, j)' = Absent
          /\ \A k, l \in Idx : <<k, l>> # <<i, j>> => Look(d, k, l)' = Look(d, k, l)
      BY <1>1, <1>2, <3>1, <3>3, PteWrite
    <3>6. \A f \in Frame : page'[f] = page[f] \/ (rc[f] = 1 /\ f = e.fr)
      BY <1>1, <3>1 DEF DecRef, TypeOK
    <3>7. \A f \in Frame : rc'[f] <= rc[f]
      BY <1>1, <3>1 DEF DecRef, TypeOK
    <3>8. \A f \in Frame \ {g} : table'[f] = table[f]
      BY <3>1 DEF Wrote
    <3>9. Within({p})
      <4>1. \A f \in Frame : table'[f] = table[f] \/ Mine({p}, f)
        BY <3>4, <3>8
      <4>2. \A f \in Frame : page'[f] = page[f] \/ Spare({p}, f)
        BY <3>3, <3>4, <3>6 DEF Spare
      <4>. QED BY <4>1, <4>2 DEF Within
    <3>. QED BY <2>1, <3>5, <3>7, <3>9 DEF Counting
  <2>2. CASE ~Private(e)
    <3>1. FramesSame /\ UNCHANGED table
      BY <1>i, <1>e, <1>6, <2>2 DEF ClearPte
    <3>2. Steady(d)
      BY <3>1 DEF Steady
    <3>3. Within({p}) /\ Counting
      BY <1>1, <3>1 DEF Within, Counting, FramesSame, TypeOK
    <3>. QED BY <2>2, <3>2, <3>3, SteadyLook DEF Steady
  <2>. QED BY <2>1, <2>2
<1>8. Formed(d)'
  <2>1. ASSUME NEW k \in Idx, NEW l \in Idx
        PROVE  /\ PageEntry(k, l, Look(d, k, l))'
               /\ Eager(Look(d, k, l))' => "RW" \in table[d][k].flags
    <3>1. CASE Look(d, k, l)' = Absent
      BY <3>1, AbsentShows DEF PageEntry, Eager, Private, Present
    <3>2. CASE Look(d, k, l)' = Look(d, k, l)
      BY <1>6, <3>2 DEF Formed, PageEntry, Eager, Private, Present
    <3>. QED BY <1>7, <3>1, <3>2
  <2>2. \A k \in Idx : DirEntry(k, table[d][k])'
    BY <1>6, <1>7 DEF Formed
  <2>. QED BY <1>7, <2>1, <2>2 DEF Formed
<1>9. Sealed(d)'
  <2>1. ~Private(DeviceEntry)
    BY DEF DeviceEntry, Ent, Private, KernelFlags
  <2>2. \A a \in Apic : a[1] \in Idx /\ a[2] \in Idx
    BY DEF VmmAssumption, VA
  <2>3. ASSUME NEW a \in Apic PROVE Look(d, a[1], a[2])' = DeviceEntry
    <3>1. Look(d, a[1], a[2]) = DeviceEntry
      BY <1>6 DEF Sealed
    <3>2. <<a[1], a[2]>> = <<i, j>> => e = Look(d, a[1], a[2])
      BY <1>i, <1>e
    <3>. QED BY <1>7, <2>1, <2>2, <3>1, <3>2
  <2>. QED BY <2>3 DEF Sealed
<1>10. Clearing(p)'
  <2>1. Clearing(p)
    BY <1>1 DEF Mem
  <2>2. \A k, l \in Idx : ~Private(Look(d, k, l)) => ~Private(Look(d, k, l))'
    BY <1>7, AbsentShows DEF Private, Present
  <2>3. \A k \in Idx \ at'[p].dirs, l \in Idx : ~Private(Look(d, k, l))'
    BY <1>1, <1>2, <1>4, <2>1, <2>2 DEF Clearing
  <2>4. ~Private(Look(d, i, j))'
    <3>1. CASE Private(e)
      BY <1>1, <1>7, <3>1, AbsentShows DEF Private, Present
    <3>2. CASE ~Private(e)
      BY <1>i, <1>e, <2>2, <3>2
    <3>. QED BY <3>1, <3>2
  <2>5. \A l \in Idx \ at'[p].ptes : ~Private(Look(d, i, l))'
    BY <1>i, <1>e, <1>1, <1>2, <1>4, <2>1, <2>2, <2>4 DEF Clearing
  <2>6. Mixed(Pde(p, Dir(p)))'
    <3>1. Pde(p, Dir(p))' = Pde(p, i)
      BY <1>2, <1>5, <1>7 DEF Pde
    <3>. QED BY <1>6, <3>1 DEF Mixed, Private, Present
  <2>. QED BY <1>2, <1>4, <1>5, <2>3, <2>5, <2>6 DEF Clearing
<1>11. Mem(p)'
  <2>1. Forking(p)' /\ CopyingPt(p)' /\ Faulting(p)'
    BY <1>4 DEF Forking, CopyingPt, Faulting
  <2>2. cr3[p]' = d
    BY <1>2
  <2>. QED BY <1>5, <1>8, <1>9, <1>10, <2>1, <2>2 DEF Mem, Sealed
<1>12. ASSUME NEW f \in Frame, Sole(p, f)' PROVE Sole(p, f)
  <2>1. CASE at'[p].pa = f
    BY <1>4, <2>1 DEF Sole
  <2>2. ASSUME NEW k \in Idx, NEW l \in Idx, Eager(Look(d, k, l))', (Look(d, k, l).fr)' = f
        PROVE  Sole(p, f)
    <3>1. Look(d, k, l)' # Absent
      BY <2>2, AbsentShows DEF Eager, Private, Present
    <3>2. Look(d, k, l)' = Look(d, k, l)
      BY <1>7, <3>1
    <3>. QED BY <1>5, <2>2, <3>2 DEF Sole, Eager, Private, Present
  <2>. QED BY <1>5, <1>12, <2>1, <2>2 DEF Sole
<1>13. MemInv' /\ \A q \in Proc \ {p} : Same(q)
  BY <1>3, <1>7, <1>11, <1>12, LocalMem
<1>14. Same(p)
  BY <1>1, <1>4 DEF Same, Lives, Reads
<1>. QED BY <1>13, <1>14

\* copy_pd: an entry of the new directory that shows what the old one shows.
LEMMA EnterMem ==
  ASSUME VmmAssumption, VmmInv, VmmInv', MemInv, NEW p \in Proc, OthersIdle(p), UNCHANGED cr3,
         at[p].job = "fork", NEW i \in Idx, i \in at[p].dirs, NEW e,
         Wrote(at[p].new, i, e), e.fr # at[p].new, DirEntry(i, e),
         \A j \in Idx : Look(cr3[p], i, j) = IF Present(e) THEN PT(e)[j] ELSE Absent,
         Counting, UNCHANGED page,
         at'[p].job = "fork", at'[p].pc = "dir", at'[p].pa = at[p].pa, at'[p].new = at[p].new,
         at'[p].dirs = at[p].dirs \ {i}
  PROVE  /\ MemInv' /\ \A q \in Proc : Same(q)
         /\ table[at[p].new][i] = Absent
<1>1. /\ at[p].dirs \subseteq Idx /\ cr3[p] \in Frame /\ at[p].new \in Frame /\ cr3[p] # at[p].new
      /\ Mem(p)
  BY Copying DEF MemInv, Activation
<1>2. PICK d \in Space(p) : d = cr3[p] /\ d = cr3'[p] /\ d \in Frame
  BY <1>1 DEF Space
<1>3. PICK n \in Space(p) : n = at[p].new /\ n = at'[p].new /\ n \in Frame /\ n # d
  BY <1>1, <1>2 DEF Space
<1>4. Space(p) = {d, n} /\ Space(p)' = {d, n}
  BY <1>2, <1>3 DEF Space
<1>5. /\ table'[n][i] = e /\ \A k \in Idx \ {i} : table'[n][k] = table[n][k]
      /\ \A k \in Idx \ {i}, j \in Idx : Look(n, k, j)' = Look(n, k, j)
      /\ \A j \in Idx : Look(n, i, j)' = Look(d, i, j)
      /\ Steady(d)
  BY <1>2, <1>3, PdeWrite
<1>6. \A k, j \in Idx : Look(d, k, j)' = Look(d, k, j)
  BY <1>5, SteadyLook
<1>7. /\ Formed(d) /\ Sealed(d) /\ Formed(n)
      /\ \A k, j \in Idx : ~Eager(Look(d, k, j))
      /\ \A k \in Idx \ at[p].dirs, j \in Idx : Look(n, k, j) = Look(d, k, j)
      /\ \A k \in at[p].dirs : table[n][k] = Absent
  BY <1>1, <1>2, <1>3 DEF Mem, Lives, Forking
<1>8. Formed(d)' /\ Sealed(d)'
  BY <1>5, <1>7, SteadyFormed
<1>9. \A k \in Idx \ at'[p].dirs, j \in Idx : Look(n, k, j)' = Look(d, k, j)
  BY <1>5, <1>7
<1>10. ASSUME NEW k \in at'[p].dirs
       PROVE  table'[n][k] = Absent /\ \A j \in Idx : Look(n, k, j)' = Absent
  <2>1. k \in Idx /\ k # i /\ table[n][k] = Absent
    BY <1>1, <1>7
  <2>2. \A j \in Idx : Look(n, k, j) = Absent
    BY <2>1, AbsentShows DEF Look
  <2>. QED BY <1>5, <2>1, <2>2
<1>11. ASSUME NEW k \in Idx, NEW j \in Idx PROVE ~Eager(Look(n, k, j))'
  <2>1. CASE k \in at'[p].dirs
    BY <1>10, <2>1, AbsentShows DEF Eager, Private, Present
  <2>2. CASE k \notin at'[p].dirs
    BY <1>7, <1>9, <2>2 DEF Eager, Private, Present
  <2>. QED BY <2>1, <2>2
<1>12. Formed(n)'
  <2>1. ASSUME NEW k \in Idx, NEW j \in Idx PROVE PageEntry(k, j, Look(n, k, j))'
    <3>1. CASE k = i
      BY <1>5, <1>7, <3>1 DEF Formed, PageEntry, Private, Present
    <3>2. CASE k # i
      BY <1>5, <1>7, <3>2 DEF Formed, PageEntry, Private, Present
    <3>. QED BY <3>1, <3>2
  <2>2. \A k \in Idx : DirEntry(k, table'[n][k])
    BY <1>5, <1>7 DEF Formed
  <2>. QED BY <1>11, <2>1, <2>2 DEF Formed
<1>13. Mem(p)'
  <2>1. Forking(p)'
    <3>1. \A k, j \in Idx : ~Eager(Look(d, k, j))'
      BY <1>6, <1>7 DEF Eager, Private, Present
    <3>2. \A k \in Idx \ at'[p].dirs, j \in Idx : Look(n, k, j)' = Look(d, k, j)'
      BY <1>1, <1>6, <1>9
    <3>. QED BY <1>2, <1>3, <1>10, <3>1, <3>2 DEF Forking
  <2>2. CopyingPt(p)' /\ Faulting(p)' /\ Clearing(p)'
    BY DEF CopyingPt, Faulting, Clearing
  <2>3. cr3[p]' = d
    BY <1>2
  <2>. QED BY <1>4, <1>8, <1>12, <2>1, <2>2, <2>3 DEF Mem, Sealed
<1>14. ASSUME NEW f \in Frame, Sole(p, f)' PROVE Sole(p, f)
  <2>1. \A k, j \in Idx : ~Eager(Look(d, k, j))'
    BY <1>6, <1>7 DEF Eager, Private, Present
  <2>. QED BY <1>4, <1>11, <1>14, <2>1 DEF Sole
<1>15. Within({p})
  <2>1. \A g \in Frame : table'[g] = table[g] \/ g = at[p].new
    BY DEF Wrote
  <2>. QED BY <2>1 DEF Within, Mine, Rooted
<1>16. MemInv' /\ \A q \in Proc \ {p} : Same(q)
  BY <1>13, <1>14, <1>15, LocalMem
<1>17. Same(p)
  <2>. SUFFICES ASSUME NEW va \in Touched PROVE Reads(p, va)' = Reads(p, va)
    BY DEF Same, Lives
  <2>1. va[1] \in Idx /\ va[2] \in Idx
    BY DEF VmmAssumption, VA
  <2>. QED BY <1>2, <1>6, <2>1, SameReading
<1>. QED BY <1>3, <1>7, <1>16, <1>17

\* copy_pd shares a table.
LEMMA CopyPdeShareMem ==
  ASSUME VmmAssumption, VmmInv, VmmInv', MemInv, NEW p \in Proc, At(p, "fork", "dir"),
         at[p].dirs # {}, UNCHANGED cr3, ~Eager(Pde(p, Dir(p))),
         IF Private(Pde(p, Dir(p))) THEN IncRef(Pde(p, Dir(p)).fr) ELSE FramesSame,
         table' = [table EXCEPT ![at[p].new][Dir(p)] = Pde(p, Dir(p))],
         at' = [at EXCEPT ![p].dirs = @ \ {Dir(p)}]
  PROVE  /\ MemInv' /\ \A q \in Proc : Same(q)
         /\ table[at[p].new][Dir(p)] = Absent
<1>1. /\ at[p].job = "fork" /\ at[p].pc = "dir" /\ at[p] \in Activation /\ cr3[p] \in Frame
      /\ TypeOK /\ Dir(p) \in Idx /\ at[p].new \in Frame /\ Exclusive(at[p].new) /\ Mem(p)
  BY Copying, DirTyped DEF At, MemInv
<1>2. PICK i \in Idx, e \in Entry : i = Dir(p) /\ e = Pde(p, i) /\ e = table[cr3[p]][i]
  BY <1>1, PdeTyped DEF Pde
<1>3. i \in at[p].dirs
  BY <1>1, <1>2, SomeIn DEF Dir
<1>4. OthersIdle(p) /\ at'[p] = [at[p] EXCEPT !.dirs = @ \ {i}]
  BY <1>1, <1>2 DEF TypeOK, OthersIdle
<1>5. /\ at'[p].job = "fork" /\ at'[p].pc = "dir" /\ at'[p].pa = at[p].pa
      /\ at'[p].new = at[p].new /\ at'[p].dirs = at[p].dirs \ {i}
  BY ONLY <1>1, <1>4 DEF Activation
<1>6. Wrote(at[p].new, i, e) /\ e.fr # at[p].new
  BY <1>1, <1>2, Alone DEF Wrote, Rooted
<1>7. DirEntry(i, e)
  BY <1>1, <1>2 DEF Mem, Space, Formed
<1>8. \A j \in Idx : Look(cr3[p], i, j) = IF Present(e) THEN PT(e)[j] ELSE Absent
  BY <1>2 DEF Look
<1>9. UNCHANGED page /\ Counting
  <2>1. CASE Private(e)
    <3>1. e.fr \in Frame /\ IncRef(e.fr)
      BY <1>2, <2>1, PrivateEntries
    <3>2. \A f \in Frame \ {e.fr} : rc'[f] = rc[f]
      BY <1>1, <3>1 DEF IncRef, TypeOK
    <3>3. ~Eager(e)
      BY <1>2
    <3>. QED BY <1>1, <1>2, <3>1, <3>2, <3>3 DEF Counting, IncRef, TypeOK
  <2>2. CASE ~Private(e)
    BY <1>1, <1>2, <2>2 DEF Counting, FramesSame, TypeOK
  <2>. QED BY <2>1, <2>2
<1>. QED BY <1>1, <1>2, <1>3, <1>4, <1>5, <1>6, <1>7, <1>8, <1>9, EnterMem

\* copy_pd, one entry.
LEMMA CopyPdeMem ==
  ASSUME VmmAssumption, VmmInv, VmmInv', MemInv, NEW p \in Proc, CopyPde(p)
  PROVE  /\ MemInv' /\ \A q \in Proc : Same(q)
         /\ Eager(Pde(p, Dir(p))) \/ table[at[p].new][Dir(p)] = Absent
<1>1. At(p, "fork", "dir") /\ at[p].dirs # {} /\ UNCHANGED cr3 /\ at[p].job = "fork"
  BY DEF CopyPde, At
<1>2. CASE /\ Eager(Pde(p, Dir(p)))
           /\ AllocFrame
           /\ at' = [at EXCEPT ![p].pc = "copypt", ![p].pde = Pde(p, Dir(p)), ![p].dst = Fresh,
                             ![p].ptes = Idx]
           /\ UNCHANGED table
  <2>1. Present(Pde(p, Dir(p)))
    BY <1>2 DEF Eager, Private
  <2>. QED BY <1>1, <1>2, <2>1, CopyBeginsMem
<1>3. CASE /\ ~Eager(Pde(p, Dir(p)))
           /\ IF Private(Pde(p, Dir(p))) THEN IncRef(Pde(p, Dir(p)).fr) ELSE FramesSame
           /\ table' = [table EXCEPT ![at[p].new][Dir(p)] = Pde(p, Dir(p))]
           /\ at' = [at EXCEPT ![p].dirs = @ \ {Dir(p)}]
  BY <1>1, <1>3, CopyPdeShareMem
<1>. QED BY <1>2, <1>3 DEF CopyPde

\* copy_pd enters the copy of a table.
LEMMA EnterPtMem ==
  ASSUME VmmAssumption, VmmInv, VmmInv', MemInv, NEW p \in Proc, EnterPt(p)
  PROVE  /\ MemInv' /\ \A q \in Proc : Same(q)
         /\ table[at[p].new][Dir(p)] = Absent
<1>1. /\ at[p].job = "fork" /\ at[p].pc = "copypt" /\ at[p].ptes = {} /\ UNCHANGED cr3 /\ FramesSame
      /\ at[p] \in Activation /\ cr3[p] \in Frame
      /\ TypeOK /\ Dir(p) \in Idx /\ at[p].new \in Frame /\ Mem(p)
      /\ at[p].dst \in Frame /\ at[p].dst # at[p].new /\ Pde(p, Dir(p)) = at[p].pde
      /\ at[p].dirs # {} /\ Private(at[p].pde)
  <2>1. at[p].job = "fork" /\ at[p].pc = "copypt" /\ at[p].ptes = {} /\ UNCHANGED cr3 /\ FramesSame
    BY DEF EnterPt, At
  <2>2. Coherent(p)
    BY DEF VmmInv, TypeOK
  <2>. QED BY <2>1, <2>2, Copying, Filling DEF MemInv, Coherent
<1>i. PICK i \in Idx : i = Dir(p)
  BY <1>1
<1>e. PICK t, e : t = at[p].pde /\ t = table[cr3[p]][i] /\ e = Ent(at[p].dst, t.flags)
  BY <1>1, <1>i DEF Pde
<1>3. i \in at[p].dirs
  BY <1>1, <1>i, <1>e, SomeIn DEF Dir
<1>4. /\ OthersIdle(p)
      /\ at'[p] = [at[p] EXCEPT !.pc = "dir", !.dst = NoFrame, !.pde = Absent, !.dirs = @ \ {i}]
  BY <1>1, <1>i, <1>e DEF TypeOK, OthersIdle, EnterPt
<1>5. /\ at'[p].job = "fork" /\ at'[p].pc = "dir" /\ at'[p].pa = at[p].pa
      /\ at'[p].new = at[p].new /\ at'[p].dirs = at[p].dirs \ {i}
  BY ONLY <1>1, <1>4 DEF Activation
<1>6. Wrote(at[p].new, i, e) /\ e.fr = at[p].dst /\ e.flags = t.flags
  BY <1>i, <1>e DEF EnterPt, Wrote, Ent
<1>7. Present(e) /\ Private(e) /\ PT(e) = table[at[p].dst]
  BY <1>1, <1>i, <1>e, <1>6 DEF Present, Private, PT, VmmAssumption
<1>8. DirEntry(i, e)
  <2>1. DirEntry(i, t)
    BY <1>1, <1>i, <1>e DEF Mem, Space, Formed
  <2>2. t \notin {Absent, Kpd[i]}
    BY <1>1, <1>i, <1>e, KpdLook
  <2>. QED BY <1>6, <1>7, <2>1, <2>2 DEF DirEntry
<1>9. \A j \in Idx : Look(cr3[p], i, j) = IF Present(e) THEN PT(e)[j] ELSE Absent
  BY <1>1, <1>i, <1>e, <1>7 DEF Mem, CopyingPt
<1>10. UNCHANGED page /\ Counting
  BY <1>1 DEF Counting, FramesSame, TypeOK
<1>11. e.fr # at[p].new
  BY <1>1, <1>6
<1>12. at[p].job = "fork" /\ UNCHANGED cr3 /\ OthersIdle(p) /\ Wrote(at[p].new, i, e)
  BY <1>1, <1>4, <1>6
<1>13. /\ MemInv' /\ \A q \in Proc : Same(q)
       /\ table[at[p].new][i] = Absent
  BY <1>3, <1>5, <1>8, <1>9, <1>10, <1>11, <1>12, EnterMem
<1>. QED BY <1>i, <1>e, <1>13

-----------------------------------------------------------------------------
(* fork, and the end of a process.                                          *)

\* write_protect leaves a directory that shows the same pages, and may write none.
LEMMA ProtectedLooks ==
  ASSUME VmmAssumption, VmmInv, NEW p \in Proc, NEW d \in Frame, d = cr3[p],
         Formed(d), Sealed(d), table' = WriteProtect(p)
  PROVE  \A i \in Idx :
           /\ DirEntry(i, table'[d][i])
           /\ \A j \in Idx :
                /\ ~Eager(Look(d, i, j))'
                /\ \/ Look(d, i, j)' = Look(d, i, j)
                   \/ Private(Look(d, i, j)) /\ Look(d, i, j)' = ReadOnly(Look(d, i, j))
<1>. DEFINE pd == table[d]
            open == {k \in Idx : Private(pd[k]) /\ "RW" \in pd[k].flags}
<1>. SUFFICES ASSUME NEW i \in Idx
              PROVE  /\ DirEntry(i, table'[d][i])
                     /\ \A j \in Idx :
                          /\ ~Eager(Look(d, i, j))'
                          /\ \/ Look(d, i, j)' = Look(d, i, j)
                             \/ /\ Private(Look(d, i, j))
                                /\ Look(d, i, j)' = ReadOnly(Look(d, i, j))
  OBVIOUS
<1>1. \A e : /\ ReadOnly(e).fr = e.fr /\ ReadOnly(e).flags = e.flags \ {"RW"}
             /\ ProtectedPde(e) \in {e, ReadOnly(e)}
  BY DEF ReadOnly, Ent, ProtectedPde
<1>2. ASSUME NEW g \in Frame
      PROVE  table'[g] = IF g = d
                         THEN [k \in Idx |-> IF k \in open THEN ProtectedPde(pd[k]) ELSE pd[k]]
                         ELSE IF \E k \in open : pd[k].fr = g THEN Protected(table[g])
                         ELSE table[g]
  BY DEF WriteProtect
<1>3. /\ table'[d][i] = IF i \in open THEN ProtectedPde(pd[i]) ELSE pd[i]
      /\ pd[i] \in Entry /\ pd[i].fr # d
  <2>1. table'[d] = [k \in Idx |-> IF k \in open THEN ProtectedPde(pd[k]) ELSE pd[k]]
    BY <1>2
  <2>2. Rooted(p, d) /\ Exclusive(d)
    BY DEF Rooted, Exclusive
  <2>. QED BY <2>1, <2>2, Alone DEF VmmInv, TypeOK
<1>4. CASE i \in open
  <2>. DEFINE g == pd[i].fr
              n == table'[d][i]
  <2>1. g \in Frame /\ g # d /\ n \in {pd[i], ReadOnly(pd[i])} /\ n.fr = g
    <3>1. n = pd[i] \/ n = ReadOnly(pd[i])
      BY <1>1, <1>3, <1>4
    <3>2. ReadOnly(pd[i]).fr = g
      BY <1>1
    <3>. QED BY <1>3, <1>4, <3>1, <3>2, PrivateEntries
  <2>2. table'[g] = Protected(table[g])
    BY <1>2, <1>4, <2>1
  <2>3. \A j \in Idx : Look(d, i, j) = table[g][j] /\ Look(d, i, j)' = Protected(table[g])[j]
    BY <1>4, <2>1, <2>2 DEF Look, PT, Present, VmmAssumption
  <2>4. ASSUME NEW j \in Idx
        PROVE  /\ ~Eager(Look(d, i, j))'
               /\ \/ Look(d, i, j)' = Look(d, i, j)
                  \/ Private(Look(d, i, j)) /\ Look(d, i, j)' = ReadOnly(Look(d, i, j))
    <3>1. Look(d, i, j)' = IF Private(Look(d, i, j)) THEN ReadOnly(Look(d, i, j)) ELSE Look(d, i, j)
      BY <2>3 DEF Protected
    <3>2. "RW" \notin ReadOnly(Look(d, i, j)).flags
      BY <1>1
    <3>. QED BY <3>1, <3>2 DEF Eager, Private, Present
  <2>5. DirEntry(i, n)
    <3>1. DirEntry(i, pd[i]) /\ pd[i] \notin {Absent, Kpd[i]}
      BY <1>4, KpdLook DEF Formed
    <3>2. DeviceDir(i) => n = pd[i]
      <4>. SUFFICES ASSUME NEW a \in Apic, a[1] = i PROVE n = pd[i]
        BY DEF DeviceDir
      <4>1. a[2] \in Idx /\ Look(d, i, a[2]) = DeviceEntry
        BY DEF Sealed, VmmAssumption, VA
      <4>2. table[pd[i].fr][a[2]] = DeviceEntry
        BY <2>3, <4>1
      <4>3. Present(DeviceEntry) /\ ~Private(DeviceEntry) /\ "RW" \in DeviceEntry.flags
        BY DEF DeviceEntry, Ent, Present, Private, KernelFlags, VmmAssumption
      <4>. QED BY <1>3, <1>4, <4>1, <4>2, <4>3 DEF ProtectedPde
    <3>3. ~DeviceDir(i) => DirEntry(i, ReadOnly(pd[i]))
      BY <1>1, <3>1 DEF DirEntry, Private, Present
    <3>. QED BY <2>1, <3>1, <3>2, <3>3
  <2>. QED BY <2>4, <2>5
<1>5. CASE i \notin open
  <2>1. table'[d][i] = pd[i]
    BY <1>3, <1>5
  <2>2. pd[i].fr \in Frame => table'[pd[i].fr] = table[pd[i].fr]
    <3>. SUFFICES ASSUME pd[i].fr \in Frame, NEW k \in open, pd[k].fr = pd[i].fr PROVE FALSE
      BY <1>2, <1>3
    <3>1. Under(pd[i].fr, d, k) /\ d \in Dirs
      BY DEF Under, Eager, Dirs
    <3>2. Exclusive(pd[i].fr)
      BY <3>1 DEF Exclusive
    <3>3. k = i
      BY <3>2, Alone
    <3>. QED BY <1>5, <3>3
  <2>3. \A j \in Idx : Look(d, i, j)' = Look(d, i, j)
    BY <2>1, <2>2 DEF Look, PT
  <2>4. \A j \in Idx : ~Eager(Look(d, i, j))
    BY <1>5, EagerLook DEF Eager
  <2>. QED BY <2>1, <2>3, <2>4 DEF Formed, Eager, Private, Present
<1>. QED BY <1>4, <1>5

\* fork: parent and child have what the parent had.
LEMMA ForkMem ==
  ASSUME VmmAssumption, VmmInv, VmmInv', MemInv, NEW p \in Proc, Fork(p)
  PROVE  MemInv' /\ \A q \in Proc : Same(q)
<1>1. /\ at[p].job = "user" /\ AllocFrame /\ table' = WriteProtect(p) /\ UNCHANGED cr3
      /\ at[p] \in Activation /\ cr3[p] \in Frame /\ TypeOK /\ TypeOK' /\ Mem(p)
      /\ at[p].new = NoFrame
  <2>1. at[p].job = "user" /\ AllocFrame /\ table' = WriteProtect(p) /\ UNCHANGED cr3
    BY DEF Fork
  <2>. QED BY <2>1, Acting DEF VmmInv, MemInv, Record, Activation
<1>2. PICK c \in Proc :
        /\ at[c].job = "unborn"
        /\ at' = [at EXCEPT ![p] = [Loop(p, "fork") EXCEPT !.new = Fresh, !.kid = c],
                            ![c] = Idle(c, "born")]
  BY DEF Fork
<1>3. /\ at'[p] = [Loop(p, "fork") EXCEPT !.new = Fresh, !.kid = c]
      /\ at'[c] = Idle(c, "born") /\ p # c
      /\ \A q \in Proc \ {p, c} : at'[q] = at[q]
  BY <1>1, <1>2 DEF TypeOK
<1>4. /\ at'[p].job = "fork" /\ at'[p].pc = "dir" /\ at'[p].pa = NoFrame
      /\ at'[p].new = Fresh /\ at'[p].dirs = Idx
      /\ at'[c].job = "born" /\ at'[c].pc = "none" /\ at'[c].pa = NoFrame /\ at'[c].new = NoFrame
  BY ONLY <1>3 DEF Loop, Idle
<1>5. /\ Fresh \in Frame /\ rc[Fresh] = 0 /\ table[Fresh] = EmptyTable /\ rc'[Fresh] = 1
      /\ \A f \in Frame \ {Fresh} : rc'[f] = rc[f]
      /\ \A f \in Frame \ {Fresh} : page'[f] = page[f]
      /\ \A M : \A f \in Frame : page'[f] = page[f] \/ Spare(M, f)
  BY <1>1, Allocated, AllocatedPage
<1>6. PICK d, n \in Frame : d = cr3[p] /\ d = cr3'[p] /\ n = Fresh /\ n = at'[p].new
  BY <1>1, <1>4, <1>5
<1>7. /\ Space(p) = {d} /\ Space(p)' = {d, n} /\ d # n
      /\ Space(c)' = {} /\ cr3[c] = NoFrame
  <2>1. cr3[c] = NoFrame /\ cr3'[c] = NoFrame
    BY <1>1, <1>2, Nothing
  <2>2. d # n
    <3>1. rc[d] >= 1
      BY <1>6, Referenced
    <3>. QED BY <1>5, <1>6, <3>1
  <2>3. Space(p) = {d}
    BY <1>1, <1>6 DEF Space, VmmAssumption
  <2>4. Space(p)' = {d, n}
    BY <1>6 DEF Space
  <2>5. Space(c)' = {}
    BY <1>4, <2>1 DEF Space, VmmAssumption
  <2>. QED BY <2>1, <2>2, <2>3, <2>4, <2>5
<1>8. Formed(d) /\ Sealed(d)
  BY <1>1, <1>7, <1>6 DEF Mem, Lives
<1>9. \A i \in Idx :
        /\ DirEntry(i, table'[d][i])
        /\ \A j \in Idx :
             /\ ~Eager(Look(d, i, j))'
             /\ \/ Look(d, i, j)' = Look(d, i, j)
                \/ Private(Look(d, i, j)) /\ Look(d, i, j)' = ReadOnly(Look(d, i, j))
  BY <1>1, <1>6, <1>8, ProtectedLooks
<1>10. table'[n] = EmptyTable /\ \A i, j \in Idx : Look(n, i, j)' = Absent
  <2>1. table'[n] = EmptyTable
    BY <1>1, <1>5, <1>6, WriteProtected
  <2>2. \A i \in Idx : table'[n][i] = Absent
    BY <2>1 DEF EmptyTable
  <2>. QED BY <2>1, <2>2, AbsentShows DEF Look
<1>11. Within({p})
  <2>1. ASSUME NEW g \in Frame PROVE table'[g] = table[g] \/ Mine({p}, g)
    <3>1. table'[g] = table[g] \/ g = d \/ \E i \in Idx : Under(g, d, i)
      BY <1>1, <1>6, WriteProtected
    <3>. QED BY <1>6, <1>7, <3>1 DEF Mine, Rooted
  <2>. QED BY <1>5, <2>1 DEF Within
<1>12. \A q \in Proc \ {p, c} : Undisturbed(q) /\ at'[q] = at[q] /\ cr3'[q] = cr3[q]
  BY <1>1, <1>3, <1>11, Others
<1>13. ASSUME NEW q \in Proc \ {p, c} PROVE Same(q) /\ Mem(q)'
  BY <1>12, SameReads, Spared DEF Same, Lives, MemInv
<1>14. Mem(c)' /\ Same(c)
  <2>1. Mem(c)'
    BY <1>4, <1>7 DEF Mem, Lives, Forking, CopyingPt, Faulting, Clearing
  <2>2. Same(c)
    BY <1>2, <1>4 DEF Same, Lives, Reads
  <2>. QED BY <2>1, <2>2
<1>15. \A e : ReadOnly(e).fr = e.fr /\ ReadOnly(e).flags = e.flags \ {"RW"}
  BY DEF ReadOnly, Ent
<1>16. Formed(d)' /\ Sealed(d)'
  <2>1. ASSUME NEW i \in Idx, NEW j \in Idx PROVE PageEntry(i, j, Look(d, i, j))'
    <3>1. PageEntry(i, j, Look(d, i, j))
      BY <1>8 DEF Formed
    <3>2. Private(Look(d, i, j)) => PageEntry(i, j, ReadOnly(Look(d, i, j)))
      <4>1. ~Private(Absent) /\ ~Private(DeviceEntry)
        BY AbsentShows DEF DeviceEntry, Ent, Private, KernelFlags
      <4>. QED BY <1>15, <3>1, <4>1 DEF PageEntry, Private, Present
    <3>3. PageEntry(i, j, Look(d, i, j)')
      BY <1>9, <3>1, <3>2
    <3>. QED BY <3>3 DEF PageEntry, Private, Present
  <2>2. Formed(d)'
    BY <1>9, <2>1 DEF Formed
  <2>3. ASSUME NEW a \in Apic PROVE Look(d, a[1], a[2])' = DeviceEntry
    <3>1. a[1] \in Idx /\ a[2] \in Idx /\ Look(d, a[1], a[2]) = DeviceEntry
      BY <1>8 DEF VmmAssumption, VA, Sealed
    <3>2. ~Private(DeviceEntry)
      BY DEF DeviceEntry, Ent, Private, KernelFlags
    <3>. QED BY <1>9, <3>1, <3>2
  <2>. QED BY <2>2, <2>3 DEF Sealed
<1>17. Formed(n)'
  BY <1>10, AbsentShows DEF Formed, EmptyTable, DirEntry, PageEntry, Eager, Private, Present
<1>18. Mem(p)'
  <2>1. Forking(p)'
    BY <1>4, <1>6, <1>9, <1>10 DEF Forking, EmptyTable
  <2>2. CopyingPt(p)' /\ Faulting(p)' /\ Clearing(p)'
    BY <1>4 DEF CopyingPt, Faulting, Clearing
  <2>3. cr3[p]' = d
    BY <1>6
  <2>. QED BY <1>7, <1>16, <1>17, <2>1, <2>2, <2>3 DEF Mem, Sealed
<1>19. SoleOnce'
  <2>1. ASSUME NEW q \in Proc, NEW f \in Frame, Sole(q, f)
        PROVE  rc'[f] <= rc[f]
    <3>1. rc[f] = 1
      BY <2>1 DEF MemInv, SoleOnce
    <3>. QED BY <1>5, <3>1
  <2>2. ASSUME NEW q \in Proc, NEW f \in Frame, Sole(q, f)'
        PROVE  Sole(q, f)
    <3>1. CASE q \notin {p, c}
      <4>1. Undisturbed(q) /\ Space(q)' = Space(q) /\ at'[q].pa = at[q].pa
        BY <1>12, <3>1 DEF Space
      <4>. QED BY <2>2, <4>1, SameSoles DEF Undisturbed
    <3>2. CASE q = c
      BY <1>4, <1>7, <2>2, <3>2 DEF Sole, VmmAssumption
    <3>3. CASE q = p
      <4>1. \A i, j \in Idx : ~Eager(Look(n, i, j))'
        BY <1>10, AbsentShows DEF Eager, Private, Present
      <4>. QED BY <1>4, <1>7, <1>9, <2>2, <3>3, <4>1 DEF Sole, VmmAssumption
    <3>. QED BY <3>1, <3>2, <3>3
  <2>. QED BY <2>1, <2>2, SoleKept DEF MemInv
<1>20. Same(p)
  <2>. SUFFICES ASSUME NEW va \in Touched PROVE Reads(p, va)' = Reads(p, va)
    BY <1>1, <1>4 DEF Same, Lives
  <2>1. va[1] \in Idx /\ va[2] \in Idx
    BY DEF VmmAssumption, VA
  <2>2. PICK e \in Entry : e = Look(d, va[1], va[2])
    BY <1>1, <2>1, LookTyped
  <2>3. PICK r : r = Look(d, va[1], va[2])'
    OBVIOUS
  <2>4. r.fr = e.fr /\ (Private(r) <=> Private(e))
    <3>1. r = e \/ (Private(e) /\ r = ReadOnly(e))
      BY <1>9, <2>1, <2>2, <2>3
    <3>. QED BY <1>15, <3>1 DEF Private, Present
  <2>5. Private(e) => page'[e.fr] = page[e.fr]
    <3>. SUFFICES ASSUME Private(e) PROVE e.fr \in Frame /\ e.fr # Fresh
      BY <1>5
    <3>1. e.fr \in Frame
      BY PrivateEntries
    <3>2. table[d][va[1]].fr \in Frame /\ table[table[d][va[1]].fr][va[2]].fr = e.fr
      BY <2>1, <2>2, <3>1, LookSlot
    <3>. QED BY <1>5, <2>1, <3>1, <3>2, Unreferenced
  <2>6. Reads(p, va) = IF Private(e) THEN page[e.fr] ELSE Zero
    BY <1>1, <1>6, <2>2, ReadsLook
  <2>7. Reads(p, va)' = IF Private(r) THEN page'[r.fr] ELSE Zero
    <3>1. Private(Look(d, va[1], va[2]))' <=> Private(r)
      BY <2>3 DEF Private, Present
    <3>. QED BY <1>4, <1>6, <2>3, <3>1, ReadsLook
  <2>. QED BY <2>4, <2>5, <2>6, <2>7
<1>. QED BY <1>13, <1>14, <1>18, <1>19, <1>20 DEF MemInv

\* The child starts with the memory of its parent.
LEMMA ForkedMem ==
  ASSUME VmmAssumption, VmmInv, VmmInv', MemInv, NEW p \in Proc, Forked(p)
  PROVE  /\ MemInv'
         /\ \E c \in Proc :
              /\ \A q \in Proc \ {c} : Same(q)
              /\ Lives(p) /\ ~Lives(c) /\ Lives(c)'
              /\ \A va \in Touched : Reads(c, va)' = Reads(p, va)
<1>1. /\ at[p].job = "fork" /\ at[p].pc = "dir" /\ at[p].dirs = {} /\ UNCHANGED <<table, rc, free, page>>
      /\ cr3' = [cr3 EXCEPT ![at[p].kid] = at[p].new]
      /\ at' = [at EXCEPT ![p] = Idle(p, "user"), ![at[p].kid] = Idle(at[p].kid, "user")]
  BY DEF Forked, At, FramesSame
<1>2. /\ at[p] \in Activation /\ cr3[p] \in Frame /\ at[p].new \in Frame /\ at[p].kid \in Proc
      /\ TypeOK /\ at[at[p].kid].job = "born" /\ cr3[p] # at[p].new /\ Mem(p)
  BY <1>1, Copying DEF Activation, VmmInv, Kids, MemInv
<1>3. PICK c \in Proc, d, n \in Frame :
        /\ c = at[p].kid /\ at[c].job = "born" /\ c # p /\ d # n
        /\ d = cr3[p] /\ n = at[p].new
  BY <1>1, <1>2
<1>4. /\ at'[p] = Idle(p, "user") /\ at'[c] = Idle(c, "user") /\ cr3'[p] = d /\ cr3'[c] = n
      /\ \A q \in Proc \ {p, c} : at'[q] = at[q] /\ cr3'[q] = cr3[q]
  BY <1>1, <1>2, <1>3 DEF TypeOK
<1>5. \A q \in {p, c} : /\ at'[q].job = "user" /\ at'[q].pc = "none" /\ at'[q].pa = NoFrame
                        /\ at'[q].new = NoFrame
  BY ONLY <1>4 DEF Idle
<1>6. Space(p) = {d, n} /\ Space(p)' = {d} /\ Space(c)' = {n}
  BY <1>3, <1>4, <1>5 DEF Space, VmmAssumption
<1>7. \A q \in Proc : Undisturbed(q)
  BY <1>1 DEF Undisturbed, Steady
<1>8. \A b \in Frame : Steady(b)
  BY <1>1 DEF Steady
<1>9. /\ Formed(d) /\ Formed(n) /\ Sealed(d)
      /\ \A i, j \in Idx : ~Eager(Look(d, i, j)) /\ Look(n, i, j) = Look(d, i, j)
  BY <1>1, <1>3, <1>2, <1>6 DEF Mem, Lives, Forking
<1>10. Sealed(n)
  <2>1. \A a \in Apic : a[1] \in Idx /\ a[2] \in Idx
    BY DEF VmmAssumption, VA
  <2>. QED BY <1>9, <2>1 DEF Sealed
<1>11. Formed(d)' /\ Formed(n)' /\ Sealed(d)' /\ Sealed(n)'
  BY <1>8, <1>9, <1>10, SteadyFormed
<1>12. ASSUME NEW q \in {p, c} PROVE Mem(q)'
  <2>1. Forking(q)' /\ CopyingPt(q)' /\ Faulting(q)' /\ Clearing(q)'
    BY <1>5 DEF Forking, CopyingPt, Faulting, Clearing
  <2>2. \A b \in Space(q)' : Formed(b)'
    BY <1>6, <1>11
  <2>3. cr3[q]' = d \/ cr3[q]' = n
    BY <1>4
  <2>4. Sealed(cr3[q])'
    BY <1>11, <2>3 DEF Sealed
  <2>. QED BY <2>1, <2>2, <2>4 DEF Mem
<1>13. ASSUME NEW q \in Proc \ {p, c} PROVE Same(q) /\ Mem(q)'
  BY <1>4, <1>7, SameReads, Spared DEF Same, Lives, MemInv
<1>14. SoleOnce'
  <2>1. \A q \in Proc, f \in Frame : Sole(q, f) => rc'[f] <= rc[f]
    BY <1>1, <1>2 DEF TypeOK
  <2>2. ASSUME NEW q \in Proc, NEW f \in Frame, Sole(q, f)'
        PROVE  Sole(q, f)
    <3>1. CASE q # c
      <4>1. Space(q)' \subseteq Space(q) /\ at'[q].pa \in {at[q].pa, NoFrame}
        BY <1>4, <1>5, <1>6, <3>1 DEF Space
      <4>. QED BY <1>7, <2>2, <4>1, SameSoles DEF Undisturbed
    <3>2. CASE q = c
      <4>1. \A i, j \in Idx : Look(n, i, j)' = Look(n, i, j)
        BY <1>8, SteadyLook
      <4>2. \A i, j \in Idx : ~Eager(Look(n, i, j))'
        BY <1>9, <4>1 DEF Eager, Private, Present
      <4>. QED BY <1>5, <1>6, <2>2, <3>2, <4>2 DEF Sole, VmmAssumption
    <3>. QED BY <3>1, <3>2
  <2>. QED BY <2>1, <2>2, SoleKept DEF MemInv
<1>15. Same(p)
  BY <1>1, <1>3, <1>4, <1>5, <1>7, SameReads DEF Same, Lives
<1>16. ASSUME NEW va \in Touched PROVE Reads(c, va)' = Reads(p, va)
  <2>1. va[1] \in Idx /\ va[2] \in Idx
    BY DEF VmmAssumption, VA
  <2>2. PICK e : e = Look(d, va[1], va[2])
    OBVIOUS
  <2>3. Look(n, va[1], va[2])' = e
    BY <1>8, <1>9, <2>1, <2>2, SteadyLook
  <2>4. Pte(c, va)' = Look(n, va[1], va[2])'
    BY <1>4 DEF Pte, Look, Pde
  <2>5. Reads(c, va)' = IF Private(e) THEN page[e.fr] ELSE Zero
    BY <1>1, <1>5, <2>3, <2>4 DEF Reads, Private, Present
  <2>. QED BY <1>1, <1>3, <2>2, <2>5, PteLook DEF Reads
<1>. QED BY <1>1, <1>3, <1>5, <1>12, <1>13, <1>14, <1>15, <1>16 DEF MemInv, Lives

\* destroy_pd: the directory goes, and shows nothing that is counted.
LEMMA FreePdMem ==
  ASSUME VmmAssumption, VmmInv, VmmInv', MemInv, NEW p \in Proc, FreePd(p)
  PROVE  /\ MemInv' /\ \A q \in Proc : Same(q)
         /\ \A i \in Idx : table[cr3[p]][i].fr \notin Frame
<1>1. /\ at[p].job = "exit" /\ at[p].dirs = {} /\ DecRef(cr3[p])
      /\ table' = [table EXCEPT ![cr3[p]] = EmptyTable]
      /\ cr3' = [cr3 EXCEPT ![p] = NoFrame] /\ Begin(p, Idle(p, "unborn"))
      /\ at[p] \in Activation /\ cr3[p] \in Frame /\ TypeOK /\ Mem(p)
  <2>1. /\ at[p].job = "exit" /\ at[p].dirs = {} /\ DecRef(cr3[p])
        /\ table' = [table EXCEPT ![cr3[p]] = EmptyTable]
        /\ cr3' = [cr3 EXCEPT ![p] = NoFrame] /\ Begin(p, Idle(p, "unborn"))
    BY DEF FreePd, At
  <2>. QED BY <2>1, Acting DEF MemInv
<1>2. at'[p] = Idle(p, "unborn") /\ cr3'[p] = NoFrame /\ OthersIdle(p)
  BY <1>1 DEF TypeOK, OthersIdle, Begin
<1>3. at'[p].job = "unborn" /\ at'[p].pc = "none" /\ at'[p].pa = NoFrame /\ at'[p].new = NoFrame
  BY ONLY <1>2 DEF Idle
<1>4. Space(p)' = {}
  BY <1>2, <1>3 DEF Space, VmmAssumption
<1>5. Mem(p)'
  BY <1>3, <1>4 DEF Mem, Lives, Forking, CopyingPt, Faulting, Clearing
<1>6. Within({p}) /\ Counting
  <2>1. \A g \in Frame : table'[g] = table[g] \/ g = cr3[p]
    BY <1>1
  <2>2. \A f \in Frame : page'[f] = page[f] \/ (rc[f] = 1 /\ f = cr3[p])
    BY <1>1 DEF DecRef, TypeOK
  <2>3. \A f \in Frame : rc'[f] <= rc[f]
    BY <1>1 DEF DecRef, TypeOK
  <2>. QED BY <2>1, <2>2, <2>3 DEF Within, Mine, Spare, Rooted, Counting
<1>7. \A f \in Frame : ~Sole(p, f)'
  BY <1>3, <1>4 DEF Sole, VmmAssumption
<1>8. MemInv' /\ \A q \in Proc \ {p} : Same(q)
  BY <1>2, <1>5, <1>6, <1>7, LocalMem
<1>9. Same(p)
  BY <1>1, <1>3 DEF Same, Lives, Reads
<1>10. \A i \in Idx : table[cr3[p]][i].fr \notin Frame
  BY <1>1, NotPrivateLook DEF Mem, Clearing, Space
<1>. QED BY <1>8, <1>9, <1>10

-----------------------------------------------------------------------------
(* All steps.                                                               *)

\* map, map_copy: the directory entry.
LEMMA FixPdeMem ==
  ASSUME VmmAssumption, VmmInv, VmmInv', MemInv, NEW p \in Proc, FixPde(p)
  PROVE  MemInv' /\ \A q \in Proc : Same(q)
<1>1. At(p, "fault", "pde") /\ UNCHANGED cr3
  BY DEF FixPde
<1>2. CASE /\ ~Present(Pde(p, Dir(p)))
           /\ AllocFrame
           /\ table' = [table EXCEPT ![cr3[p]][Dir(p)] = Ent(Fresh, UserFlags)]
           /\ Goto(p, "pte")
  BY <1>1, <1>2, FixPdeNewMem
<1>3. CASE /\ Present(Pde(p, Dir(p))) /\ Usable(Pde(p, Dir(p)))
           /\ Goto(p, "pte")
           /\ FramesSame /\ UNCHANGED table
  BY <1>1, <1>3, FixPdeUsableMem
<1>4. CASE /\ Present(Pde(p, Dir(p))) /\ ~Usable(Pde(p, Dir(p)))
           /\ AllocFrame
           /\ at' = [at EXCEPT ![p].pc = "copypt", ![p].pde = Pde(p, Dir(p)), ![p].dst = Fresh,
                             ![p].ptes = Idx]
           /\ UNCHANGED table
  BY <1>1, <1>4, CopyBeginsMem
<1>. QED BY <1>2, <1>3, <1>4 DEF FixPde

\* The three ends of map and map_copy: the page is the user's, the page is
\* copied first, or the process must exit, for having written a page of the kernel's.
Mapped(p) == (\A q \in Proc : Same(q)) /\ \A v \in Touched : v = at[p].va => Writable(p, v)'
Copied(p) == (\A q \in Proc : Same(q)) /\ at'[p].job = "fault"
Left(p) == /\ \A q \in Proc \ {p} : Same(q)
           /\ Lives(p) /\ ~Lives(p)' /\ at'[p].job = "exit"
           /\ \A va : Reads(p, va)' = Zero

\* map and map_copy, up to the copying: it ends in one of these ways.
LEMMA FixPteMem ==
  ASSUME VmmAssumption, VmmInv, VmmInv', MemInv, NEW p \in Proc, FixPte(p)
  PROVE  /\ MemInv'
         /\ \/ Mapped(p) /\ at'[p].job = "user"
            \/ Copied(p)
            \/ Left(p) /\ at[p].va \in Apic
         /\ at[p].copy <=> Present(Pte(p, at[p].va))
<1>1. /\ At(p, "fault", "pte") /\ UNCHANGED <<rc, free, cr3>> /\ at[p].job = "fault"
      /\ TypeOK /\ Mem(p) /\ at[p] \in Activation
  BY DEF FixPte, At, VmmInv, TypeOK, MemInv
<1>2. Found(p) /\ Pte(p, at[p].va) = Look(cr3[p], at[p].va[1], at[p].va[2])
  BY <1>1, PteLook DEF Mem, Faulting
<1>3. CASE /\ ~(at[p].copy /\ Present(Pte(p, at[p].va)))
           /\ table' = [table EXCEPT ![Pde(p, at[p].va[1]).fr][at[p].va[2]] = Ent(at[p].pa, UserFlags)]
           /\ Begin(p, Idle(p, "user"))
           /\ UNCHANGED page
  <2>1. at'[p] = Idle(p, "user")
    BY <1>1, <1>3 DEF Begin, TypeOK
  <2>2. at'[p].job = "user"
    BY ONLY <2>1 DEF Idle
  <2>. QED BY <1>1, <1>2, <1>3, <2>2, FixPteMapMem DEF Mapped, Found
<1>4. CASE /\ at[p].copy /\ Present(Pte(p, at[p].va)) /\ "RW" \notin Pte(p, at[p].va).flags
           /\ page' = [page EXCEPT ![at[p].pa] = page[Pte(p, at[p].va).fr]]
           /\ at' = [at EXCEPT ![p].pc = "swap", ![p].old = Pte(p, at[p].va).fr]
           /\ UNCHANGED table
  <2>1. at'[p] = [at[p] EXCEPT !.pc = "swap", !.old = Pte(p, at[p].va).fr]
    BY <1>1, <1>4 DEF TypeOK
  <2>2. at'[p].job = "fault"
    BY ONLY <1>1, <2>1 DEF Activation
  <2>. QED BY <1>1, <1>2, <1>4, <2>2, FixPteSharedMem DEF Copied, Found
<1>5. CASE /\ at[p].copy /\ Present(Pte(p, at[p].va)) /\ "RW" \in Pte(p, at[p].va).flags
           /\ Begin(p, Loop(p, "exit"))
           /\ UNCHANGED <<table, page>>
  <2>1. at'[p] = Loop(p, "exit")
    BY <1>1, <1>5 DEF Begin, TypeOK
  <2>2. at'[p].job = "exit"
    BY ONLY <2>1 DEF Loop, Idle
  <2>3. Lives(p) /\ ~Lives(p)'
    BY <1>1, <2>2 DEF Lives
  <2>4. at[p].va \in Apic
    BY <1>2, <1>5 DEF Found
  <2>5. /\ MemInv' /\ \A q \in Proc \ {p} : Same(q)
        /\ \A va : Reads(p, va)' = Zero
    BY <1>1, <1>5, <2>3, LoopMem
  <2>. QED BY <1>2, <1>5, <2>2, <2>3, <2>4, <2>5 DEF Left
<1>. QED BY <1>3, <1>4, <1>5 DEF FixPte

\* What a step looks like to the programs: nothing, a write, an exec or exit, or a fork.
Wrote1(p) == /\ Lives(p) /\ Lives(p)' /\ \A q \in Proc \ {p} : Same(q)
             /\ \E va \in Touched, v \in Val :
                  \A a \in Touched : Reads(p, a)' = IF a = va THEN v ELSE Reads(p, a)
Emptied(p) == /\ Lives(p) /\ \A q \in Proc \ {p} : Same(q)
              /\ \A a \in Touched : Reads(p, a)' = Zero
Doubled(p, c) == /\ Lives(p) /\ ~Lives(c) /\ Lives(c)' /\ \A q \in Proc \ {c} : Same(q)
                 /\ \A a \in Touched : Reads(c, a)' = Reads(p, a)
Visible == \/ \A q \in Proc : Same(q)
           \/ \E p \in Proc : Wrote1(p) \/ Emptied(p)
           \/ \E p, c \in Proc : Doubled(p, c)

\* The kernel's steps keep the invariant, and show the programs no more than that.
LEMMA KernelMem ==
  ASSUME VmmAssumption, VmmInv, VmmInv', MemInv, NEW p \in Proc, Kernel(p)
  PROVE  MemInv' /\ Visible
<1>1. CASE FixPte(p)
  BY <1>1, FixPteMem DEF Visible, Mapped, Copied, Left, Emptied
<1>2. CASE Forked(p)
  BY <1>2, ForkedMem DEF Visible, Doubled
<1>3. CASE FixPde(p) \/ CopyPte(p) \/ InstallPt(p) \/ DropPt(p) \/ DoomPte(p) \/ FreePt(p) \/ SwapPte(p)
  BY <1>3, FixPdeMem, CopyPteMem, InstallPtMem, DropPtMem, DoomPteMem, FreePtMem, SwapPteMem
     DEF Visible
<1>4. CASE CopyPde(p) \/ EnterPt(p)
  BY <1>4, CopyPdeMem, EnterPtMem DEF Visible
<1>5. CASE ClearPde(p) \/ ClearPte(p) \/ ClearedPt(p) \/ Execed(p) \/ FreePd(p)
  BY <1>5, ClearPdeMem, ClearPteMem, ClearedPtMem, ExecedMem, FreePdMem DEF Visible
<1>. QED BY <1>1, <1>2, <1>3, <1>4, <1>5 DEF Kernel

\* So do the program's,
LEMMA ProgramMem ==
  ASSUME VmmAssumption, VmmInv, VmmInv', MemInv, NEW p \in Proc, Program(p)
  PROVE  MemInv' /\ Visible
<1>1. CASE Write(p)
  BY <1>1, WriteMem DEF Visible, Wrote1
<1>2. CASE Fault(p) \/ Fork(p)
  BY <1>2, FaultMem, ForkMem DEF Visible
<1>3. CASE Exec(p) \/ Exit(p)
  <2>1. PICK j \in {"exec", "exit"} : Begin(p, Loop(p, j)) /\ UNCHANGED <<table, page, rc, cr3>>
    BY <1>3 DEF Exec, Exit, FramesSame
  <2>2. Lives(p)
    BY <1>3 DEF Exec, Exit, Lives
  <2>3. /\ MemInv' /\ \A q \in Proc \ {p} : Same(q)
        /\ \A va : Reads(p, va)' = Zero
    BY <2>1, <2>2, LoopMem
  <2>. QED BY <2>2, <2>3 DEF Visible, Emptied
<1>. QED BY <1>1, <1>2, <1>3 DEF Program

\* and so does a step of nobody.
LEMMA StutterMem ==
  ASSUME VmmAssumption, VmmInv, MemInv, UNCHANGED vars
  PROVE  MemInv' /\ Visible
<1>1. UNCHANGED <<table, page, rc, free, cr3, at>>
  BY DEF vars
<1>2. \A q \in Proc : Undisturbed(q) /\ at'[q] = at[q] /\ cr3'[q] = cr3[q]
  BY <1>1 DEF Undisturbed, Steady
<1>3. \A q \in Proc : Mem(q)' /\ Same(q)
  BY <1>2, Spared, SameReads DEF MemInv, Same, Lives
<1>4. ASSUME NEW q \in Proc, NEW f \in Frame, Sole(q, f)' PROVE rc'[f] = 1
  <2>1. Space(q)' = Space(q) /\ at'[q].pa = at[q].pa
    BY <1>2 DEF Space
  <2>2. Sole(q, f)
    BY <1>2, <1>4, <2>1, SameSoles DEF Undisturbed
  <2>. QED BY <1>1, <2>2 DEF MemInv, SoleOnce
<1>. QED BY <1>3, <1>4 DEF MemInv, SoleOnce, Visible

\* The first process's directory is kpd's.
LEMMA InitMem ==
  ASSUME VmmAssumption, Init
  PROVE  MemInv /\ \A p \in Proc, va \in Touched : Reads(p, va) = Zero
<1>1. /\ cr3 = [p \in Proc |-> IF p = First THEN PD0 ELSE NoFrame]
      /\ table = [f \in Frame |-> IF f = PD0 THEN Kpd ELSE EmptyTable]
      /\ at = [p \in Proc |-> Idle(p, IF p = First THEN "user" ELSE "unborn")]
      /\ PD0 \in Frame /\ First \in Proc /\ NoFrame \notin Frame
  BY SomeIn DEF Init, PD0, VmmAssumption
<1>2. \A p \in Proc : /\ at[p].job = IF p = First THEN "user" ELSE "unborn"
                      /\ at[p].pc = "none" /\ at[p].pa = NoFrame /\ at[p].new = NoFrame
  BY ONLY <1>1 DEF Idle
<1>3. /\ cr3[First] = PD0 /\ table[PD0] = Kpd
      /\ \A p \in Proc : Space(p) = IF p = First THEN {PD0} ELSE {}
  BY <1>1, <1>2 DEF Space
<1>4. \A i \in Idx : Kpd[i] = IF DeviceDir(i) THEN Ent(ApicPT, KernelFlags) ELSE Absent
  BY DEF Kpd, DeviceDir
<1>5. \A i \in Idx, j \in Idx :
        Look(PD0, i, j) = IF DeviceDir(i) /\ (\E a \in Apic : a[2] = j) THEN DeviceEntry ELSE Absent
  <2>1. Present(Ent(ApicPT, KernelFlags)) /\ PT(Ent(ApicPT, KernelFlags)) = ApicTable
    BY DEF Present, Ent, PT, VmmAssumption
  <2>2. \A j \in Idx : ApicTable[j] = IF \E a \in Apic : a[2] = j THEN DeviceEntry ELSE Absent
    BY DEF ApicTable, DeviceEntry
  <2>. QED BY <1>3, <1>4, <2>1, <2>2, AbsentShows DEF Look
<1>6. \A i, j \in Idx : ~Private(Look(PD0, i, j))
  <2>1. ~Private(Absent) /\ ~Private(DeviceEntry)
    BY AbsentShows DEF DeviceEntry, Ent, Private, KernelFlags
  <2>. QED BY <1>5, <2>1
<1>7. Formed(PD0) /\ Sealed(PD0)
  <2>1. \A a \in Apic : a[1] \in Idx /\ a[2] \in Idx /\ a = <<a[1], a[2]>>
    BY DEF VmmAssumption, VA
  <2>2. \A a, b \in Apic : a[1] = b[1]
    BY DEF VmmAssumption
  <2>3. ASSUME NEW i \in Idx, NEW j \in Idx PROVE PageEntry(i, j, Look(PD0, i, j))
    BY <1>5, <2>1, <2>2 DEF PageEntry, DeviceDir
  <2>4. Formed(PD0)
    BY <1>3, <1>6, <2>3 DEF Formed, DirEntry, Eager
  <2>5. Sealed(PD0)
    BY <1>5, <2>1 DEF Sealed, DeviceDir
  <2>. QED BY <2>4, <2>5
<1>8. \A p \in Proc, f \in Frame : ~Sole(p, f)
  BY <1>1, <1>2, <1>3, <1>6 DEF Sole, Eager
<1>9. \A p \in Proc : Mem(p)
  BY <1>2, <1>3, <1>7 DEF Mem, Lives, Forking, CopyingPt, Faulting, Clearing
<1>10. ASSUME NEW p \in Proc, NEW va \in Touched PROVE Reads(p, va) = Zero
  <2>1. CASE p = First
    <3>1. ~Private(Pte(p, va))
      BY <1>3, <1>6, <2>1, PteLook DEF VmmAssumption, VA
    <3>. QED BY <3>1 DEF Reads
  <2>2. CASE p # First
    BY <1>2, <2>2 DEF Reads
  <2>. QED BY <2>1, <2>2
<1>. QED BY <1>8, <1>9, <1>10 DEF MemInv, SoleOnce

-----------------------------------------------------------------------------
(* The invariant, and what it says.                                         *)

\* Every step keeps the invariant and is one of those the programs may see.
LEMMA NextMem ==
  ASSUME VmmAssumption, VmmInv, VmmInv', MemInv, [Next]_vars PROVE MemInv' /\ Visible
<1>1. CASE UNCHANGED vars
  BY <1>1, StutterMem
<1>2. ASSUME NEW p \in Proc, Program(p) \/ Kernel(p) PROVE MemInv' /\ Visible
  BY <1>2, ProgramMem, KernelMem
<1>. QED BY <1>1, <1>2 DEF Next

\* Whatever a process may write is its own, with a count of one, and what its
\* directory shows has the form and the contents its kernel code counts on, at
\* every step of its faults, forks, execs and exit and of everyone else's.
THEOREM MemInvariant == Spec => []MemInv
<1>1. Init => MemInv
  BY VmmAssumption, InitMem
<1>2. VmmInv /\ VmmInv' /\ MemInv /\ [Next]_vars => MemInv'
  BY VmmAssumption, NextMem
<1>. QED BY <1>1, <1>2, VmmInvariant, PTL DEF Spec

\* The device page stays the kernel's in every process's address space: faults
\* on its neighbours copy the table with it (map, map_copy), and exec keeps it
\* (clear_pd).
THEOREM DeviceIsSealed == Spec => []ApicSealed
<1>1. VmmInv /\ MemInv => ApicSealed
  <2>. SUFFICES ASSUME VmmInv, MemInv, NEW p \in Proc, NEW a \in Apic, at[p].job = "user"
                PROVE  Pte(p, a) = Ent(ApicPage, KernelFlags)
    BY DEF ApicSealed
  <2>1. Sealed(cr3[p])
    BY DEF MemInv, Mem, Lives
  <2>. QED BY <2>1, PteLook DEF Sealed, DeviceEntry
<1>. QED BY <1>1, VmmInvariant, MemInvariant, PTL

\* What the programs can see of a step is a step of the abstract address spaces.
LEMMA VisibleStep ==
  ASSUME VmmAssumption, Visible PROVE [Memory!Next]_Memory!vars
<1>. DEFINE M == [p \in Proc |-> [va \in Touched |-> Reads(p, va)]]
            A == {p \in Proc : at[p].job \in {"user", "fault", "fork", "exec"}}
<1>1. \A p \in Proc : (p \in A <=> Lives(p)) /\ (p \in A' <=> Lives(p)')
  BY DEF Lives
<1>2. /\ M = [p \in Proc |-> M[p]] /\ M' = [p \in Proc |-> M'[p]]
      /\ \A p \in Proc : M[p] = [va \in Touched |-> Reads(p, va)]
      /\ \A p \in Proc : M'[p] = [va \in Touched |-> Reads(p, va)']
  OBVIOUS
<1>3. A \subseteq Proc /\ A' \subseteq Proc
  OBVIOUS
<1>. HIDE DEF M, A
<1>4. \A q \in Proc : Same(q) => M'[q] = M[q] /\ (q \in A' <=> q \in A)
  BY <1>1, <1>2 DEF Same
<1>5. CASE \A q \in Proc : Same(q)
  <2>1. M' = M /\ A' = A
    BY <1>2, <1>3, <1>4, <1>5
  <2>. QED BY <2>1 DEF Memory!vars, M, A
<1>6. ASSUME NEW p \in Proc, Wrote1(p) PROVE Memory!Write(p)
  <2>1. PICK va \in Touched, v \in Val : \A a \in Touched : Reads(p, a)' = IF a = va THEN v ELSE Reads(p, a)
    BY <1>6 DEF Wrote1
  <2>2. p \in A /\ A' = A
    BY <1>1, <1>3, <1>4, <1>6 DEF Wrote1
  <2>3. M'[p] = [M[p] EXCEPT ![va] = v]
    BY <1>2, <2>1
  <2>4. M' = [M EXCEPT ![p][va] = v]
    BY <1>2, <1>4, <1>6, <2>3 DEF Wrote1
  <2>. QED BY <2>2, <2>4 DEF Memory!Write, M, A
<1>7. ASSUME NEW p \in Proc, Emptied(p) PROVE Memory!Exec(p) \/ Memory!Exit(p)
  <2>1. p \in A
    BY <1>1, <1>7 DEF Emptied
  <2>2. M'[p] = [a \in Touched |-> Zero]
    BY <1>2, <1>7 DEF Emptied
  <2>3. M' = [M EXCEPT ![p] = [a \in Touched |-> Zero]]
    BY <1>2, <1>4, <1>7, <2>2 DEF Emptied
  <2>4. A' = IF Lives(p)' THEN A ELSE A \ {p}
    BY <1>1, <1>3, <1>4, <1>7, <2>1 DEF Emptied
  <2>5. CASE Lives(p)'
    BY <2>1, <2>3, <2>4, <2>5 DEF Memory!Exec, Memory!Blank, M, A
  <2>6. CASE ~Lives(p)'
    BY <2>1, <2>3, <2>4, <2>6 DEF Memory!Exit, Memory!Blank, M, A
  <2>. QED BY <2>5, <2>6
<1>8. ASSUME NEW p \in Proc, NEW c \in Proc, Doubled(p, c) PROVE Memory!Fork(p)
  <2>1. p \in A /\ c \in Proc \ A
    BY <1>1, <1>8 DEF Doubled
  <2>2. M'[c] = M[p]
    BY <1>2, <1>8 DEF Doubled
  <2>3. M' = [M EXCEPT ![c] = M[p]]
    BY <1>2, <1>4, <1>8, <2>2 DEF Doubled
  <2>4. A' = A \cup {c}
    BY <1>1, <1>3, <1>4, <1>8 DEF Doubled
  <2>. QED BY <2>1, <2>3, <2>4 DEF Memory!Fork, M, A
<1>. QED BY <1>5, <1>6, <1>7, <1>8 DEF Visible, Memory!Next

\* The page tables, shared and copied on write, implement separate address spaces
\* (vmm.cc: map, map_copy, copy_pd, clear_pd, destroy_pd).
THEOREM SeparateAddressSpaces == Spec => PrivateMemory
<1>1. Init => Memory!Init
  <2>. SUFFICES ASSUME Init PROVE Memory!Init
    OBVIOUS
  <2>1. \A p \in Proc, va \in Touched : Reads(p, va) = Zero
    BY VmmAssumption, InitMem
  <2>2. \A p \in Proc : at[p] = Idle(p, IF p = First THEN "user" ELSE "unborn")
    BY DEF Init
  <2>3. \A p \in Proc : at[p].job = IF p = First THEN "user" ELSE "unborn"
    <3>. TAKE p \in Proc
    <3>1. at[p] = Idle(p, IF p = First THEN "user" ELSE "unborn")
      BY <2>2
    <3>. QED BY ONLY <3>1 DEF Idle
  <2>4. {p \in Proc : at[p].job \in {"user", "fault", "fork", "exec"}} = {First}
    BY <2>3, VmmAssumption DEF VmmAssumption
  <2>. QED BY <2>1, <2>4 DEF Memory!Init, Memory!Blank
<1>2. VmmInv /\ VmmInv' /\ MemInv /\ [Next]_vars => [Memory!Next]_Memory!vars
  BY VmmAssumption, NextMem, VisibleStep
<1>. QED BY <1>1, <1>2, VmmInvariant, MemInvariant, PTL DEF Spec, PrivateMemory, Memory!Spec

-----------------------------------------------------------------------------
(* How faults end.                                                          *)

\* Nobody else's step moves a process that is neither a free slot nor a child
\* being made.
LEMMA Stays ==
  ASSUME VmmAssumption, VmmInv, NEW p \in Proc, NEW q \in Proc \ {p}, Program(q) \/ Kernel(q),
         at[p].job \notin {"unborn", "born"}
  PROVE  at'[p] = at[p]
<1>1. TypeOK /\ \A c \in Proc : at[c].job \in {"unborn", "born"} => c # p
  BY DEF VmmInv
<1>2. CASE Program(q)
  BY <1>1, <1>2 DEF Program, Write, Fault, Fork, Exec, Exit, Begin, TypeOK
<1>3. CASE Forked(q)
  <2>1. at[q].kid # p
    BY <1>1, <1>3 DEF Forked, At, VmmInv, Kids
  <2>. QED BY <1>1, <1>3, <2>1 DEF Forked, TypeOK
<1>4. CASE \/ FixPde(q) \/ CopyPte(q) \/ InstallPt(q) \/ DropPt(q) \/ DoomPte(q)
           \/ FreePt(q) \/ FixPte(q) \/ SwapPte(q)
  BY <1>1, <1>4 DEF FixPde, CopyPte, InstallPt, DropPt, DoomPte, FreePt, FixPte, SwapPte,
                    Begin, Goto, TypeOK
<1>5. CASE \/ CopyPde(q) \/ EnterPt(q) \/ ClearPde(q) \/ ClearPte(q) \/ ClearedPt(q)
           \/ Execed(q) \/ FreePd(q)
  BY <1>1, <1>5 DEF CopyPde, EnterPt, ClearPde, ClearPte, ClearedPt, Execed, FreePd,
                    Begin, TypeOK
<1>. QED BY <1>2, <1>3, <1>4, <1>5 DEF Kernel

\* A process leaves its fault only where map and map_copy end.
LEMMA FaultEnds ==
  ASSUME VmmAssumption, VmmInv, NEW p \in Proc, Program(p) \/ Kernel(p),
         at[p].job = "fault", at'[p].job # "fault"
  PROVE  FixPte(p) \/ SwapPte(p)
<1>1. TypeOK /\ at[p] \in Activation
  BY DEF VmmInv, TypeOK
<1>3. ~Program(p) /\ ~CopyPde(p) /\ ~EnterPt(p) /\ ~Forked(p) /\ ~ClearPde(p) /\ ~Execed(p) /\ ~FreePd(p)
  BY DEF Program, Write, Fault, Fork, Exec, Exit, CopyPde, EnterPt, Forked, ClearPde, Execed, FreePd, At
<1>4. ~ClearPte(p) /\ ~ClearedPt(p)
  BY DEF VmmInv, Records, Record, ClearPte, ClearedPt
<1>6. ASSUME FixPde(p) PROVE FALSE
  <2>1. \/ at'[p] = [at[p] EXCEPT !.pc = "pte"]
        \/ at'[p] = [at[p] EXCEPT !.pc = "copypt", !.pde = Pde(p, Dir(p)), !.dst = Fresh, !.ptes = Idx]
    BY <1>1, <1>6 DEF FixPde, Goto, TypeOK
  <2>. QED BY ONLY <1>1, <2>1, at[p].job = "fault", at'[p].job # "fault" DEF Activation
<1>7. ASSUME CopyPte(p) \/ DoomPte(p) PROVE FALSE
  <2>1. PICK i : at' = [at EXCEPT ![p].ptes = @ \ {i}]
    BY <1>7 DEF CopyPte, DoomPte
  <2>2. at'[p] = [at[p] EXCEPT !.ptes = at[p].ptes \ {i}]
    BY <1>1, <2>1 DEF TypeOK
  <2>. QED BY ONLY <1>1, <2>2, at[p].job = "fault", at'[p].job # "fault" DEF Activation
<1>8. ASSUME InstallPt(p) PROVE FALSE
  <2>1. PICK c, o : at' = [at EXCEPT ![p] = [@ EXCEPT !.pc = c, !.old = o, !.dst = NoFrame, !.pde = Absent]]
    BY <1>8 DEF InstallPt
  <2>2. at'[p] = [at[p] EXCEPT !.pc = c, !.old = o, !.dst = NoFrame, !.pde = Absent]
    BY <1>1, <2>1 DEF TypeOK
  <2>. QED BY ONLY <1>1, <2>2, at[p].job = "fault", at'[p].job # "fault" DEF Activation
<1>9. ASSUME DropPt(p) \/ FreePt(p) PROVE FALSE
  <2>1. \/ at'[p] = [at[p] EXCEPT !.pc = "doom", !.ptes = Idx]
        \/ at'[p] = [at[p] EXCEPT !.pc = After(p), !.old = NoFrame]
    BY <1>1, <1>9 DEF DropPt, FreePt, TypeOK
  <2>. QED BY ONLY <1>1, <2>1, at[p].job = "fault", at'[p].job # "fault" DEF Activation
<1>. QED BY <1>3, <1>4, <1>6, <1>7, <1>8, <1>9 DEF Kernel

\* There the page is writable, or the program leaves.
LEMMA FaultResolved ==
  ASSUME VmmAssumption, VmmInv, VmmInv', MemInv, [Next]_vars, NEW p \in Proc, NEW va \in Touched,
         Over(p, va)
  PROVE  Resolved(p, va)
<1>1. at[p].job = "fault" /\ at[p].va = va /\ at'[p].job # "fault"
  BY DEF Over
<1>2. PICK q \in Proc : Program(q) \/ Kernel(q)
  BY <1>1 DEF Next, vars
<1>3. q = p
  BY <1>1, <1>2, Stays
<1>4. CASE FixPte(p)
  BY <1>1, <1>4, FixPteMem DEF Mapped, Copied, Left, Resolved
<1>5. CASE SwapPte(p)
  <2>1. at'[p] = Idle(p, "user")
    BY <1>5 DEF SwapPte, Begin, VmmInv, TypeOK
  <2>2. at'[p].job = "user"
    BY ONLY <2>1 DEF Idle
  <2>. QED BY <1>1, <1>5, <2>2, SwapPteMem DEF Resolved
<1>. QED BY <1>1, <1>2, <1>3, <1>4, <1>5, FaultEnds

\* A fault ends with a page the program can write, or with the program's exit,
\* so no instruction faults for ever (vmm.cc:280-312).
THEOREM FaultsAreResolved == Spec => FaultsResolve
<1>1. VmmInv /\ VmmInv' /\ MemInv /\ [Next]_vars
        => [\A p \in Proc, va \in Touched : Over(p, va) => Resolved(p, va)]_vars
  BY VmmAssumption, FaultResolved
<1>. QED BY <1>1, VmmInvariant, MemInvariant, PTL DEF Spec, FaultsResolve

-----------------------------------------------------------------------------
(* Exact counts.                                                            *)

\* A frame without references is free, or about to be.
Accounted == \A f \in Frame : rc[f] = 0 => f \in free \cup Doomed

\* A frame whose count falls to zero is freed, and a frame that is handed out has a count.
FramesKept == \A f \in Frame : /\ rc'[f] = 0 => rc[f] = 0 \/ f \in free'
                               /\ f \in free => f \in free' \/ rc'[f] # 0

\* What each operation on the counts does, decref among them.
LEMMA OperationsAccount ==
  ASSUME VmmAssumption, VmmInv,
         \/ AllocFrame \/ FramesSame
         \/ \E g : AllocCopy(g) \/ IncRef(g) \/ DecRef(g)
  PROVE  FramesKept
<1>1. \A f \in Frame : rc[f] \in Int
  BY DEF VmmInv, TypeOK
<1>2. /\ \A f \in Frame : rc[f] >= 0
      /\ rc \in [Frame -> Int] /\ free \subseteq Frame
  BY <1>1, ReferencesStep DEF VmmInv, TypeOK, Counted
<1>3. CASE AllocFrame \/ \E g : AllocCopy(g)
  BY <1>2, <1>3 DEF AllocFrame, AllocCopy, FramesKept
<1>4. CASE FramesSame
  BY <1>4 DEF FramesSame, FramesKept
<1>5. ASSUME NEW g, IncRef(g) PROVE FramesKept
  BY <1>2, <1>5 DEF IncRef, FramesKept
<1>6. ASSUME NEW g, DecRef(g) PROVE FramesKept
  BY <1>2, <1>6 DEF DecRef, FramesKept
<1>. QED BY <1>3, <1>4, <1>5, <1>6

\* A table that is being destroyed goes on being so until it is freed.
LEMMA DoomedKept ==
  ASSUME VmmAssumption, VmmInv, NEW p \in Proc, NEW q \in Proc, Program(q) \/ Kernel(q),
         at[p].pc = "doom"
  PROVE  at[p].old \in free' \/ (at'[p].pc = "doom" /\ at'[p].old = at[p].old)
<1>1. TypeOK /\ at[p] \in Activation /\ at[p].job \notin {"user", "unborn", "born"}
  BY ActingPc DEF VmmInv, TypeOK
<1>2. CASE q # p
  BY <1>1, <1>2, Stays
<1>3. CASE q = p
  <2>1. DoomPte(p) \/ FreePt(p)
    BY <1>1, <1>3 DEF Program, Write, Fault, Fork, Exec, Exit, Kernel, FixPde, CopyPte, InstallPt,
       DropPt, FixPte, SwapPte, CopyPde, EnterPt, Forked, ClearPde, ClearPte, ClearedPt, Execed,
       FreePd, At
  <2>2. CASE DoomPte(p)
    <3>1. PICK i : at' = [at EXCEPT ![p].ptes = @ \ {i}]
      BY <2>2 DEF DoomPte
    <3>2. at'[p] = [at[p] EXCEPT !.ptes = at[p].ptes \ {i}]
      BY <1>1, <3>1 DEF TypeOK
    <3>. QED BY ONLY <1>1, <3>2, at[p].pc = "doom" DEF Activation
  <2>3. CASE FreePt(p)
    BY <2>3 DEF FreePt
  <2>. QED BY <2>1, <2>2, <2>3
<1>. QED BY <1>2, <1>3

\* What an action does to the counts, other than drop a table.
LEMMA ActionAccounts ==
  ASSUME VmmAssumption, VmmInv, NEW p \in Proc, Program(p) \/ Kernel(p), ~DropPt(p)
  PROVE  FramesKept
<1>1. CASE Program(p)
  <2>1. AllocFrame \/ UNCHANGED <<rc, free>>
    BY <1>1 DEF Program, Write, Fault, Fork, Exec, Exit, FramesSame
  <2>. QED BY <2>1, OperationsAccount DEF FramesKept
<1>2. CASE FixPde(p) \/ CopyPte(p) \/ CopyPde(p)
  <2>1. \/ AllocFrame \/ FramesSame
        \/ \E g : AllocCopy(g) \/ IncRef(g)
    BY <1>2 DEF FixPde, CopyPte, CopyPde
  <2>. QED BY <2>1, OperationsAccount
<1>3. CASE DoomPte(p) \/ SwapPte(p) \/ ClearPte(p) \/ FreePd(p)
  <2>1. FramesSame \/ \E g : DecRef(g)
    BY <1>3 DEF DoomPte, SwapPte, ClearPte, FreePd
  <2>. QED BY <2>1, OperationsAccount
<1>4. CASE FreePt(p)
  BY <1>4 DEF FreePt, FramesKept
<1>5. CASE FixPte(p)
  BY <1>5 DEF FixPte, FramesKept
<1>6. CASE InstallPt(p) \/ EnterPt(p) \/ Forked(p) \/ ClearPde(p) \/ ClearedPt(p) \/ Execed(p)
  <2>1. FramesSame
    BY <1>6 DEF InstallPt, EnterPt, Forked, ClearPde, ClearedPt, Execed
  <2>. QED BY <2>1, OperationsAccount
<1>. QED BY <1>1, <1>2, <1>3, <1>4, <1>5, <1>6 DEF Kernel

\* A table that loses its last reference is doomed.
LEMMA DropAccounts ==
  ASSUME VmmAssumption, VmmInv, NEW p \in Proc, DropPt(p), NEW f \in Frame
  PROVE  /\ rc'[f] = 0 => rc[f] = 0 \/ f \in Doomed'
         /\ f \in free => f \in free'
<1>1. /\ rc' = [rc EXCEPT ![at[p].old] = @ - 1] /\ free' = free
      /\ rc \in [Frame -> Int] /\ at \in [Proc -> Activation] /\ at[p] \in Activation
  BY DEF DropPt, VmmInv, TypeOK
<1>2. ASSUME rc'[f] = 0, rc[f] # 0 PROVE f \in Doomed'
  <2>1. f = at[p].old /\ rc[f] = 1
    BY <1>1, <1>2
  <2>2. at'[p] = [at[p] EXCEPT !.pc = "doom", !.ptes = Idx]
    BY <1>1, <2>1 DEF DropPt
  <2>3. at'[p].pc = "doom" /\ at'[p].old = at[p].old
    BY ONLY <1>1, <2>2 DEF Activation
  <2>. QED BY <2>1, <2>3 DEF Doomed
<1>. QED BY <1>1, <1>2

\* So no frame is forgotten: its count is not zero, it is free or it is being destroyed.
LEMMA AccountedKept ==
  ASSUME VmmAssumption, VmmInv, Accounted, NEW p \in Proc, Program(p) \/ Kernel(p)
  PROVE  Accounted'
<1>. SUFFICES ASSUME NEW f \in Frame, rc'[f] = 0 PROVE f \in free' \cup Doomed'
  BY DEF Accounted
<1>1. /\ rc[f] = 0 \/ f \in free' \/ f \in Doomed'
      /\ f \in free => f \in free'
  BY ActionAccounts, DropAccounts DEF FramesKept
<1>2. ASSUME f \in Doomed PROVE f \in free' \/ f \in Doomed'
  <2>1. PICK q \in Proc : at[q].pc = "doom" /\ at[q].old = f
    BY <1>2 DEF Doomed
  <2>. QED BY <2>1, DoomedKept DEF Doomed
<1>. QED BY <1>1, <1>2 DEF Accounted

\* While no program touches the device page, a step makes as many references as it counts.
LEMMA StepsEven ==
  ASSUME VmmAssumption, VmmInv, VmmInv', MemInv, Touched \cap Apic = {},
         NEW p \in Proc, Program(p) \/ Kernel(p)
  PROVE  Even
<1>1. CASE Program(p)
  BY <1>1, WriteKept, FaultKept, ForkKept, ExecExitKept DEF Program
<1>2. CASE FixPte(p)
  <2>1. at[p].va \in Touched
    BY <1>2 DEF FixPte, At, VmmInv, TypeOK, Coherent
  <2>2. at'[p].job # "exit"
    BY <1>2, <2>1, FixPteMem DEF Copied
  <2>. QED BY <1>2, <2>2, FixPteMem, FixPteKept
<1>3. CASE CopyPte(p) \/ CopyPde(p) \/ EnterPt(p) \/ FreePd(p)
  BY <1>3, CopyPteKept, CopyPteMem, CopyPdeKept, CopyPdeMem, EnterPtKept, EnterPtMem,
     FreePdKept, FreePdMem
<1>4. CASE FixPde(p) \/ InstallPt(p) \/ DropPt(p) \/ DoomPte(p) \/ FreePt(p) \/ SwapPte(p)
  BY <1>4, FixPdeKept, InstallPtKept, DropPtKept, DoomPteKept, FreePtKept, SwapPteKept
<1>5. CASE Forked(p) \/ ClearPde(p) \/ ClearPte(p) \/ ClearedPt(p) \/ Execed(p)
  BY <1>5, ForkedKept, ClearPdeKept, ClearPteKept, ClearedPtKept, ExecedKept
<1>. QED BY <1>1, <1>2, <1>3, <1>4, <1>5 DEF Kernel

\* Nothing is owed: every count is the number of references, at every step.
Exactly == Accounted /\ \A f \in Frame : Slack(f) = 0

\* Reference counts are exact while no program touches the device page (one that
\* does is made to exit in the middle of its fault, with a frame in hand): every
\* process that exits or execs gives back all that it held and no more.
THEOREM CountsAreExact == Touched \cap Apic = {} => (Spec => []CountsExact)
<1>. SUFFICES ASSUME Touched \cap Apic = {} PROVE Spec => []CountsExact
  OBVIOUS
<1>1. Init => Exactly
  BY VmmAssumption, InitCounted DEF Exactly, Accounted, Init
<1>2. VmmInv /\ VmmInv' /\ MemInv /\ Exactly /\ [Next]_vars => Exactly'
  <2>. SUFFICES ASSUME VmmInv, VmmInv', MemInv, Exactly, [Next]_vars PROVE Exactly'
    OBVIOUS
  <2>1. CASE UNCHANGED vars
    BY <2>1 DEF vars, Exactly, Accounted, Doomed, Slack, References, Entries, InHand
  <2>2. ASSUME NEW p \in Proc, Program(p) \/ Kernel(p) PROVE Exactly'
    BY <2>2, VmmAssumption, AccountedKept, StepsEven DEF Exactly, Even
  <2>. QED BY <2>1, <2>2 DEF Next
<1>3. VmmInv /\ Exactly => CountsExact
  <2>. SUFFICES ASSUME VmmInv, Exactly PROVE NoEarlyFree /\ NoLeak
    BY DEF CountsExact
  <2>1. NoEarlyFree
    BY DEF VmmInv, Counted, FreeEmpty, NoEarlyFree
  <2>2. \A f \in Frame : rc[f] <= References(f)
    <3>. TAKE f \in Frame
    <3>1. References(f) \in Nat /\ rc[f] \in Int /\ rc[f] - References(f) = 0
      BY VmmAssumption, ReferencesStep DEF VmmInv, TypeOK, Exactly, Slack
    <3>. QED BY <3>1
  <2>. QED BY <2>1, <2>2 DEF NoLeak, Exactly, Accounted
<1>. QED BY <1>1, <1>2, <1>3, VmmInvariant, MemInvariant, PTL DEF Spec
=============================================================================
