--------------------------- MODULE StartupProofs ----------------------------
(***************************************************************************)
(* Proofs about modules Boot, Ext2Open, Mount and Exec.                    *)
(*                                                                         *)
(* Boot.  That stacks are apart uses nothing of the assumption about       *)
(* tables: a table may as well name cores there are not.  That kernelMain  *)
(* starts once, with everything in place, does: the last core to arrive is *)
(* known by the number of entries in the table.                            *)
(*                                                                         *)
(* Ext2Open.  A walk is at the place where the names it has gone lead, on  *)
(* the path that the links it has followed lead to.  Where names and links *)
(* lead is defined step by step, so that there is such a function is       *)
(* proved first.                                                           *)
(*                                                                         *)
(* Mount.  The records of two i-nodes are never at one place.              *)
(*                                                                         *)
(* Exec.  The strings of the program before are followed through the       *)
(* kernel's buffer to the new stack: a text holds each of its strings at   *)
(* an offset, and copying a text, a word or a segment leaves the rest of   *)
(* memory alone.                                                           *)
(***************************************************************************)
EXTENDS Boot, Ext2Open, Mount, Exec, FiniteSetTheorems, SequenceTheorems, TLAPS

Entering == {"mbr", "resetEIP", "pickKernelStack", "kernelInit", "calibrate"}
Past == {"perCoreInit", "pitInit", "tss", "sti", "arrive", "stop"}
BspPlaces == Entering \cup {"start", "startup", "wait"} \cup Past
ApPlaces == {"off", "init", "resetEIP", "pickKernelStack", "kernelInit"} \cup Past

Types ==
    /\ machine \in Machines
    /\ at \in [Core -> BspPlaces \cup ApPlaces] /\ at[Bsp] \in BspPlaces
    /\ stack \in [Core -> Int]
    /\ id \in Nat /\ running \in Nat /\ smpInitDone \in BOOLEAN

\* The stack of a core is as far as the core.
StackOf(c) == IF at[c] \in {"mbr", "off", "init", "resetEIP"} THEN NoStack
              ELSE IF at[c] = "pickKernelStack" THEN tempStack ELSE c

\* The first core is alone until it starts the others,
Alone ==
    at[Bsp] \in Entering =>
        /\ \A c \in Core : c # Bsp => at[c] = "off"
        /\ running = 0
        /\ at[Bsp] = "calibrate" => smpInitDone = TRUE
        /\ at[Bsp] # "calibrate" => smpInitDone = FALSE

\* which it does one after the other: those before the one it is at have come, those behind
\* are off, and `running` says whether that one has come.
InTurn ==
    at[Bsp] \notin Entering =>
        /\ smpInitDone = TRUE /\ id > 0
        /\ \A c \in Core : c # Bsp =>
               /\ c < id => at[c] \in Past
               /\ c > id => at[c] = "off"
        /\ id \in Core /\ at[Bsp] = "startup" => at[id] = "init"
        /\ id \in Core /\ at[Bsp] = "wait" => at[id] \in ApPlaces \ {"off", "init"}
        /\ id \in Core /\ at[Bsp] \notin {"startup", "wait"} => at[id] = "off"
        /\ at[Bsp] \in {"start", "startup"} => running = id
        /\ at[Bsp] = "wait" =>
               running = IF id \in Core /\ at[id] \in Past THEN id + 1 ELSE id

Stacks == \A c \in Core : stack[c] = StackOf(c)

StackInv == Types /\ Alone /\ InTurn /\ Stacks

LEMMA Cores ==
  ASSUME machine \in Machines PROVE Core \subseteq Nat /\ Bsp \in Core
  <1>1. machine.cores \in 1 .. 16 BY BootAssumption
  <1>. QED BY <1>1 DEF Core, Bsp

LEMMA StartOK == ASSUME BootInit PROVE StackInv
  <1>. USE DEF BootInit, Bsp
  <1>0. Bsp \in Core /\ NoStack \in Int BY Cores DEF NoStack
  <1>1. Types
    <2>1. at[Bsp] = "mbr" /\ \A c \in Core : at[c] \in {"mbr", "off"} BY <1>0
    <2>2. at \in [Core -> BspPlaces \cup ApPlaces] /\ at[Bsp] \in BspPlaces
      BY <2>1 DEF BspPlaces, ApPlaces, Entering
    <2>3. stack \in [Core -> Int] BY <1>0
    <2>. QED BY <2>2, <2>3 DEF Types
  <1>2. Alone BY Cores DEF Alone
  <1>3. InTurn BY Cores DEF InTurn, Entering
  <1>4. Stacks BY Cores DEF Stacks, StackOf
  <1>. QED BY <1>1, <1>2, <1>3, <1>4 DEF StackInv

\* What the first core does alone, and what it does to start another.
LEMMA FirstOK == ASSUME StackInv, First PROVE StackInv'
  <1>a. machine' = machine
    BY DEF First, ReadSector, GetMemInfo, Discover, Calibrate,
           SendInit, SendStartup, Wait, Spin, AllCame, bootVars
  <1>0. Core \subseteq Nat /\ Bsp \in Core /\ Core' = Core
    BY <1>a, Cores DEF StackInv, Types, Core
  <1>. USE <1>0 DEF StackInv, Types, Alone, InTurn, Stacks, StackOf,
         BspPlaces, ApPlaces, Entering, Past, Bsp, NoStack, tempStack, Goes
  <1>1. CASE ReadSector BY <1>1 DEF ReadSector, kernelVars
  <1>2. CASE GetMemInfo BY <1>2 DEF GetMemInfo, kernelVars
  <1>3. CASE Discover BY <1>3 DEF Discover
  <1>4. CASE Calibrate
    <2>1. /\ at[Bsp] = "calibrate" /\ at' = [at EXCEPT ![Bsp] = "start"]
          /\ running' = running + 1 /\ id' = 1
          /\ UNCHANGED <<machine, smpInitDone, stack>>
      BY <1>4 DEF Calibrate
    <2>2. at'[Bsp] = "start" /\ \A c \in Core : c # Bsp => at'[c] = "off"
      BY <2>1
    <2>3. smpInitDone' = TRUE /\ running' = 1 BY <2>1
    <2>4. Types' BY <2>1
    <2>5. Alone' BY <2>2
    <2>6. InTurn' BY <2>1, <2>2, <2>3
    <2>7. Stacks' BY <2>1
    <2>. QED BY <2>4, <2>5, <2>6, <2>7
  <1>5. CASE SendInit BY <1>5 DEF SendInit, kernelVars
  <1>6. CASE SendStartup BY <1>6 DEF SendStartup, kernelVars
  <1>7. CASE Wait BY <1>7 DEF Wait, Came, kernelVars
  <1>8. CASE Spin BY <1>8 DEF Spin, bootVars, kernelVars
  <1>9. CASE AllCame BY <1>9 DEF AllCame, kernelVars
  <1>. QED BY <1>1, <1>2, <1>3, <1>4, <1>5, <1>6, <1>7, <1>8, <1>9 DEF First

\* What every core does: only the one that is started is not past the stack it came on.
LEMMA EachOK == ASSUME StackInv, NEW c \in Core, Each(c) PROVE StackInv'
  <1>a. machine' = machine
    BY DEF Each, ResetEIP, PickKernelStack, Come, PerCoreInit, PitInit, Tss, Sti, Arrive
  <1>0. Core \subseteq Nat /\ Bsp \in Core /\ Core' = Core
    BY <1>a, Cores DEF StackInv, Types, Core
  <1>. USE <1>0 DEF StackInv, Types, Alone, InTurn, Stacks, StackOf,
         BspPlaces, ApPlaces, Entering, Past, Bsp, NoStack, tempStack, Goes
  <1>1. CASE ResetEIP(c) BY <1>1 DEF ResetEIP, kernelVars
  <1>2. CASE PickKernelStack(c) BY <1>2 DEF PickKernelStack, kernelVars
  <1>3. CASE Come(c) BY <1>3 DEF Come, kernelVars
  <1>4. CASE PerCoreInit(c) BY <1>4 DEF PerCoreInit, kernelVars
  <1>5. CASE PitInit(c) BY <1>5 DEF PitInit, kernelVars
  <1>6. CASE Tss(c) BY <1>6 DEF Tss, kernelVars
  <1>7. CASE Sti(c) BY <1>7 DEF Sti, kernelVars
  <1>8. CASE Arrive(c) BY <1>8 DEF Arrive, kernelVars
  <1>. QED BY <1>1, <1>2, <1>3, <1>4, <1>5, <1>6, <1>7, <1>8 DEF Each

-----------------------------------------------------------------------------
\* For any number of cores, and whatever cores the table names: those before
\* the one that is started have come, those behind it are off, and each core is on the stack
\* of the place it has come to (mbr.S:159, init.cc:20, init.cc:132-143).
THEOREM StacksInvariant == BootSpec => []StackInv
  <1>1. BootInit => StackInv BY StartOK
  <1>2. StackInv /\ [BootNext]_bootVars => StackInv'
    <2>1. CASE UNCHANGED bootVars
      BY <2>1 DEF bootVars, kernelVars, StackInv, Types, Alone, InTurn, Stacks, StackOf, Core
    <2>. QED BY <2>1, FirstOK, EachOK DEF BootNext
  <1>. QED BY <1>1, <1>2, PTL DEF BootSpec

\* Two cores that start are never on one stack.
LEMMA OneOnTheTemporary == ASSUME StackInv PROVE StacksApart
  <1>. SUFFICES ASSUME NEW c \in Core, NEW d \in Core, c # d, stack[c] = stack[d], stack[c] # NoStack
                PROVE  FALSE
    BY DEF StacksApart
  <1>1. Core \subseteq Nat /\ Bsp \in Core BY Cores DEF StackInv, Types
  <1>2. at[c] = "pickKernelStack" /\ at[d] = "pickKernelStack"
    BY <1>1 DEF StackInv, Stacks, StackOf, NoStack, tempStack
  <1>3. at[Bsp] \notin Entering /\ c # Bsp /\ d # Bsp
    BY <1>2 DEF StackInv, Alone, Entering
  <1>4. c = id /\ d = id
    BY <1>1, <1>2, <1>3 DEF StackInv, Types, InTurn, Past
  <1>. QED BY <1>4

\* No two cores are on the temporary stack together, nor on one kernel stack (mbr.S:159).
THEOREM Apart == BootSpec => []StacksApart
  BY StacksInvariant, OneOnTheTemporary, PTL

-----------------------------------------------------------------------------
(* What the machine says of itself.                                         *)

\* Words one of which is 0, or that are equal.
LEMMA OrIs == ASSUME NEW a \in Nat, NEW b \in Nat PROVE Or(a, b) = IF a >= b THEN a ELSE b
  <1>1. PICK m : m \in {a, b} /\ \A y \in {a, b} : m >= y OBVIOUS
  <1>2. Max({a, b}) \in {a, b} /\ \A y \in {a, b} : Max({a, b}) >= y BY <1>1 DEF Max
  <1>. QED BY <1>2 DEF Or

\* The size that the registers of the BIOS add up to is the memory's (config.cc:112-123).
LEMMA MemoryFound ==
  ASSUME machine \in Machines, memInfo = E801(machine)
  PROVE  Config.memSize = machine.ram
  <1>. DEFINE r == machine.ram
              h == (r - 16 * 1024) \div 64
  <1>1. r \in Nat /\ r % 64 = 0 /\ r > 16 * 1024 /\ r < 2 ^ 22
    BY BootAssumption
  <1>2. h \in Nat /\ 64 * h = r - 16 * 1024
    <2>. HIDE DEF r
    <2>. QED BY <1>1
  <1>3. /\ memInfo.ax \in {0, 15 * 1024} /\ memInfo.cx \in {0, 15 * 1024}
        /\ memInfo.ax = 15 * 1024 \/ memInfo.cx = 15 * 1024
        /\ memInfo.bx \in {0, h} /\ memInfo.dx \in {0, h}
        /\ memInfo.bx = h \/ memInfo.dx = h
    BY DEF E801
  <1>. HIDE DEF h
  <1>4. Or(memInfo.ax, memInfo.cx) = 15 * 1024 /\ Or(memInfo.bx, memInfo.dx) = h
    BY <1>2, <1>3, OrIs
  <1>5. memAbove1M = r - 1024 BY <1>1, <1>2, <1>4 DEF memAbove1M
  <1>6. (memAbove1M + 1024) % 2 ^ 22 = r
    <2>. HIDE DEF r
    <2>. QED BY <1>1, <1>5
  <1>. QED BY <1>6 DEF Config

\* configInit looks at the entries behind the first and what follows the last.
LEMMA LooksBehind ==
  ASSUME NEW S, NEW t \in Seq(S), NEW a \in S, t # <<>>
  PROVE  /\ DOMAIN (Tail(t) \o <<a>>) = 1 .. Len(t)
         /\ \A k \in 1 .. Len(t) - 1 : (Tail(t) \o <<a>>)[k] = t[k + 1]
         /\ (Tail(t) \o <<a>>)[Len(t)] = a
  <1>1. Tail(t) \in Seq(S) /\ Len(Tail(t)) = Len(t) - 1 /\ Len(t) \in Nat \ {0}
    OBVIOUS
  <1>2. <<a>> \in Seq(S) /\ Len(<<a>>) = 1 /\ <<a>>[1] = a OBVIOUS
  <1>. DEFINE h == Tail(t)
              e == <<a>>
  <1>3. \A k \in 1 .. Len(t) - 1 : h[k] = t[k + 1] BY <1>1
  <1>. HIDE DEF h, e
  <1>4. Len(h \o e) = Len(t) /\ h \o e \in Seq(S) BY <1>1, <1>2 DEF h, e
  <1>5. \A k \in 1 .. Len(t) : (h \o e)[k] = IF k <= Len(h) THEN h[k] ELSE e[k - Len(h)]
    BY <1>1, <1>2 DEF h, e
  <1>6. (h \o e)[Len(t)] = a BY <1>1, <1>2, <1>5 DEF h, e
  <1>7. \A k \in 1 .. Len(t) - 1 : (h \o e)[k] = t[k + 1] BY <1>1, <1>3, <1>5 DEF h
  <1>8. DOMAIN (h \o e) = 1 .. Len(t) BY <1>4
  <1>. QED BY <1>6, <1>7, <1>8 DEF h, e

\* As many things as numbers, when each has one of its own.
LEMMA Numbered ==
  ASSUME NEW n \in Nat \ {0}, NEW A, NEW f \in [A -> 1 .. n - 1],
         \A k, l \in A : f[k] = f[l] => k = l,
         \A x \in 1 .. n - 1 : \E k \in A : f[k] = x
  PROVE  Cardinality(A) = n - 1
  <1>1. IsFiniteSet(1 .. n - 1) /\ Cardinality(1 .. n - 1) = n - 1
    <2>1. 1 \in Int /\ n - 1 \in Int OBVIOUS
    <2>. QED BY <2>1, FS_Interval
  <1>2. f \in Injection(A, 1 .. n - 1) BY DEF Injection, IsInjective
  <1>3. f \in Surjection(A, 1 .. n - 1) BY DEF Surjection
  <1>4. Cardinality(A) = Cardinality(1 .. n - 1) BY ONLY <1>1, <1>2, <1>3, FS_Injection
  <1>. QED BY <1>1, <1>4

\* The table names every core of the machine once, and nothing else (config.cc:149-165).
LEMMA CoresFound ==
  ASSUME machine \in Machines
  PROVE  Config.totalProcs = machine.cores
  <1>. DEFINE t == machine.madt
              a == machine.after
              n == machine.cores
              E(k) == Entries(machine, k)
              s == LooksAt
              A == {k \in DOMAIN s : Counts(s[k])}
              f == [k \in A |-> s[k].processorId]
  <1>1. Listed(machine) /\ n \in 1 .. 16 BY BootAssumption
  <1>2. /\ t \in Seq(MadtEntry) /\ a \in MadtEntry
        /\ 1 \in E(0)
        /\ \A k \in 1 .. 255 : Cardinality(E(k)) = IF k < n THEN 1 ELSE 0
        /\ a.type = 0 => a.processorId = 0
    BY <1>1 DEF Listed
  <1>3. \A k : \A j : j \in E(k) <=> j \in DOMAIN t /\ t[j].type = 0 /\ t[j].processorId = k
    BY DEF Entries
  <1>4. s = Tail(t) \o <<a>> BY DEF LooksAt
  <1>5. Config.totalProcs = Cardinality(A) + 1 BY DEF Config, nOtherProcs
  <1>. HIDE DEF t, a, n, E, s
  <1>6. t # <<>> /\ Len(t) \in Nat /\ DOMAIN t = 1 .. Len(t) BY <1>2, <1>3
  <1>7. /\ DOMAIN s = 1 .. Len(t)
        /\ \A k \in 1 .. Len(t) - 1 : s[k] = t[k + 1]
        /\ s[Len(t)] = a
    <2>1. /\ DOMAIN (Tail(t) \o <<a>>) = 1 .. Len(t)
          /\ \A k \in 1 .. Len(t) - 1 : (Tail(t) \o <<a>>)[k] = t[k + 1]
          /\ (Tail(t) \o <<a>>)[Len(t)] = a
      BY <1>2, <1>6, LooksBehind
    <2>. QED BY ONLY <1>4, <2>1
  <1>8. \A j \in DOMAIN t : t[j] \in MadtEntry BY <1>2
  <1>9. \A j \in DOMAIN t : t[j].processorId \in 0 .. 255 BY <1>8 DEF MadtEntry
  <1>10. /\ \A k : k \in A <=> k \in DOMAIN s /\ s[k].type = 0 /\ s[k].processorId # 0
         /\ \A k \in A : f[k] = s[k].processorId
         /\ DOMAIN f = A /\ f \in [A -> {f[k] : k \in A}]
    BY DEF Counts
  <1>. HIDE DEF f, A
  <1>11. ASSUME NEW k \in A PROVE k \in 1 .. Len(t) - 1 /\ k + 1 \in E(f[k]) /\ f[k] \in 1 .. 255
    <2>1. k \in 1 .. Len(t) /\ s[k].type = 0 /\ s[k].processorId # 0 /\ f[k] = s[k].processorId
      BY <1>7, <1>10
    <2>2. k # Len(t) BY <1>2, <1>7, <2>1
    <2>3. k \in 1 .. Len(t) - 1 /\ k + 1 \in DOMAIN t /\ s[k] = t[k + 1]
      <3>1. k \in 1 .. Len(t) - 1 /\ k + 1 \in 1 .. Len(t)
        <4>1. k \in 1 .. Len(t) /\ Len(t) \in Nat BY ONLY <1>6, <2>1
        <4>2. \A l \in Nat : \A i \in 1 .. l : i # l => i \in 1 .. l - 1 /\ i + 1 \in 1 .. l
          OBVIOUS
        <4>. QED BY ONLY <2>2, <4>1, <4>2
      <3>. QED BY <1>6, <1>7, <3>1
    <2>4. f[k] = t[k + 1].processorId /\ t[k + 1].type = 0 BY <2>1, <2>3
    <2>. QED BY <1>3, <1>9, <2>1, <2>3, <2>4
  <1>12. IsFiniteSet(DOMAIN t) BY <1>6, FS_Interval
  <1>13. \A k : IsFiniteSet(E(k))
    <2>1. \A k : E(k) \in SUBSET DOMAIN t BY <1>3
    <2>. QED BY <1>12, <2>1, FS_Subset
  <1>14. ASSUME NEW k \in A PROVE f[k] \in 1 .. n - 1 /\ E(f[k]) = {k + 1}
    <2>1. k + 1 \in E(f[k]) /\ f[k] \in 1 .. 255 BY <1>11
    <2>2. Cardinality(E(f[k])) # 0 BY <2>1, <1>13, FS_EmptySet
    <2>3. f[k] < n /\ Cardinality(E(f[k])) = 1 BY <1>2, <2>1, <2>2
    <2>4. PICK x : E(f[k]) = {x} BY <1>13, <2>3, FS_Singleton
    <2>. QED BY <1>1, <2>1, <2>3, <2>4 DEF n
  <1>15. ASSUME NEW x \in 1 .. n - 1 PROVE \E k \in A : f[k] = x
    <2>1. x \in 1 .. 255 /\ x < n BY <1>1 DEF n
    <2>2. Cardinality(E(x)) = 1 BY <1>2, <2>1
    <2>3. PICK j : E(x) = {j} BY <1>13, <2>2, FS_Singleton
    <2>4. j \in 1 .. Len(t) /\ t[j].type = 0 /\ t[j].processorId = x BY <1>3, <1>6, <2>3
    <2>5. j # 1 BY <1>2, <1>3, <2>1, <2>4
    <2>6. j - 1 \in 1 .. Len(t) - 1 /\ (j - 1) + 1 = j BY <1>6, <2>4, <2>5
    <2>7. s[j - 1] = t[j] /\ j - 1 \in DOMAIN s BY <1>6, <1>7, <2>6
    <2>8. j - 1 \in A BY <1>10, <2>1, <2>4, <2>7
    <2>9. f[j - 1] = x BY ONLY <1>10, <2>4, <2>7, <2>8
    <2>. QED BY ONLY <2>8, <2>9
  <1>16. \A k, l \in A : f[k] = f[l] => k = l
    <2>. SUFFICES ASSUME NEW k \in A, NEW l \in A, f[k] = f[l] PROVE k = l
      OBVIOUS
    <2>1. k \in Int /\ l \in Int BY <1>11
    <2>2. {k + 1} = {l + 1} BY ONLY <1>14, k \in A, l \in A, f[k] = f[l]
    <2>. QED BY <2>1, <2>2
  <1>17. f \in [A -> 1 .. n - 1] BY <1>10, <1>14
  <1>18. n \in Nat \ {0} BY <1>1 DEF n
  <1>19. Cardinality(A) = n - 1 BY <1>15, <1>16, <1>17, <1>18, Numbered
  <1>. QED BY <1>5, <1>18, <1>19 DEF n, A, s

-----------------------------------------------------------------------------
(* What is in place when kernelMain starts.                                 *)

\* The boot sector has read the sectors before the one it is at.
Read(n) == {[sector |-> k, segment |-> 1984 + 32 * k] : k \in 1 .. n}

Loading ==
    IF at[Bsp] = "mbr"
    THEN /\ mbr.bp \in 1 .. machine.sectors
         /\ mbr.cx = machine.sectors + 1 - mbr.bp /\ mbr.di = 1984 + 32 * mbr.bp
         /\ mbr.read = Read(mbr.bp - 1)
    ELSE mbr.read = Read(machine.sectors - 1)

\* What the first core finds out, and sets up for all.
ThingsFound ==
    /\ at[Bsp] \in {"resetEIP", "pickKernelStack", "kernelInit"} => memInfo = E801(machine)
    /\ at[Bsp] \notin Entering \ {"calibrate"} =>
           /\ kConfig.totalProcs = machine.cores
           /\ Framed /\ activeThreads = Core
           /\ {PageFault, SysCall, Spurious} \subseteq idt
    /\ at[Bsp] \notin Entering =>
           /\ apitCounter \in Nat /\ apitCounter > 0
           /\ APIT_vector \in idt

\* How much of its own each core has set up.
Cpus == [paging : BOOLEAN, timer : Int, ss0 : BOOLEAN, task : Int, on : BOOLEAN]
Ready ==
    /\ cpu \in [Core -> Cpus]
    /\ \A c \in Core :
           /\ at[c] \in Past \ {"perCoreInit"} => cpu[c].paging
           /\ at[c] \in {"tss", "sti", "arrive", "stop"} => cpu[c].timer = apitCounter
           /\ at[c] \in {"sti", "arrive", "stop"} => cpu[c].ss0 /\ cpu[c].task = c
           /\ cpu[c].on <=> at[c] \in {"arrive", "stop"}

\* howManyAreHere counts the cores that are, and the last of them starts kernelMain.
Here == {c \in Core : at[c] = "stop"}
AllHere ==
    /\ howManyAreHere = Cardinality(Here)
    /\ kernelMains = IF howManyAreHere = machine.cores THEN 1 ELSE 0

BootInv == StackInv /\ Loading /\ ThingsFound /\ Ready /\ AllHere

\* Cores that stopped are all cores when there are as many.
LEMMA StopSet ==
  ASSUME machine \in Machines, NEW S \in SUBSET Core
  PROVE  /\ IsFiniteSet(S) /\ Cardinality(S) \in Nat
         /\ Cardinality(S) <= machine.cores
         /\ Cardinality(S) = machine.cores => S = Core
  <1>1. machine.cores \in 1 .. 16 BY BootAssumption
  <1>2. 0 \in Int /\ machine.cores - 1 \in Int /\ ~(0 > machine.cores - 1)
        /\ machine.cores - 1 - 0 + 1 = machine.cores
    BY <1>1
  <1>3. IsFiniteSet(0 .. machine.cores - 1) /\ Cardinality(0 .. machine.cores - 1) = machine.cores
    BY <1>2, FS_Interval
  <1>4. IsFiniteSet(Core) /\ Cardinality(Core) = machine.cores BY <1>3 DEF Core
  <1>. QED BY <1>4, FS_Subset, FS_CardinalityType

\* When the boot sector starts nothing has been done.
LEMMA BootStartOK == ASSUME BootInit PROVE BootInv
  <1>1. StackInv BY StartOK
  <1>2. machine \in Machines /\ machine.sectors \in 1 .. 1218 /\ machine.cores \in 1 .. 16
    BY BootAssumption DEF BootInit
  <1>3. Loading
    <2>1. 1 .. 0 = {} OBVIOUS
    <2>2. Read(0) = {} BY <2>1 DEF Read
    <2>3. mbr = [cx |-> machine.sectors, bp |-> 1, di |-> 2016, read |-> {}] /\ at[Bsp] = "mbr"
      BY <1>2, Cores DEF BootInit
    <2>4. 1 \in 1 .. machine.sectors /\ machine.sectors = machine.sectors + 1 - 1 /\ 1 - 1 = 0
      BY <1>2
    <2>. QED BY <2>2, <2>3, <2>4 DEF Loading
  <1>4. at[Bsp] = "mbr" /\ \A c \in Core : at[c] \in {"mbr", "off"}
    BY <1>2, Cores DEF BootInit, Bsp
  <1>5. ThingsFound BY <1>4 DEF ThingsFound, Entering
  <1>6. Ready BY <1>4 DEF BootInit, Ready, Cpus, Cold, Past
  <1>7. Here = {} BY <1>4 DEF Here
  <1>8. AllHere BY <1>2, <1>7, FS_EmptySet DEF BootInit, AllHere
  <1>. QED BY <1>1, <1>3, <1>5, <1>6, <1>8 DEF BootInv

\* A step that sets up nothing of a core, and with which none stops.
LEMMA ReadyKept ==
  ASSUME BootInv, machine' = machine, cpu' = cpu,
         UNCHANGED <<howManyAreHere, kernelMains>>,
         \A c \in Core : \/ at'[c] = at[c]
                         \/ at'[c] \notin Past /\ at[c] \notin Past
                         \/ at'[c] = "perCoreInit" /\ at[c] \notin Past,
         apitCounter' = apitCounter \/ at[Bsp] \in Entering
  PROVE  Ready' /\ AllHere'
  <1>0. Core' = Core BY DEF Core
  <1>1. \A c \in Core : at[c] = "stop" <=> at'[c] = "stop" BY DEF Past
  <1>2. Here' = Here BY <1>0, <1>1 DEF Here
  <1>3. AllHere' BY <1>2 DEF AllHere, BootInv
  <1>4. Bsp \in Core BY Cores DEF BootInv, StackInv, Types
  <1>5. apitCounter' # apitCounter => \A c \in Core : at[c] \notin Past
    BY <1>4 DEF BootInv, StackInv, Alone, Entering, Past
  <1>6. Ready' BY <1>0, <1>5 DEF BootInv, Ready, Past
  <1>. QED BY <1>3, <1>6

\* The first core, from the boot sector to the last core it starts: one step for each action.
LEMMA BootFirstOK == ASSUME BootInv, First PROVE BootInv'
  <1>1. StackInv' BY FirstOK DEF BootInv
  <1>2. machine' = machine /\ cpu' = cpu /\ UNCHANGED <<howManyAreHere, kernelMains>>
    BY DEF First, ReadSector, GetMemInfo, Discover, Calibrate,
           SendInit, SendStartup, Wait, Spin, AllCame, bootVars
  <1>3. Core \subseteq Nat /\ Bsp \in Core /\ Core' = Core /\ at \in [Core -> BspPlaces \cup ApPlaces]
        /\ machine \in Machines
    BY <1>2, Cores DEF BootInv, StackInv, Types, Core
  <1>4. machine.sectors \in 1 .. 1218 /\ machine.swing \in Nat /\ machine.swing >= 1000
    BY <1>3, BootAssumption
  <1>. SUFFICES Loading' /\ ThingsFound' /\ Ready' /\ AllHere'
    BY <1>1 DEF BootInv
  <1>5. CASE ReadSector
    <2>1. /\ at[Bsp] = "mbr" /\ at' = at /\ Left # 0
          /\ mbr' = [cx |-> Left, bp |-> mbr.bp + 1, di |-> (mbr.di + 32) % 2 ^ 16,
                     read |-> mbr.read \cup {[sector |-> mbr.bp, segment |-> mbr.di]}]
          /\ UNCHANGED <<kernelVars, memInfo>>
      BY <1>5 DEF ReadSector
    <2>. DEFINE b == mbr.bp
                s == machine.sectors
    <2>2. /\ b \in 1 .. s /\ s \in 1 .. 1218
          /\ mbr.cx = s + 1 - b /\ mbr.di = 1984 + 32 * b /\ mbr.read = Read(b - 1)
      BY <1>4, <2>1 DEF BootInv, Loading
    <2>3. Left = (mbr.cx - 1) % 2 ^ 16 BY DEF Left
    <2>. HIDE DEF b, s
    <2>4. Left = s - b /\ b < s
      <3>1. mbr.cx - 1 = s - b /\ s - b \in 0 .. 1218 BY <2>2
      <3>2. \A n \in 0 .. 1218 : n % 2 ^ 16 = n OBVIOUS
      <3>3. Left = s - b BY ONLY <2>3, <3>1, <3>2
      <3>. QED BY <2>1, <2>2, <3>3
    <2>5. (mbr.di + 32) % 2 ^ 16 = 1984 + 32 * (b + 1) BY <2>2, <2>4
    <2>6. Read(b) = Read(b - 1) \cup {[sector |-> b, segment |-> 1984 + 32 * b]}
      <3>1. 1 .. b = (1 .. b - 1) \cup {b} BY <2>2
      <3>. QED BY <3>1 DEF Read
    <2>7. /\ mbr'.bp = b + 1 /\ mbr'.cx = s - b /\ mbr'.di = 1984 + 32 * (b + 1)
          /\ mbr'.read = Read(b)
      BY <2>1, <2>2, <2>4, <2>5, <2>6 DEF b
    <2>8. b + 1 \in 1 .. s /\ s - b = s + 1 - (b + 1) /\ b = (b + 1) - 1 BY <2>2, <2>4
    <2>9. Loading' BY <1>2, <2>1, <2>7, <2>8 DEF Loading, s
    <2>10. ThingsFound' BY <1>2, <2>1 DEF BootInv, ThingsFound, kernelVars, Framed, Entering
    <2>. QED BY <1>2, <2>1, <2>9, <2>10, ReadyKept DEF kernelVars
  <1>6. CASE GetMemInfo
    <2>1. /\ at[Bsp] = "mbr" /\ at' = [at EXCEPT ![Bsp] = "resetEIP"] /\ Left = 0
          /\ memInfo' = E801(machine) /\ UNCHANGED <<mbr, kernelVars>>
      BY <1>6 DEF GetMemInfo, Goes
    <2>2. mbr.bp = machine.sectors
      <3>. DEFINE s == machine.sectors
                  b == mbr.bp
      <3>1. s \in 1 .. 1218 /\ b \in 1 .. s /\ (s + 1 - b - 1) % 2 ^ 16 = 0
        <4>1. s \in 1 .. 1218 /\ b \in 1 .. s /\ mbr.cx = s + 1 - b
          BY <1>4, <2>1 DEF BootInv, Loading
        <4>2. (mbr.cx - 1) % 2 ^ 16 = 0 BY <2>1 DEF Left
        <4>. HIDE DEF s, b
        <4>. QED BY <4>1, <4>2
      <3>. HIDE DEF s, b
      <3>2. b = s BY <3>1
      <3>. QED BY <3>2 DEF s, b
    <2>3. at'[Bsp] = "resetEIP" /\ \A c \in Core : c # Bsp => at'[c] = at[c] BY <1>3, <2>1
    <2>4. Loading' BY <1>2, <2>1, <2>2, <2>3 DEF BootInv, Loading
    <2>5. ThingsFound' BY <1>2, <2>1, <2>3 DEF ThingsFound, Entering, E801
    <2>. QED BY <1>2, <2>1, <2>3, <2>4, <2>5, ReadyKept DEF kernelVars, Past
  <1>7. CASE Discover
    <2>1. /\ at[Bsp] = "kernelInit" /\ at' = [at EXCEPT ![Bsp] = "calibrate"]
          /\ kConfig' = Config
          /\ frames' = [start |-> HEAP_END, size |-> Config.memSize - HEAP_END]
          /\ idt' = {PageFault, SysCall, Spurious}
          /\ activeThreads' = IdleThreads(Config.totalProcs)
          /\ UNCHANGED <<mbr, memInfo, apitCounter>>
      BY <1>7 DEF Discover, Goes, loaderVars
    <2>2. Config.memSize = machine.ram /\ Config.totalProcs = machine.cores
      BY <1>3, <2>1, MemoryFound, CoresFound DEF BootInv, ThingsFound
    <2>3. at'[Bsp] = "calibrate" /\ \A c \in Core : c # Bsp => at'[c] = at[c] BY <1>3, <2>1
    <2>4. Loading' BY <1>2, <2>1, <2>3 DEF BootInv, Loading
    <2>5. Framed' 
      <3>1. machine.ram \in Nat BY <1>3, BootAssumption
      <3>. QED BY <1>2, <2>1, <2>2, <3>1 DEF Framed, HEAP_END
    <2>6. ThingsFound' BY <1>2, <1>3, <2>1, <2>2, <2>3, <2>5 DEF ThingsFound, Entering, IdleThreads, Core
    <2>. QED BY <1>2, <2>1, <2>3, <2>4, <2>6, ReadyKept DEF Past
  <1>8. CASE Calibrate
    <2>1. /\ at[Bsp] = "calibrate" /\ at' = [at EXCEPT ![Bsp] = "start"]
          /\ \E first \in {1, machine.swing} : apitCounter' = (first + 39 * machine.swing) \div 1000
          /\ idt' = idt \cup {APIT_vector}
          /\ UNCHANGED <<mbr, memInfo, kConfig, frames, activeThreads>>
      BY <1>8 DEF Calibrate, Goes, loaderVars
    <2>2. apitCounter' \in Nat /\ apitCounter' > 0
      <3>. DEFINE s == machine.swing
      <3>1. PICK first \in {1, s} : apitCounter' = (first + 39 * s) \div 1000 BY <2>1
      <3>2. s \in Nat /\ s >= 1000 BY <1>4
      <3>. HIDE DEF s
      <3>3. first \in Nat BY <3>1, <3>2
      <3>. QED BY <3>1, <3>2, <3>3
    <2>3. at'[Bsp] = "start" /\ \A c \in Core : c # Bsp => at'[c] = at[c] BY <1>3, <2>1
    <2>4. Loading' BY <1>2, <2>1, <2>3 DEF BootInv, Loading
    <2>5. ThingsFound' BY <1>2, <1>3, <2>1, <2>2, <2>3 DEF BootInv, ThingsFound, Entering, Framed, Core
    <2>. QED BY <1>2, <2>1, <2>3, <2>4, <2>5, ReadyKept DEF Past, Entering
  <1>9. ASSUME SendInit \/ SendStartup \/ Wait \/ Spin \/ AllCame
        PROVE  Loading' /\ ThingsFound' /\ Ready' /\ AllHere'
    <2>1. /\ at[Bsp] \in {"start", "startup", "wait"}
          /\ at'[Bsp] \in {"start", "startup", "wait", "perCoreInit"}
          /\ UNCHANGED <<mbr, memInfo, kernelVars>>
          /\ (at'[Bsp] \notin Past \/ at'[Bsp] = "perCoreInit")
      <3>1. /\ mbr' = mbr /\ memInfo' = memInfo /\ UNCHANGED kernelVars
            /\ at[Bsp] \in {"start", "startup", "wait"}
        BY <1>9 DEF SendInit, SendStartup, Wait, Spin, AllCame, loaderVars, bootVars
      <3>2. at'[Bsp] \in {"start", "startup", "wait", "perCoreInit"}
        <4>1. CASE SendInit \/ SendStartup
          <5>0. id # Bsp BY <3>1 DEF BootInv, StackInv, Types, InTurn, Entering, Bsp
          <5>1. CASE SendInit BY <1>3, <5>0, <5>1 DEF SendInit
          <5>2. CASE SendStartup BY <1>3, <5>0, <5>2 DEF SendStartup
          <5>. QED BY <4>1, <5>1, <5>2
        <4>2. CASE Wait \/ AllCame
          <5>1. \E to \in {"start", "perCoreInit"} : at' = [at EXCEPT ![Bsp] = to]
            BY <4>2 DEF Wait, AllCame, Goes
          <5>. QED BY <1>3, <5>1
        <4>3. CASE Spin BY <3>1, <4>3 DEF Spin, bootVars
        <4>. QED BY <1>9, <4>1, <4>2, <4>3
      <3>. QED BY <3>1, <3>2 DEF Past
    <2>2. \A c \in Core : c # Bsp => \/ at'[c] = at[c]
                                     \/ at'[c] \notin Past /\ at[c] \notin Past
      <3>. SUFFICES ASSUME NEW c \in Core, c # Bsp, at'[c] # at[c]
                    PROVE  at'[c] \notin Past /\ at[c] \notin Past
        OBVIOUS
      <3>1. c = id /\ at'[c] \in {"init", "resetEIP"} /\ at[Bsp] \in {"start", "startup"}
        BY <1>3, <1>9 DEF SendInit, SendStartup, Wait, Spin, AllCame, Goes, bootVars
      <3>. QED BY <1>3, <3>1 DEF BootInv, StackInv, InTurn, Entering, Past
    <2>3. Loading' BY <1>2, <2>1 DEF BootInv, Loading
    <2>4. ThingsFound' BY <1>2, <1>3, <2>1 DEF BootInv, ThingsFound, Entering, Past, kernelVars, Framed
    <2>5. \A c \in Core : \/ at'[c] = at[c]
                          \/ at'[c] \notin Past /\ at[c] \notin Past
                          \/ at'[c] = "perCoreInit" /\ at[c] \notin Past
      BY <2>1, <2>2 DEF Past
    <2>. QED BY <1>2, <2>1, <2>3, <2>4, <2>5, ReadyKept DEF kernelVars
  <1>. QED BY <1>5, <1>6, <1>7, <1>8, <1>9 DEF First

\* What each core sets up, and that it is counted once.
LEMMA BootEachOK == ASSUME BootInv, NEW c \in Core, Each(c) PROVE BootInv'
  <1>1. StackInv' BY EachOK DEF BootInv
  <1>2. machine' = machine /\ UNCHANGED <<mbr, memInfo, kConfig, frames, idt, activeThreads, apitCounter>>
    BY DEF Each, ResetEIP, PickKernelStack, Come, PerCoreInit, PitInit, Tss, Sti, Arrive,
           loaderVars, kernelVars
  <1>3. Core \subseteq Nat /\ Bsp \in Core /\ Core' = Core /\ at \in [Core -> BspPlaces \cup ApPlaces]
        /\ machine \in Machines
    BY <1>2, Cores DEF BootInv, StackInv, Types, Core
  <1>4. /\ at[c] \in {"resetEIP", "pickKernelStack", "kernelInit"} \cup (Past \ {"stop"})
        /\ \E to \in {"pickKernelStack", "kernelInit"} \cup Past :
               /\ at' = [at EXCEPT ![c] = to]
               /\ at[c] \in Past => to \in Past
               /\ c = Bsp /\ to \in Past => at[c] \in Past
    BY DEF Each, ResetEIP, PickKernelStack, Come, PerCoreInit, PitInit, Tss, Sti, Arrive, Goes, Past
  <1>5. /\ \A d \in Core : d # c => at'[d] = at[d]
        /\ at'[c] \in {"pickKernelStack", "kernelInit"} \cup Past
        /\ c = Bsp => (at'[c] \in Past <=> at[c] \in Past)
    <2>1. PICK to \in {"pickKernelStack", "kernelInit"} \cup Past :
             /\ at' = [at EXCEPT ![c] = to]
             /\ at[c] \in Past => to \in Past
             /\ c = Bsp /\ to \in Past => at[c] \in Past
      BY <1>4
    <2>2. at'[c] = to /\ \A d \in Core : d # c => at'[d] = at[d] BY <1>3, <2>1
    <2>. QED BY <2>1, <2>2
  <1>6. Loading'
    BY <1>2, <1>3, <1>4, <1>5 DEF BootInv, Loading, Past
  <1>7. ThingsFound'
    <2>1. at'[Bsp] = at[Bsp] \/ Bsp = c BY <1>3, <1>5
    <2>. QED BY <1>2, <1>3, <1>4, <1>5, <2>1 DEF BootInv, ThingsFound, Framed, Entering, Past
  <1>. SUFFICES Ready' /\ AllHere'
    BY <1>1, <1>6, <1>7 DEF BootInv
  <1>8. CASE ResetEIP(c) \/ PickKernelStack(c) \/ Come(c)
    <2>1. cpu' = cpu /\ UNCHANGED <<howManyAreHere, kernelMains>> /\ at[c] \notin Past
          /\ (at'[c] \notin Past \/ at'[c] = "perCoreInit")
      BY <1>3, <1>8 DEF ResetEIP, PickKernelStack, Come, Goes, Past
    <2>2. \A d \in Core : \/ at'[d] = at[d]
                          \/ at'[d] \notin Past /\ at[d] \notin Past
                          \/ at'[d] = "perCoreInit" /\ at[d] \notin Past
      BY <1>5, <2>1
    <2>. QED BY <1>2, <2>1, <2>2, ReadyKept
  <1>9. /\ \A d \in Core : at[d] \in Past => at[Bsp] \notin Entering
        /\ cpu[c] \in Cpus /\ cpu \in [Core -> Cpus]
    BY <1>3 DEF BootInv, Ready, StackInv, Alone, Entering, Past
  <1>10. ASSUME PerCoreInit(c) \/ PitInit(c) \/ Tss(c) \/ Sti(c)
         PROVE  Ready' /\ AllHere'
    <2>1. UNCHANGED <<howManyAreHere, kernelMains>> /\ at'[c] # "stop" /\ at[c] # "stop"
      BY <1>3, <1>10 DEF PerCoreInit, PitInit, Tss, Sti, Goes
    <2>2. Here' = Here BY <1>3, <1>5, <2>1 DEF Here
    <2>3. AllHere' BY <1>2, <2>1, <2>2 DEF BootInv, AllHere
    <2>4. /\ cpu'[c] \in Cpus /\ cpu' = [cpu EXCEPT ![c] = cpu'[c]]
          /\ at'[c] \in Past \ {"perCoreInit"} => cpu'[c].paging
          /\ at'[c] \in {"tss", "sti", "arrive", "stop"} => cpu'[c].timer = apitCounter
          /\ at'[c] \in {"sti", "arrive", "stop"} => cpu'[c].ss0 /\ cpu'[c].task = c
          /\ cpu'[c].on <=> at'[c] \in {"arrive", "stop"}
      <3>1. CASE PerCoreInit(c)
        <4>1. at'[c] = "pitInit" /\ at[c] = "perCoreInit" BY <1>3, <3>1 DEF PerCoreInit, Goes
        <4>2. /\ cpu' = [cpu EXCEPT ![c] = [cpu[c] EXCEPT !.paging = TRUE]]
              /\ cpu'[c] = [cpu[c] EXCEPT !.paging = TRUE]
          BY <1>9, <3>1 DEF PerCoreInit
        <4>3. ~cpu[c].on BY <4>1 DEF BootInv, Ready
        <4>4. cpu'[c] \in Cpus /\ cpu'[c].paging /\ ~cpu'[c].on BY <1>9, <4>2, <4>3 DEF Cpus
        <4>5. cpu' = [cpu EXCEPT ![c] = cpu'[c]] BY <4>2
        <4>. QED BY <4>1, <4>4, <4>5
      <3>2. CASE PitInit(c)
        <4>1. apitCounter \in Int BY <1>9, <3>2 DEF PitInit, BootInv, ThingsFound, Past
        <4>. QED BY <1>3, <1>9, <3>2, <4>1 DEF PitInit, Goes, BootInv, Ready, Cpus, Past
      <3>3. CASE Tss(c)
        <4>1. TssOf(40 + c * 8) = c /\ c \in Int
          <5>1. c \in Nat BY <1>3
          <5>. QED BY <5>1 DEF TssOf
        <4>2. at'[c] = "sti" /\ at[c] = "tss" BY <1>3, <3>3 DEF Tss, Goes
        <4>3. /\ cpu' = [cpu EXCEPT ![c] = [cpu[c] EXCEPT !.ss0 = TRUE, !.task = c]]
              /\ cpu'[c] = [cpu[c] EXCEPT !.ss0 = TRUE, !.task = c]
          BY <1>9, <3>3, <4>1 DEF Tss
        <4>4. cpu[c].paging /\ cpu[c].timer = apitCounter /\ ~cpu[c].on
          BY <4>2 DEF BootInv, Ready, Past
        <4>5. /\ cpu'[c] \in Cpus /\ cpu'[c].paging /\ cpu'[c].timer = apitCounter
              /\ cpu'[c].ss0 /\ cpu'[c].task = c /\ ~cpu'[c].on
          BY <1>9, <4>1, <4>3, <4>4 DEF Cpus
        <4>6. cpu' = [cpu EXCEPT ![c] = cpu'[c]] BY <4>3
        <4>. QED BY <4>2, <4>5, <4>6
      <3>4. CASE Sti(c)
        <4>1. at'[c] = "arrive" /\ at[c] = "sti" BY <1>3, <3>4 DEF Sti, Goes
        <4>2. /\ cpu' = [cpu EXCEPT ![c] = [cpu[c] EXCEPT !.on = TRUE]]
              /\ cpu'[c] = [cpu[c] EXCEPT !.on = TRUE]
          BY <1>9, <3>4 DEF Sti
        <4>3. cpu[c].paging /\ cpu[c].timer = apitCounter /\ cpu[c].ss0 /\ cpu[c].task = c
          BY <4>1 DEF BootInv, Ready, Past
        <4>4. /\ cpu'[c] \in Cpus /\ cpu'[c].paging /\ cpu'[c].timer = apitCounter
              /\ cpu'[c].ss0 /\ cpu'[c].task = c /\ cpu'[c].on
          BY <1>9, <4>2, <4>3 DEF Cpus
        <4>5. cpu' = [cpu EXCEPT ![c] = cpu'[c]] BY <4>2
        <4>. QED BY <4>1, <4>4, <4>5
      <3>. QED BY <1>10, <3>1, <3>2, <3>3, <3>4
    <2>5. Ready' BY <1>2, <1>3, <1>5, <1>9, <2>4 DEF BootInv, Ready
    <2>. QED BY <2>3, <2>5
  <1>11. CASE Arrive(c)
    <2>1. /\ at[c] = "arrive" /\ at'[c] = "stop" /\ cpu' = cpu
          /\ howManyAreHere' = howManyAreHere + 1
          /\ kernelMains' = IF howManyAreHere + 1 = machine.cores THEN kernelMains + 1
                            ELSE kernelMains
      <3>1. kConfig.totalProcs = machine.cores
        BY <1>9, <1>11 DEF Arrive, BootInv, ThingsFound, Past
      <3>. QED BY <1>3, <1>11, <3>1 DEF Arrive, Goes, IsLast
    <2>2. Here' = Here \cup {c} /\ c \notin Here /\ Here \in SUBSET Core
      BY <1>3, <1>5, <2>1 DEF Here
    <2>3. /\ IsFiniteSet(Here) /\ Cardinality(Here) \in Nat /\ Cardinality(Here) # machine.cores
          /\ Cardinality(Here) <= machine.cores
      BY <1>3, <2>2, StopSet
    <2>4. Cardinality(Here') = Cardinality(Here) + 1 BY <2>2, <2>3, FS_AddElement
    <2>5. AllHere' BY <1>2, <2>1, <2>3, <2>4 DEF BootInv, AllHere
    <2>6. Ready' BY <1>2, <1>3, <1>5, <2>1 DEF BootInv, Ready, Past
    <2>. QED BY <2>5, <2>6
  <1>. QED BY <1>8, <1>10, <1>11 DEF Each

\* For any number of cores whose table names each of them: the kernel is
\* loaded, the machine measured and each core set up in the order of kernelInit, and
\* howManyAreHere counts the cores that have arrived (init.cc:45-166).
THEOREM BootInvariant == BootSpec => []BootInv
  <1>1. BootInit => BootInv BY BootStartOK
  <1>2. BootInv /\ [BootNext]_bootVars => BootInv'
    <2>. SUFFICES ASSUME BootInv, [BootNext]_bootVars PROVE BootInv' OBVIOUS
    <2>1. CASE UNCHANGED bootVars
      <3>1. /\ machine' = machine /\ mbr' = mbr /\ memInfo' = memInfo /\ kConfig' = kConfig
            /\ frames' = frames /\ idt' = idt /\ activeThreads' = activeThreads
            /\ apitCounter' = apitCounter /\ smpInitDone' = smpInitDone /\ running' = running
            /\ howManyAreHere' = howManyAreHere /\ id' = id /\ kernelMains' = kernelMains
            /\ at' = at /\ stack' = stack /\ cpu' = cpu
        BY <2>1 DEF bootVars, loaderVars, kernelVars
      <3>2. StackInv'
        BY <3>1 DEF BootInv, StackInv, Types, Alone, InTurn, Stacks, StackOf, Core
      <3>3. Loading' /\ ThingsFound' BY <3>1 DEF BootInv, Loading, ThingsFound, Framed, Core
      <3>4. Ready' BY <3>1 DEF BootInv, Ready, Core
      <3>5. Here' = Here BY <3>1 DEF Here, Core
      <3>6. AllHere' BY <3>1, <3>5 DEF BootInv, AllHere
      <3>. QED BY <3>2, <3>3, <3>4, <3>6 DEF BootInv
    <2>. QED BY <2>1, BootFirstOK, BootEachOK DEF BootNext
  <1>. QED BY <1>1, <1>2, PTL DEF BootSpec

\* Who counts all cores as arrived finds all of them set up.
LEMMA AllServed == ASSUME BootInv PROVE StartsOnce
  <1>1. Core \subseteq Nat /\ Bsp \in Core /\ machine \in Machines
    BY Cores DEF BootInv, StackInv, Types
  <1>2. ASSUME NEW c \in Core, cpu[c].on PROVE Served(c)
    <2>1. at[c] \in {"arrive", "stop"} BY <1>2 DEF BootInv, Ready
    <2>2. at[Bsp] \notin Entering
      BY <1>1, <2>1 DEF BootInv, StackInv, Alone, Entering
    <2>. QED BY <1>1, <2>1, <2>2 DEF BootInv, ThingsFound, Ready, Served, Past
  <1>3. ASSUME kernelMains > 0
        PROVE  kernelMains = 1 /\ Loaded /\ Framed /\ \A c \in Core : cpu[c].on
    <2>1. kernelMains = 1 /\ Cardinality(Here) = machine.cores BY <1>3 DEF BootInv, AllHere
    <2>2. Here \in SUBSET Core BY DEF Here
    <2>3. Here = Core BY <1>1, <2>1, <2>2, StopSet
    <2>4. \A c \in Core : at[c] = "stop" BY <2>3 DEF Here
    <2>5. \A c \in Core : cpu[c].on BY <2>4 DEF BootInv, Ready
    <2>6. Loaded /\ Framed BY <1>1, <2>4 DEF BootInv, Loading, ThingsFound, Entering, Loaded, Read
    <2>. QED BY <2>1, <2>5, <2>6
  <1>. QED BY <1>2, <1>3 DEF StartsOnce

\* kernelMain is started once, by the last core to arrive, and every core that takes
\* interrupts has what they need (init.cc:159).
THEOREM KernelMainOnce == BootSpec => []StartsOnce
  BY BootInvariant, AllServed, PTL

-----------------------------------------------------------------------------
(* Numbers, and functions given step by step.                               *)

\* A set of natural numbers that is not empty has a least.
LEMMA SmallestNat ==
    ASSUME NEW T, T \subseteq Nat, T # {}
    PROVE  \E n \in T : \A m \in T : n <= m
  <1>. DEFINE R == {ss \in Nat \X Nat : ss[1] < ss[2]}
  <1>1. IsWellFoundedOn(R, Nat) BY NatLessThanWellFounded DEF OpToRel
  <1>. HIDE DEF R
  <1>2. PICK n \in T : \A m \in T : ~ (<<m, n>> \in R) BY <1>1, WFMin
  <1>3. \A m \in T : ~(m < n) BY <1>2 DEF R
  <1>. QED BY <1>3

\* What holds of 0, and of n + 1 when it holds of n, holds of all: as a set.
LEMMA AllNumbers ==
    ASSUME NEW S, 0 \in S, \A n \in Nat : n \in S => n + 1 \in S
    PROVE  Nat \subseteq S
  <1>1. SUFFICES ASSUME Nat \ S # {} PROVE FALSE OBVIOUS
  <1>2. PICK n \in Nat \ S : \A m \in Nat \ S : n <= m BY <1>1, SmallestNat
  <1>3. n # 0 /\ n - 1 \in Nat /\ n - 1 \in S BY <1>2
  <1>. QED BY <1>2, <1>3

\* f starts with a, and goes from f[k - 1] to f[k] by the k-th of the steps F.
Iterates(f, a, F, n) == f = [k \in 0 .. n |-> IF k = 0 THEN a ELSE F[k][f[k - 1]]]

\* A function may be defined by its first value and by how each follows from the one before.
LEMMA Iteration ==
    ASSUME NEW N \in Nat, NEW V, NEW a \in V, NEW F \in [1 .. N -> [V -> V]]
    PROVE  \E f \in [0 .. N -> V] : Iterates(f, a, F, N)
  <1>. DEFINE S == {n \in Nat : n <= N => \E f \in [0 .. n -> V] : Iterates(f, a, F, n)}
  <1>1. 0 \in S
    <2>1. PICK f : f = [k \in 0 .. 0 |-> a] OBVIOUS
    <2>2. f \in [0 .. 0 -> V] /\ Iterates(f, a, F, 0) BY <2>1 DEF Iterates
    <2>. QED BY <2>2
  <1>2. ASSUME NEW n \in Nat, n \in S PROVE n + 1 \in S
    <2>1. SUFFICES ASSUME n + 1 <= N
                   PROVE  \E g \in [0 .. n + 1 -> V] : Iterates(g, a, F, n + 1)
      OBVIOUS
    <2>2. PICK f \in [0 .. n -> V] : Iterates(f, a, F, n) BY <1>2, <2>1
    <2>3. \A k \in 0 .. n : f[k] = IF k = 0 THEN a ELSE F[k][f[k - 1]]
      BY ONLY <2>2 DEF Iterates
    <2>4. PICK g : g = [k \in 0 .. n + 1 |-> IF k = n + 1 THEN F[n + 1][f[n]] ELSE f[k]]
      OBVIOUS
    <2>5. F[n + 1] \in [V -> V] /\ f[n] \in V BY <2>1
    <2>6. g \in [0 .. n + 1 -> V] BY <2>4, <2>5
    <2>7. ASSUME NEW k \in 0 .. n + 1 PROVE g[k] = IF k = 0 THEN a ELSE F[k][g[k - 1]]
      <3>1. CASE k = n + 1
        <4>1. g[k - 1] = f[n] /\ k # 0 BY <2>4, <3>1
        <4>. QED BY <2>4, <3>1, <4>1
      <3>2. CASE k # n + 1
        <4>1. k \in 0 .. n BY <3>2
        <4>2. k # 0 => g[k - 1] = f[k - 1] BY <2>4, <4>1
        <4>3. g[k] = f[k] BY <2>4, <4>1
        <4>. QED BY <2>3, <4>1, <4>2, <4>3
      <3>. QED BY <3>1, <3>2
    <2>8. g = [k \in 0 .. n + 1 |-> g[k]] BY <2>6
    <2>9. Iterates(g, a, F, n + 1) BY ONLY <2>7, <2>8 DEF Iterates
    <2>. QED BY <2>6, <2>9
  <1>. HIDE DEF S
  <1>3. N \in S BY <1>1, <1>2, AllNumbers
  <1>. QED BY <1>3 DEF S

-----------------------------------------------------------------------------
(* Walking along a path.                                                    *)

Somewhere == Inode \cup {Null}
AnyPath == Paths \cup Targets

\* One name further, and where the first n of them lead.
Further(x, n) == IF x \in Dirs /\ n \in DOMAIN entries[x] THEN entries[x][n] ELSE Null
Along(d, n) ==
    LET walk[k \in 0 .. Len(n.names)] ==
            IF k = 0 THEN IF n.abs THEN Root ELSE d
            ELSE IF walk[k - 1] \in Dirs /\ n.names[k] \in DOMAIN entries[walk[k - 1]]
            THEN entries[walk[k - 1]][n.names[k]] ELSE Null
    IN  walk

LEMMA FurtherType == \A x, n : Further(x, n) \in Somewhere
  BY Ext2OpenAssumption DEF Further, Somewhere

LEMMA PathType ==
    ASSUME NEW n \in AnyPath
    PROVE  Len(n.names) \in Nat /\ n.names = [k \in 1 .. Len(n.names) |-> n.names[k]]
  <1>1. PICK S : n.names \in Seq(S) BY Ext2OpenAssumption DEF AnyPath
  <1>. QED BY <1>1

LEMMA AlongIs ==
    ASSUME NEW d \in Somewhere, NEW n \in AnyPath
    PROVE  /\ Along(d, n) \in [0 .. Len(n.names) -> Somewhere]
           /\ Along(d, n)[0] = IF n.abs THEN Root ELSE d
           /\ \A k \in 1 .. Len(n.names) : Along(d, n)[k] = Further(Along(d, n)[k - 1], n.names[k])
  <1>. DEFINE here == IF n.abs THEN Root ELSE d
              N == Len(n.names)
              F == [k \in 1 .. N |-> [x \in Somewhere |-> Further(x, n.names[k])]]
  <1>1. N \in Nat /\ here \in Somewhere
    BY PathType, Ext2OpenAssumption DEF Somewhere, Dirs
  <1>2. F \in [1 .. N -> [Somewhere -> Somewhere]] BY FurtherType
  <1>. HIDE DEF F
  <1>3. PICK f \in [0 .. N -> Somewhere] : Iterates(f, here, F, N)
    BY ONLY <1>1, <1>2, Iteration
  <1>4. \A k \in 0 .. N : f[k] = IF k = 0 THEN here ELSE F[k][f[k - 1]]
    BY ONLY <1>3 DEF Iterates
  <1>. DEFINE G(h, k) == IF k = 0 THEN IF n.abs THEN Root ELSE d
                 ELSE IF h[k - 1] \in Dirs /\ n.names[k] \in DOMAIN entries[h[k - 1]]
                 THEN entries[h[k - 1]][n.names[k]] ELSE Null
  <1>5. ASSUME NEW k \in 0 .. N PROVE f[k] = G(f, k)
    <2>1. CASE k = 0 BY <1>4, <2>1
    <2>2. CASE k # 0
      <3>1. k \in 1 .. N /\ k - 1 \in 0 .. N BY <1>1, <2>2
      <3>2. f[k - 1] \in Somewhere BY <3>1
      <3>3. F[k][f[k - 1]] = Further(f[k - 1], n.names[k]) BY <3>1, <3>2 DEF F
      <3>. QED BY <1>4, <2>2, <3>3 DEF Further
    <2>. QED BY <2>1, <2>2
  <1>6. f = [k \in 0 .. N |-> f[k]] OBVIOUS
  <1>7. f = [k \in 0 .. N |-> G(f, k)] BY ONLY <1>5, <1>6
  <1>8. Along(d, n) = CHOOSE h : h = [k \in 0 .. N |-> G(h, k)] BY DEF Along
  <1>9. Along(d, n) = [k \in 0 .. N |-> G(Along(d, n), k)] BY ONLY <1>7, <1>8
  <1>10. PICK h : h = Along(d, n) OBVIOUS
  <1>. HIDE DEF G
  <1>11. \A k \in 0 .. N : h[k] = G(h, k) BY ONLY <1>9, <1>10
  <1>12. h[0] = here
    <2>1. 0 \in 0 .. N BY <1>1
    <2>. QED BY <1>11, <2>1 DEF G
  <1>13. ASSUME NEW k \in 1 .. N PROVE h[k] = Further(h[k - 1], n.names[k])
    <2>1. k \in 0 .. N /\ k # 0 BY <1>1
    <2>. QED BY <1>11, <2>1 DEF G, Further
  <1>14. ASSUME NEW k \in 0 .. N PROVE h[k] \in Somewhere
    <2>1. CASE k = 0 BY <1>1, <1>12, <2>1
    <2>2. CASE k # 0
      <3>1. k \in 1 .. N BY <1>1, <2>2
      <3>. QED BY <1>13, <3>1, FurtherType
    <2>. QED BY <2>1, <2>2
  <1>15. h = [k \in 0 .. N |-> h[k]] BY ONLY <1>9, <1>10
  <1>16. h \in [0 .. N -> Somewhere] BY ONLY <1>14, <1>15
  <1>. QED BY <1>10, <1>12, <1>13, <1>16

LEMMA WalkIs ==
    ASSUME NEW d \in Somewhere, NEW n \in AnyPath
    PROVE  Walk(d, n) = IF n.names = <<>> THEN [in |-> Null, to |-> Null]
                        ELSE [in |-> Along(d, n)[Len(n.names) - 1], to |-> Along(d, n)[Len(n.names)]]
  BY DEF Walk, Along

Place == [in : Somewhere, to : Somewhere]
LEMMA WalkType ==
    ASSUME NEW d \in Somewhere, NEW n \in AnyPath
    PROVE  Walk(d, n) \in Place
  <1>1. CASE n.names = <<>> BY <1>1, WalkIs DEF Place, Somewhere
  <1>2. CASE n.names # <<>>
    <2>1. Len(n.names) \in 0 .. Len(n.names) /\ Len(n.names) - 1 \in 0 .. Len(n.names)
      BY <1>2, PathType
    <2>. QED BY <1>2, <2>1, WalkIs, AlongIs DEF Place
  <1>. QED BY <1>1, <1>2

\* What is not there is not there with more names either.
LEMMA NothingFurther ==
    ASSUME NEW d \in Somewhere, NEW n \in AnyPath,
           NEW k \in 0 .. Len(n.names), Along(d, n)[k] = Null
    PROVE  Walk(d, n).to = Null
  <1>. DEFINE N == Len(n.names)
              S == {m \in Nat : k + m <= N => Along(d, n)[k + m] = Null}
  <1>0. N \in Nat /\ k \in Nat BY PathType
  <1>1. 0 \in S BY <1>0
  <1>2. ASSUME NEW m \in Nat, m \in S PROVE m + 1 \in S
    <2>1. SUFFICES ASSUME k + m + 1 <= N PROVE Along(d, n)[k + m + 1] = Null BY <1>0
    <2>2. Along(d, n)[k + m] = Null BY <1>0, <1>2, <2>1
    <2>3. k + m + 1 \in 1 .. N /\ (k + m + 1) - 1 = k + m BY <1>0, <2>1
    <2>4. Along(d, n)[k + m + 1] = Further(Along(d, n)[k + m], n.names[k + m + 1])
      BY <2>3, AlongIs
    <2>. QED BY <2>2, <2>4, Ext2OpenAssumption DEF Further, Dirs
  <1>. HIDE DEF S
  <1>3. N - k \in S
    <2>1. Nat \subseteq S BY <1>1, <1>2, AllNumbers
    <2>2. N - k \in Nat BY <1>0
    <2>. QED BY <2>1, <2>2
  <1>4. k + (N - k) = N BY <1>0
  <1>5. Along(d, n)[N] = Null BY <1>0, <1>3, <1>4 DEF S
  <1>. QED BY <1>5, WalkIs

-----------------------------------------------------------------------------
(* Following links.                                                         *)

\* One link further.
Hop(x) == IF x.to \in Links THEN Walk(x.in, target[x.to]) ELSE x

Given == target \in [Links -> Targets] /\ dir \in Dirs /\ name \in Paths

LEMMA HopsAre ==
    ASSUME Given
    PROVE  /\ \A k \in 0 .. MAX_DEPTH : Hops[k] \in Place
           /\ Hops[0] = Walk(dir, name)
           /\ \A k \in 1 .. MAX_DEPTH : Hops[k] = Hop(Hops[k - 1])
  <1>. DEFINE N == MAX_DEPTH
              here == Walk(dir, name)
              F == [k \in 1 .. N |-> [x \in Place |-> Hop(x)]]
  <1>1. N \in Nat /\ here \in Place
    BY WalkType, Ext2OpenAssumption DEF Given, Somewhere, Dirs, AnyPath
  <1>2. ASSUME NEW x \in Place PROVE Hop(x) \in Place
    <2>1. CASE x.to \in Links
      <3>1. x.in \in Somewhere /\ target[x.to] \in AnyPath BY <2>1 DEF Given, AnyPath, Place
      <3>. QED BY <2>1, <3>1, WalkType DEF Hop
    <2>. QED BY <2>1 DEF Hop
  <1>. HIDE DEF here
  <1>3. F \in [1 .. N -> [Place -> Place]] BY <1>2
  <1>. HIDE DEF F
  <1>4. PICK f \in [0 .. N -> Place] : Iterates(f, here, F, N)
    BY ONLY <1>1, <1>3, Iteration
  <1>5. \A k \in 0 .. N : f[k] = IF k = 0 THEN here ELSE F[k][f[k - 1]]
    BY ONLY <1>4 DEF Iterates
  <1>. DEFINE G(h, k) == IF k = 0 THEN Walk(dir, name)
                 ELSE IF h[k - 1].to \in Links
                 THEN Walk(h[k - 1].in, target[h[k - 1].to]) ELSE h[k - 1]
  <1>6. ASSUME NEW k \in 0 .. N PROVE f[k] = G(f, k)
    <2>1. CASE k = 0 BY <1>5, <2>1 DEF here
    <2>2. CASE k # 0
      <3>1. k \in 1 .. N /\ k - 1 \in 0 .. N BY <1>1, <2>2
      <3>2. f[k - 1] \in Place BY <3>1
      <3>3. F[k][f[k - 1]] = Hop(f[k - 1]) BY <3>1, <3>2 DEF F
      <3>. QED BY <1>5, <2>2, <3>3 DEF Hop
    <2>. QED BY <2>1, <2>2
  <1>7. f = [k \in 0 .. N |-> f[k]] OBVIOUS
  <1>8. f = [k \in 0 .. N |-> G(f, k)] BY ONLY <1>6, <1>7
  <1>9. Hops = CHOOSE h : h = [k \in 0 .. N |-> G(h, k)] BY DEF Hops
  <1>10. Hops = [k \in 0 .. N |-> G(Hops, k)] BY ONLY <1>8, <1>9
  <1>11. PICK h : h = Hops OBVIOUS
  <1>. HIDE DEF G
  <1>12. \A k \in 0 .. N : h[k] = G(h, k) BY ONLY <1>10, <1>11
  <1>13. h[0] = here
    <2>1. 0 \in 0 .. N BY <1>1
    <2>. QED BY <1>12, <2>1 DEF G, here
  <1>14. ASSUME NEW k \in 1 .. N PROVE h[k] = Hop(h[k - 1])
    <2>1. k \in 0 .. N /\ k # 0 BY <1>1
    <2>. QED BY <1>12, <2>1 DEF G, Hop
  <1>. DEFINE S == {m \in Nat : m <= N => h[m] \in Place}
  <1>15. 0 \in S BY <1>1, <1>13
  <1>16. ASSUME NEW m \in Nat, m \in S PROVE m + 1 \in S
    <2>1. SUFFICES ASSUME m + 1 <= N PROVE h[m + 1] \in Place OBVIOUS
    <2>2. m + 1 \in 1 .. N /\ (m + 1) - 1 = m BY <1>1, <2>1
    <2>3. h[m + 1] = Hop(h[m]) BY <1>14, <2>2
    <2>4. h[m] \in Place BY <1>1, <1>16, <2>1
    <2>. QED BY <1>2, <2>3, <2>4
  <1>. HIDE DEF S
  <1>17. Nat \subseteq S BY <1>15, <1>16, AllNumbers
  <1>18. \A k \in 0 .. N : h[k] \in Place BY <1>1, <1>17 DEF S
  <1>. QED BY <1>11, <1>13, <1>14, <1>18 DEF here

\* The last hop is the one that no link leads on from.
LEMMA HopsEnd ==
    ASSUME Given, NEW k \in 0 .. MAX_DEPTH - 1, Hops[k].to \notin Links
    PROVE  Hops[MAX_DEPTH - 1] = Hops[k]
  <1>. DEFINE N == MAX_DEPTH - 1
              S == {m \in Nat : k + m <= N => Hops[k + m] = Hops[k]}
  <1>0. N \in Nat /\ k \in Nat /\ k <= N /\ MAX_DEPTH = N + 1 BY Ext2OpenAssumption
  <1>1. 0 \in S BY <1>0
  <1>2. ASSUME NEW m \in Nat, m \in S PROVE m + 1 \in S
    <2>1. SUFFICES ASSUME k + m + 1 <= N PROVE Hops[k + m + 1] = Hops[k] BY <1>0
    <2>2. Hops[k + m] = Hops[k] BY <1>0, <1>2, <2>1
    <2>3. k + m + 1 \in 1 .. MAX_DEPTH /\ (k + m + 1) - 1 = k + m
      <3>1. PICK i : i = k + m + 1 OBVIOUS
      <3>. QED BY ONLY <1>0, <2>1, <3>1, m \in Nat
    <2>4. Hops[k + m + 1] = Hop(Hops[k + m]) BY <2>3, HopsAre
    <2>. QED BY <2>2, <2>4 DEF Hop
  <1>. HIDE DEF S
  <1>3. N - k \in S
    <2>1. Nat \subseteq S BY <1>1, <1>2, AllNumbers
    <2>2. N - k \in Nat BY <1>0
    <2>. QED BY <2>1, <2>2
  <1>4. k + (N - k) = N BY <1>0
  <1>. QED BY <1>0, <1>3, <1>4 DEF S

-----------------------------------------------------------------------------
(* open.                                                                    *)

\* How many links it has followed, and how many names of the path it follows now.
Followed == MAX_DEPTH - depth
Gone == Len(base.names) - Len(path)

\* It is on the walk that the last link asks for.
Walking(d) ==
    /\ Walk(d, base) = Hops[Followed]
    /\ Gone \in 0 .. Len(base.names)
    /\ path = SubSeq(base.names, Gone + 1, Len(base.names))
    /\ cd = Along(d, base)[Gone]
    /\ path = <<>> => base.names = <<>>

OpenTypes ==
    /\ Given
    /\ cd \in Somewhere /\ base \in AnyPath
    /\ depth \in 0 .. MAX_DEPTH
    /\ pc \in {"follow_path", "next_link", "parse_file", "done"}

\* Both buffers are held until the end, and no longer.
Buffers ==
    held = IF pc = "done" THEN [buffer |-> 0, base |-> 0] ELSE [buffer |-> 1, base |-> 1]

Way ==
    /\ pc = "follow_path" => /\ depth > 0 => Walk(cd, base) = Hops[Followed]
                             /\ depth < MAX_DEPTH => Hops[Followed - 1].to \in Links
    /\ pc = "next_link" => depth > 0 /\ \E d \in Somewhere : Walking(d)
    /\ pc = "parse_file" => depth > 0 /\ Hops[Followed] = [in |-> cd, to |-> file] /\ file \in Inode

OpenInv == OpenTypes /\ Buffers /\ Way /\ FoundWhatIsThere

LEMMA OpenStart == ASSUME Init PROVE OpenInv
  <1>1. Given /\ MAX_DEPTH - MAX_DEPTH = 0 /\ MAX_DEPTH > 0 /\ MAX_DEPTH \in 0 .. MAX_DEPTH
    BY Ext2OpenAssumption DEF Init, Given
  <1>2. cd \in Somewhere /\ base \in AnyPath
    BY DEF Init, Start, Somewhere, Dirs, AnyPath
  <1>3. depth = MAX_DEPTH /\ pc = "follow_path" /\ cd = dir /\ base = name
        /\ held = [buffer |-> 1, base |-> 1]
    BY DEF Init, Start
  <1>4. Hops[0] = Walk(dir, name) BY <1>1, HopsAre
  <1>. QED BY <1>1, <1>2, <1>3, <1>4
          DEF OpenInv, OpenTypes, Buffers, Way, FoundWhatIsThere, Followed

\* What the path is looked up in does not change.
LEMMA SameHops == ASSUME UNCHANGED given PROVE Hops' = Hops /\ (Given => Given')
  <1>1. target' = target /\ dir' = dir /\ name' = name BY DEF given
  <1>. QED BY <1>1 DEF Hops, Walk, Given

\* A walk that ends nowhere, or at a directory, is what open says nothing of.
LEMMA EndsThere ==
    ASSUME Given, NEW k \in 0 .. MAX_DEPTH - 1, Hops[k].to \notin Links
    PROVE  LET end == Hops[MAX_DEPTH - 1].to
           IN  /\ end = Hops[k].to
               /\ (IF end # Null /\ kind[end] = "file" THEN end ELSE Null) =
                  IF end = Null \/ end \in Dirs THEN Null ELSE end
  <1>1. Hops[MAX_DEPTH - 1] = Hops[k] BY HopsEnd
  <1>2. k \in 0 .. MAX_DEPTH BY Ext2OpenAssumption
  <1>3. Hops[k].to \in Somewhere BY <1>2, HopsAre DEF Place
  <1>4. Hops[k].to \in Inode => kind[Hops[k].to] \in {"dir", "file"}
    BY Ext2OpenAssumption DEF Links
  <1>. QED BY <1>1, <1>3, <1>4, Ext2OpenAssumption DEF Somewhere, Dirs

LEMMA FollowPathOK == ASSUME OpenInv, FollowPath PROVE OpenInv'
  <1>1. Hops' = Hops /\ Given' /\ Given
    BY SameHops DEF OpenInv, OpenTypes, FollowPath
  <1>2. MAX_DEPTH \in Nat \ {0} /\ depth \in 0 .. MAX_DEPTH /\ base \in AnyPath /\ cd \in Somewhere
    BY Ext2OpenAssumption DEF OpenInv, OpenTypes
  <1>3. CASE DepthGone
    <2>1. depth = 0 /\ Fail BY <1>3 DEF FollowPath, DepthGone
    <2>2. Hops[MAX_DEPTH - 1].to \in Links
      BY <1>2, <2>1 DEF OpenInv, Way, Followed, FollowPath
    <2>3. FoundWhatIsThere' BY <1>1, <2>1, <2>2 DEF Fail, FoundWhatIsThere, Links
    <2>4. held' = [buffer |-> 0, base |-> 0]
      BY <2>1 DEF Fail, Freed, OpenInv, Buffers, FollowPath
    <2>. QED BY <1>1, <1>2, <2>1, <2>3, <2>4
            DEF Fail, OpenInv, OpenTypes, Buffers, Way
  <1>4. CASE ~DepthGone
    <2>1. /\ depth > 0 /\ pc = "follow_path" /\ pc' = "next_link"
          /\ cd' = IF base.abs THEN Root ELSE cd
          /\ path' = base.names
          /\ depth' = depth /\ base' = base /\ held' = held
      BY <1>2, <1>4 DEF FollowPath, DepthGone
    <2>2. Walk(cd, base) = Hops[Followed] BY <2>1 DEF OpenInv, Way
    <2>3. Along(cd, base)[0] = cd' BY <1>2, <2>1, AlongIs
    <2>4. cd' \in Somewhere BY <1>2, <2>1, Ext2OpenAssumption DEF Somewhere, Dirs
    <2>5. Len(base.names) \in Nat /\ Gone' = 0 /\ Followed' = Followed
      BY <1>2, <2>1, PathType DEF Gone, Followed
    <2>6. path' = SubSeq(base.names, 0 + 1, Len(base.names))
      <3>1. PICK S : base.names \in Seq(S) BY <1>2, Ext2OpenAssumption DEF AnyPath
      <3>. QED BY <2>1, <3>1
    <2>7. PICK c \in Somewhere : c = cd BY <1>2
    <2>8. (Walk(c, base) = Hops[Followed])' BY <1>1, <2>1, <2>2, <2>5, <2>7 DEF Walk
    <2>9. (cd = Along(c, base)[Gone])' BY <2>1, <2>3, <2>5, <2>7 DEF Along
    <2>10. Walking(c)'
      <3>1. Gone' \in 0 .. Len(base.names) BY <2>5
      <3>. QED BY <2>1, <2>5, <2>6, <2>8, <2>9, <3>1 DEF Walking
    <2>11. Way' BY <2>1, <2>7, <2>10 DEF Way, Somewhere
    <2>12. OpenTypes' BY <1>1, <1>2, <2>1, <2>4 DEF OpenTypes, Somewhere, AnyPath
    <2>. QED BY <2>1, <2>11, <2>12 DEF OpenInv, Buffers, FoundWhatIsThere
  <1>. QED BY <1>3, <1>4

LEMMA NextLinkOK == ASSUME OpenInv, NextLink PROVE OpenInv'
  <1>1. Hops' = Hops /\ Given' /\ Given
    BY SameHops DEF OpenInv, OpenTypes, NextLink
  <1>2. /\ MAX_DEPTH \in Nat \ {0} /\ depth \in 0 .. MAX_DEPTH /\ depth > 0
        /\ base \in AnyPath /\ cd \in Somewhere /\ pc = "next_link"
    BY Ext2OpenAssumption DEF OpenInv, OpenTypes, Way, NextLink
  <1>3. PICK d \in Somewhere : Walking(d) BY DEF OpenInv, Way, NextLink
  <1>. DEFINE N == Len(base.names)
  <1>4. PICK k : k = Gone OBVIOUS
  <1>5. PICK S : base.names \in Seq(S) BY <1>2, Ext2OpenAssumption DEF AnyPath
  <1>6. /\ N \in Nat /\ k \in 0 .. N
        /\ Len(path) = N - k /\ path = SubSeq(base.names, k + 1, N)
        /\ cd = Along(d, base)[k]
        /\ Walk(d, base) = Hops[Followed]
    <2>1. N \in Nat /\ k \in 0 .. N /\ path = SubSeq(base.names, k + 1, N)
      BY <1>3, <1>4, <1>5 DEF Walking
    <2>2. Len(path) = N - k BY <1>5, <2>1
    <2>. QED BY <1>3, <1>4, <2>1, <2>2 DEF Walking
  <1>7. ASSUME path # <<>>
        PROVE  /\ k + 1 \in 1 .. N /\ Head(path) = base.names[k + 1]
               /\ Along(d, base)[k + 1] = Further(cd, Head(path))
               /\ Tail(path) = SubSeq(base.names, k + 2, N) /\ Len(Tail(path)) = N - (k + 1)
    <2>1. k + 1 \in 1 .. N
      <3>1. k # N BY <1>5, <1>6, <1>7
      <3>. QED BY <1>6, <3>1
    <2>2. Head(path) = base.names[k + 1] BY <1>5, <1>6, <2>1
    <2>3. Tail(path) = SubSeq(base.names, k + 2, N) /\ Len(Tail(path)) = N - (k + 1)
      BY <1>5, <1>6, <1>7, <2>1
    <2>4. (k + 1) - 1 = k BY <1>6
    <2>5. Along(d, base)[k + 1] = Further(Along(d, base)[(k + 1) - 1], base.names[k + 1])
      BY <1>2, <2>1, AlongIs
    <2>6. Along(d, base)[k + 1] = Further(cd, Head(path)) BY <1>6, <2>2, <2>4, <2>5
    <2>. QED BY <2>1, <2>2, <2>3, <2>6
  <1>8. Followed \in 0 .. MAX_DEPTH - 1 BY <1>2 DEF Followed
  <1>9. CASE ~Found
    <2>1. Fail BY <1>9 DEF NextLink
    <2>2. Walk(d, base).to = Null
      <3>1. CASE path = <<>>
        <4>1. base.names = <<>> BY <1>3, <3>1 DEF Walking
        <4>. QED BY <1>2, <4>1, WalkIs
      <3>2. CASE path # <<>>
        <4>1. Further(cd, Head(path)) = Null BY <1>9, <3>2 DEF Found, Further
        <4>2. k + 1 \in 0 .. N /\ Along(d, base)[k + 1] = Null BY <1>6, <1>7, <3>2, <4>1
        <4>. QED BY <1>2, <4>2, NothingFurther
      <3>. QED BY <3>1, <3>2
    <2>3. Hops[Followed].to = Null BY <1>6, <2>2
    <2>4. Null \notin Links BY Ext2OpenAssumption DEF Links
    <2>5. Hops[MAX_DEPTH - 1].to = Null BY <1>1, <1>8, <2>3, <2>4, HopsEnd
    <2>6. FoundWhatIsThere' BY <1>1, <2>1, <2>5 DEF Fail, FoundWhatIsThere
    <2>7. held' = [buffer |-> 0, base |-> 0]
      BY <1>2, <2>1 DEF Fail, Freed, OpenInv, Buffers
    <2>. QED BY <1>1, <1>2, <2>1, <2>6, <2>7
            DEF Fail, OpenInv, OpenTypes, Buffers, Way
  <1>10. CASE Found /\ Len(path) = 1
    <2>1. /\ file' = entries[cd][Head(path)] /\ pc' = "parse_file"
          /\ cd' = cd /\ path' = path /\ depth' = depth /\ base' = base /\ held' = held
      BY <1>10 DEF NextLink
    <2>2. path # <<>> /\ file' = Further(cd, Head(path)) /\ file' \in Inode
      BY <1>10, <2>1, Ext2OpenAssumption DEF Found, Further
    <2>3. N = k + 1 /\ N - 1 = k BY <1>6, <1>10
    <2>4. base.names # <<>>
      <3>1. N # 0 BY <1>6, <2>3
      <3>. QED BY <3>1
    <2>5. Walk(d, base) = [in |-> cd, to |-> file']
      BY <1>2, <1>6, <1>7, <2>2, <2>3, <2>4, WalkIs
    <2>6. Way' BY <1>1, <1>2, <1>6, <2>1, <2>2, <2>5 DEF Way, Followed
    <2>7. OpenTypes' BY <1>1, <1>2, <2>1 DEF OpenTypes
    <2>. QED BY <1>2, <2>1, <2>6, <2>7 DEF OpenInv, Buffers, FoundWhatIsThere
  <1>11. CASE Found /\ Len(path) # 1
    <2>1. /\ cd' = entries[cd][Head(path)] /\ path' = Tail(path)
          /\ pc' = pc /\ depth' = depth /\ base' = base /\ held' = held
      BY <1>11 DEF NextLink
    <2>2. path # <<>> /\ cd' = Further(cd, Head(path)) /\ cd' \in Somewhere
      BY <1>11, <2>1, Ext2OpenAssumption DEF Found, Further, Somewhere
    <2>3. Gone' = k + 1
      <3>1. Len(path') = N - (k + 1) BY <1>7, <2>1, <2>2
      <3>2. Gone' = N - (N - (k + 1)) BY <2>1, <3>1 DEF Gone
      <3>3. N \in Nat /\ k \in Nat BY <1>6
      <3>4. N - (N - (k + 1)) = k + 1
        <4>1. PICK m : m = N OBVIOUS
        <4>2. m \in Nat BY <3>3, <4>1
        <4>3. m - (m - (k + 1)) = k + 1 BY ONLY <3>3, <4>2
        <4>. QED BY <4>1, <4>3
      <3>. QED BY <3>2, <3>4
    <2>4. path' = SubSeq(base.names, (k + 1) + 1, N) BY <1>6, <1>7, <2>1, <2>2
    <2>5. k + 1 \in 0 .. N BY <1>6, <1>7, <2>2
    <2>6. (Walk(d, base) = Hops[Followed])' BY <1>1, <1>6, <2>1 DEF Walk, Followed
    <2>7. (cd = Along(d, base)[Gone])' BY <1>7, <2>1, <2>2, <2>3 DEF Along
    <2>8. Walking(d)'
      <3>1. N - (k + 1) # 0 BY <1>5, <1>6, <1>11, <2>2
      <3>2. path' # <<>> BY <1>7, <2>1, <2>2, <3>1
      <3>. QED BY <2>1, <2>3, <2>4, <2>5, <2>6, <2>7, <3>2 DEF Walking
    <2>9. Way' BY <1>2, <2>1, <2>8 DEF Way, Somewhere
    <2>10. OpenTypes' BY <1>1, <1>2, <2>1, <2>2 DEF OpenTypes, Somewhere
    <2>. QED BY <1>2, <2>1, <2>9, <2>10 DEF OpenInv, Buffers, FoundWhatIsThere
  <1>. QED BY <1>9, <1>10, <1>11

LEMMA ParseFileOK == ASSUME OpenInv, ParseFile PROVE OpenInv'
  <1>1. Hops' = Hops /\ Given' /\ Given
    BY SameHops DEF OpenInv, OpenTypes, ParseFile
  <1>2. /\ MAX_DEPTH \in Nat \ {0} /\ depth \in 0 .. MAX_DEPTH /\ depth > 0
        /\ base \in AnyPath /\ cd \in Somewhere /\ pc = "parse_file"
        /\ Hops[Followed] = [in |-> cd, to |-> file] /\ file \in Inode
    BY Ext2OpenAssumption DEF OpenInv, OpenTypes, Way, ParseFile
  <1>3. Followed \in 0 .. MAX_DEPTH - 1 BY <1>2 DEF Followed
  <1>4. CASE file \in Links
    <2>1. /\ base' = target[file] /\ depth' = depth - 1 /\ pc' = "follow_path"
          /\ cd' = cd /\ path' = path /\ file' = file /\ held' = BasesSwapped
      BY <1>4 DEF ParseFile, DepthLeft
    <2>2. base' \in AnyPath BY <1>1, <1>4, <2>1 DEF Given, AnyPath
    <2>3. Followed' = Followed + 1 /\ Followed + 1 \in 1 .. MAX_DEPTH /\ (Followed + 1) - 1 = Followed
      BY <1>2, <2>1 DEF Followed
    <2>4. Hops[Followed + 1] = Hop(Hops[Followed]) BY <1>1, <2>3, HopsAre
    <2>5. Hops[Followed + 1] = Walk(cd, target[file]) BY <1>2, <1>4, <2>4 DEF Hop
    <2>6. Walk(cd, base)' = Walk(cd, target[file]) BY <2>1 DEF Walk
    <2>7. Hops[Followed].to \in Links BY <1>2, <1>4
    <2>8. Way' BY <1>1, <2>1, <2>3, <2>5, <2>6, <2>7 DEF Way, Links
    <2>9. OpenTypes' BY <1>1, <1>2, <2>1, <2>2 DEF OpenTypes, AnyPath
    <2>10. held' = [buffer |-> 1, base |-> 1]
      <3>1. held = [buffer |-> 1, base |-> 1] BY <1>2 DEF OpenInv, Buffers
      <3>2. Freed({"base"}) = [buffer |-> 1, base |-> 0] BY <3>1 DEF Freed
      <3>. QED BY <2>1, <3>2 DEF BasesSwapped
    <2>. QED BY <2>1, <2>8, <2>9, <2>10 DEF OpenInv, Buffers, FoundWhatIsThere
  <1>5. CASE file \notin Links
    <2>1. /\ file' = Gives(file) /\ held' = Freed({"buffer", "base"}) /\ pc' = "done"
          /\ cd' = cd /\ path' = path /\ depth' = depth /\ base' = base
      BY <1>5 DEF ParseFile
    <2>2. LET end == Hops[MAX_DEPTH - 1].to
          IN  /\ end = file
              /\ (IF end # Null /\ kind[end] = "file" THEN end ELSE Null) =
                 IF end = Null \/ end \in Dirs THEN Null ELSE end
      BY <1>1, <1>2, <1>3, <1>5, EndsThere
    <2>3. file # Null BY <1>2, Ext2OpenAssumption
    <2>4. FoundWhatIsThere' BY <1>1, <2>1, <2>2, <2>3 DEF FoundWhatIsThere, Gives
    <2>5. held' = [buffer |-> 0, base |-> 0]
      BY <1>2, <2>1 DEF Freed, OpenInv, Buffers
    <2>6. OpenTypes' BY <1>1, <1>2, <2>1 DEF OpenTypes
    <2>. QED BY <2>1, <2>4, <2>5, <2>6 DEF OpenInv, Buffers, Way
  <1>. QED BY <1>4, <1>5

LEMMA OpenInvariant == Spec => []OpenInv
  <1>1. Init => OpenInv BY OpenStart
  <1>2. OpenInv /\ [Next]_vars => OpenInv'
    <2>1. SUFFICES ASSUME OpenInv, [Next]_vars PROVE OpenInv' OBVIOUS
    <2>2. CASE UNCHANGED vars
      <3>1. Hops' = Hops /\ Given' BY <2>1, <2>2, SameHops DEF vars, given, OpenInv, OpenTypes
      <3>2. /\ cd' = cd /\ path' = path /\ depth' = depth /\ base' = base
            /\ file' = file /\ held' = held /\ pc' = pc
        BY <2>2 DEF vars
      <3>3. ASSUME NEW d \in Somewhere, Walking(d) PROVE Walking(d)'
        <4>1. Walk(d, base)' = Walk(d, base) /\ Along(d, base)' = Along(d, base)
          BY <3>2 DEF Walk, Along
        <4>2. Gone' = Gone /\ Followed' = Followed BY <3>2 DEF Gone, Followed
        <4>. QED BY <3>1, <3>2, <3>3, <4>1, <4>2 DEF Walking
      <3>4. Way' BY <2>1, <3>1, <3>2, <3>3 DEF OpenInv, Way, Walk, Followed, Somewhere, Links
      <3>. QED BY <2>1, <3>1, <3>2, <3>4 DEF OpenInv, OpenTypes, Buffers, FoundWhatIsThere
    <2>. QED BY <2>1, <2>2, FollowPathOK, NextLinkOK, ParseFileOK DEF Next, Stopped
  <1>. QED BY <1>1, <1>2, PTL DEF Spec

\* Ext2::open gives the file at the end of the links, and nothing when there is none, when it
\* is a directory, and when there are too many links (ext2.cc:222).
THEOREM OpenFinds == Spec => []FoundWhatIsThere
  BY OpenInvariant, PTL DEF OpenInv

\* On every way out of Ext2::open both buffers have been freed, once (ext2.cc:298, :303).
THEOREM OpenFrees == Spec => [](pc = "done" => held = [buffer |-> 0, base |-> 0])
  <1>1. OpenInv => (pc = "done" => held = [buffer |-> 0, base |-> 0]) BY DEF OpenInv, Buffers
  <1>. QED BY <1>1, OpenInvariant, PTL

-----------------------------------------------------------------------------
(* Numbers.                                                                 *)

LEMMA Division ==
    ASSUME NEW n \in Nat, NEW p \in Nat \ {0}
    PROVE  /\ n \div p \in Nat /\ n % p \in 0 .. p - 1
           /\ n = (n \div p) * p + (n % p)
  OBVIOUS

LEMMA Times == ASSUME NEW a \in Int, NEW b \in Int, NEW p \in Nat, a <= b PROVE a * p <= b * p
  OBVIOUS

\* Which multiple of p a number comes after.
LEMMA InOneGroup ==
    ASSUME NEW n \in Nat, NEW p \in Nat \ {0}, NEW g \in Nat
    PROVE  (g * p <= n /\ n < (g + 1) * p) <=> g = n \div p
  <1>1. PICK q \in Nat, r \in 0 .. p - 1 : q = n \div p /\ r = n % p /\ n = q * p + r
    <2>1. n \div p \in Nat /\ n % p \in 0 .. p - 1 /\ n = (n \div p) * p + (n % p)
      BY Division
    <2>. QED BY ONLY <2>1
  <1>2. (q + 1) * p = q * p + p /\ (g + 1) * p = g * p + p OBVIOUS
  <1>3. q * p \in Nat /\ g * p \in Nat OBVIOUS
  <1>4. CASE g = q BY <1>1, <1>2, <1>3, <1>4
  <1>5. CASE g + 1 <= q
    <2>1. (g + 1) * p <= q * p BY <1>5, Times
    <2>. QED BY <1>1, <1>3, <1>5, <2>1
  <1>6. CASE q + 1 <= g
    <2>1. (q + 1) * p <= g * p BY <1>6, Times
    <2>2. n < g * p BY <1>1, <1>2, <1>3, <2>1
    <2>. QED BY <1>1, <1>3, <1>6, <2>2
  <1>7. g = q \/ g + 1 <= q \/ q + 1 <= g OBVIOUS
  <1>. QED BY <1>4, <1>5, <1>6, <1>7

-----------------------------------------------------------------------------
(* The disk.                                                                *)

\* What is found at a byte where one record starts.
LEMMA OneThere ==
    ASSUME NEW records, NEW r \in records, \A s \in records : s.byte = r.byte => s = r
    PROVE  At(records, r.byte) = r.is
  <1>1. {s \in records : s.byte = r.byte} = {r} OBVIOUS
  <1>. QED BY <1>1 DEF At

LEMMA DiskType ==
    ASSUME NEW d \in Disks
    PROVE  /\ d.block \in {1024, 2048, 4096}
           /\ d.inodes \in Nat \ {0} /\ d.perGroup \in Nat \ {0}
           /\ Groups(d) = 0 .. (d.inodes - 1) \div d.perGroup
           /\ d.tables \in [Groups(d) -> Nat]
           /\ (d.inodes - 1) \div d.perGroup \in Nat
  <1>1. d.block \in {1024 * 2 ^ k : k \in 0 .. 2} BY DisksAssumption
  <1>2. d.block \in {1024, 2048, 4096} BY <1>1
  <1>3. d.inodes \in Nat \ {0} /\ d.perGroup \in Nat \ {0} BY DisksAssumption
  <1>4. (d.inodes - 1) \div d.perGroup \in Nat
    <2>1. PICK n \in Nat, p \in Nat \ {0} : n = d.inodes - 1 /\ p = d.perGroup BY <1>3
    <2>2. n \div p \in Nat BY ONLY Division
    <2>. QED BY <2>1, <2>2
  <1>. QED BY <1>2, <1>3, <1>4, DisksAssumption DEF Groups

\* Where the superblock and the descriptors have their numbers.
LEMMA NumbersThere ==
    ASSUME NEW d \in Disks
    PROVE  /\ At(Written(d), 1024 + 0) = d.inodes
           /\ At(Written(d), 1024 + 40) = d.perGroup
           /\ At(Written(d), 1024 + 24) \in 0 .. 2
           /\ 1024 * 2 ^ At(Written(d), 1024 + 24) = d.block
           /\ \A g \in Groups(d) : At(Written(d), Descriptors(d) + 32 * g + 8) = d.tables[g]
  <1>. DEFINE shift == CHOOSE k \in 0 .. 2 : d.block = 1024 * 2 ^ k
              W == Written(d)
              E == Descriptors(d)
  <1>1. shift \in 0 .. 2 /\ d.block = 1024 * 2 ^ shift
    <2>1. \E k \in 0 .. 2 : d.block = 1024 * 2 ^ k BY DisksAssumption
    <2>. QED BY <2>1
  <1>. HIDE DEF shift
  <1>2. \A r : r \in W <=>
            \/ r = [byte |-> 1024, is |-> d.inodes]
            \/ r = [byte |-> 1028, is |-> d.blocks]
            \/ r = [byte |-> 1048, is |-> shift]
            \/ r = [byte |-> 1056, is |-> d.groupBlocks]
            \/ r = [byte |-> 1064, is |-> d.perGroup]
            \/ \E g \in Groups(d) : r = [byte |-> E + 32 * g + 8, is |-> d.tables[g]]
    BY DEF Written, shift
  <1>3. E \in Nat /\ E >= 2048 /\ Groups(d) \subseteq Nat
    BY DiskType DEF Descriptors, BlockOf
  <1>. HIDE DEF W, E
  <1>4. ASSUME NEW r \in W, NEW s \in W, r.byte = s.byte PROVE r = s
    BY <1>2, <1>3, <1>4
  <1>5. ASSUME NEW r \in W PROVE At(W, r.byte) = r.is
    BY <1>4, OneThere
  <1>6. /\ [byte |-> 1024, is |-> d.inodes] \in W /\ [byte |-> 1048, is |-> shift] \in W
        /\ [byte |-> 1064, is |-> d.perGroup] \in W
    BY <1>2
  <1>7. At(W, 1024) = d.inodes /\ At(W, 1048) = shift /\ At(W, 1064) = d.perGroup
    BY <1>5, <1>6
  <1>8. ASSUME NEW g \in Groups(d) PROVE At(W, E + 32 * g + 8) = d.tables[g]
    <2>1. [byte |-> E + 32 * g + 8, is |-> d.tables[g]] \in W BY <1>2
    <2>. QED BY <1>5, <2>1
  <1>. QED BY <1>1, <1>7, <1>8 DEF W, E

\* The i-nodes of a group: from which, and which group an i-node is in.
LEMMA GroupOf ==
    ASSUME NEW d \in Disks, NEW i \in 1 .. d.inodes, NEW g \in Groups(d)
    PROVE  /\ i \in InGroup(d, g) <=> g = (i - 1) \div d.perGroup
           /\ Min(InGroup(d, g)) = g * d.perGroup + 1
  <1>. DEFINE p == d.perGroup
              N == d.inodes
              G == InGroup(d, g)
  <1>1. p \in Nat \ {0} /\ N \in Nat \ {0} /\ g \in Nat /\ g <= (N - 1) \div p
    BY DiskType
  <1>2. \A j : j \in G <=> j \in 1 .. N /\ g * p < j /\ j <= (g + 1) * p BY DEF InGroup
  <1>. HIDE DEF p, N, G
  <1>3. i - 1 \in Nat /\ N - 1 \in Nat /\ i \in 1 .. N BY <1>1 DEF N
  <1>4. g * p \in Nat /\ (g + 1) * p = g * p + p BY <1>1
  <1>5. (g * p <= i - 1 /\ i - 1 < (g + 1) * p) <=> g = (i - 1) \div p
    BY <1>1, <1>3, InOneGroup
  <1>6. i \in G <=> g = (i - 1) \div p BY <1>1, <1>2, <1>3, <1>4, <1>5
  <1>7. g * p <= N - 1
    <2>0. PICK n \in Nat : n = N - 1 BY <1>3
    <2>1. PICK q \in Nat, r \in 0 .. p - 1 : q = (N - 1) \div p /\ N - 1 = q * p + r
      <3>1. n \div p \in Nat /\ n % p \in 0 .. p - 1 /\ n = (n \div p) * p + (n % p)
        BY <1>1, Division
      <3>. QED BY ONLY <2>0, <3>1
    <2>2. g * p <= q * p BY <1>1, <2>1, Times
    <2>3. q * p \in Nat BY <1>1
    <2>. QED BY <1>3, <1>4, <2>1, <2>2, <2>3
  <1>8. g * p + 1 \in G BY <1>1, <1>2, <1>4, <1>7
  <1>9. \A j \in G : g * p + 1 <= j /\ j \in Int BY <1>2, <1>4
  <1>10. Min(G) = g * p + 1
    <2>1. Min(G) \in G /\ \A j \in G : Min(G) <= j BY <1>8, <1>9 DEF Min
    <2>. QED BY <1>4, <1>8, <1>9, <2>1
  <1>. QED BY <1>6, <1>10 DEF p, G

\* Where the record of an i-node is, and that no other is there.
LEMMA RecordThere ==
    ASSUME NEW d \in Disks, NEW i \in 1 .. d.inodes
    PROVE  LET g == (i - 1) \div d.perGroup
           IN  /\ g \in Groups(d)
               /\ At(Records(d), d.tables[g] * d.block + 128 * ((i - 1) % d.perGroup)) = i
  <1>. DEFINE p == d.perGroup
              R == Records(d)
              group(j) == (j - 1) \div p
              index(j) == (j - 1) % p
              place(j) == d.tables[group(j)] * d.block + 128 * index(j)
  <1>1. p \in Nat \ {0} /\ d.inodes \in Nat \ {0} /\ d.block \in Nat BY DiskType
  <1>2. ASSUME NEW j \in 1 .. d.inodes
        PROVE  /\ group(j) \in Groups(d) /\ index(j) \in 0 .. p - 1
               /\ j - 1 = group(j) * p + index(j)
    <2>1. j - 1 \in Nat /\ d.inodes - 1 \in Nat /\ j - 1 <= d.inodes - 1 BY <1>1
    <2>2. group(j) \in Nat /\ index(j) \in 0 .. p - 1 /\ j - 1 = group(j) * p + index(j)
      <3>1. PICK n \in Nat : n = j - 1 BY <2>1
      <3>. HIDE DEF p
      <3>2. n \div p \in Nat /\ n % p \in 0 .. p - 1 /\ n = (n \div p) * p + (n % p)
        BY <1>1, Division
      <3>. QED BY ONLY <3>1, <3>2
    <2>. HIDE DEF group, index
    <2>3. PICK q \in Nat, r \in 0 .. p - 1 : q = (d.inodes - 1) \div p /\ d.inodes - 1 = q * p + r
      <3>1. PICK n \in Nat : n = d.inodes - 1 BY <2>1
      <3>. HIDE DEF p
      <3>2. n \div p \in Nat /\ n % p \in 0 .. p - 1 /\ n = (n \div p) * p + (n % p)
        BY <1>1, Division
      <3>. QED BY ONLY <3>1, <3>2
    <2>4. group(j) <= q
      <3>1. SUFFICES ASSUME q + 1 <= group(j) PROVE FALSE BY <2>2
      <3>2. (q + 1) * p <= group(j) * p BY <1>1, <2>2, <3>1, Times
      <3>3. (q + 1) * p = q * p + p /\ q * p \in Nat /\ group(j) * p \in Nat BY <1>1, <2>2
      <3>. QED BY <1>1, <2>1, <2>2, <2>3, <3>2, <3>3
    <2>. QED BY <2>2, <2>3, <2>4, DiskType
  <1>3. ASSUME NEW r PROVE r \in R <=> \E j \in 1 .. d.inodes : r = [byte |-> place(j), is |-> j]
    <2>1. ASSUME NEW j \in 1 .. d.inodes
          PROVE  128 * (j - Min(InGroup(d, group(j)))) = 128 * index(j)
      <3>1. Min(InGroup(d, group(j))) = group(j) * p + 1 BY <1>2, GroupOf
      <3>2. group(j) * p \in Int BY <1>1, <1>2, DiskType
      <3>. HIDE DEF group, index, p
      <3>. QED BY <1>2, <3>1, <3>2
    <2>2. ASSUME r \in R PROVE \E j \in 1 .. d.inodes : r = [byte |-> place(j), is |-> j]
      <3>0. PICK g \in Groups(d) : \E j \in InGroup(d, g) :
                r = [byte |-> d.tables[g] * d.block + 128 * (j - Min(InGroup(d, g))), is |-> j]
        BY <2>2 DEF Records
      <3>1. PICK j \in InGroup(d, g) :
                r = [byte |-> d.tables[g] * d.block + 128 * (j - Min(InGroup(d, g))), is |-> j]
        BY <3>0
      <3>2. j \in 1 .. d.inodes BY DEF InGroup
      <3>3. g = group(j) BY <3>2, GroupOf
      <3>. QED BY <2>1, <3>1, <3>2, <3>3
    <2>3. ASSUME NEW j \in 1 .. d.inodes, r = [byte |-> place(j), is |-> j] PROVE r \in R
      <3>1. group(j) \in Groups(d) BY <1>2
      <3>2. j \in InGroup(d, group(j)) BY <3>1, GroupOf
      <3>. QED BY <2>1, <2>3, <3>1, <3>2 DEF Records
    <2>. QED BY <2>2, <2>3
  <1>4. ASSUME NEW j \in 1 .. d.inodes, NEW k \in 1 .. d.inodes, place(j) = place(k) PROVE j = k
    <2>1. PICK g, h, a, b : g = group(j) /\ h = group(k) /\ a = index(j) /\ b = index(k) OBVIOUS
    <2>2. /\ g \in Groups(d) /\ h \in Groups(d) /\ a \in 0 .. p - 1 /\ b \in 0 .. p - 1
          /\ j - 1 = g * p + a /\ k - 1 = h * p + b
          /\ d.tables[g] * d.block + 128 * a = d.tables[h] * d.block + 128 * b
      BY <1>2, <1>4, <2>1
    <2>3. d.tables[g] * d.block \in Nat /\ d.tables[h] * d.block \in Nat
      <3>1. d.tables[g] \in Nat /\ d.tables[h] \in Nat BY <2>2, DiskType
      <3>. QED BY <1>1, <3>1
    <2>4. CASE g = h
      <3>1. a = b BY <1>1, <2>2, <2>3, <2>4
      <3>. QED BY <2>2, <2>4, <3>1
    <2>5. CASE g # h
      <3>1. \/ d.tables[g] * d.block + 128 * p <= d.tables[h] * d.block
            \/ d.tables[h] * d.block + 128 * p <= d.tables[g] * d.block
        BY <2>2, <2>5, DisksAssumption DEF Groups
      <3>2. PICK x \in Nat, y \in Nat : x = d.tables[g] * d.block /\ y = d.tables[h] * d.block
        BY <2>3
      <3>. HIDE DEF p
      <3>. QED BY ONLY <1>1, <2>2, <3>1, <3>2
    <2>. QED BY <2>4, <2>5
  <1>5. [byte |-> place(i), is |-> i] \in R BY <1>3
  <1>6. ASSUME NEW s \in R, s.byte = place(i) PROVE s = [byte |-> place(i), is |-> i]
    <2>1. PICK j \in 1 .. d.inodes : s = [byte |-> place(j), is |-> j] BY <1>3
    <2>2. place(j) = place(i) BY <1>6, <2>1
    <2>3. j = i BY <1>4, <2>2
    <2>. QED BY <2>1, <2>3
  <1>7. At(R, place(i)) = i
    <2>. HIDE DEF R, place
    <2>. QED BY <1>5, <1>6, OneThere
  <1>. QED BY <1>2, <1>7

-----------------------------------------------------------------------------
(* getInode.                                                                *)

\* What the constructor has read is what mke2fs wrote.
Known ==
    /\ super.block_size = disk.block
    /\ super.inode_count_per_group = disk.perGroup
    /\ group_table = disk.tables

MountInv ==
    /\ disk \in Disks
    /\ super.mounted => Known
    /\ InodesFound

LEMMA MountOK == ASSUME MountInv, Mount PROVE MountInv'
  <1>. DEFINE super_at(k) == Number(2 * SECTOR + k)
              size == 1024 * 2 ^ super_at(24)
              groups == (super_at(0) - 1) \div super_at(40) + 1
  <1>1. disk \in Disks BY DEF MountInv
  <1>2. super_at(0) = disk.inodes /\ super_at(40) = disk.perGroup /\ size = disk.block
    BY <1>1, NumbersThere DEF Number, SECTOR
  <1>3. bgdt_offset(size) = Descriptors(disk)
    BY <1>1, <1>2, DiskType DEF bgdt_offset, Descriptors, BlockOf
  <1>4. 0 .. groups - 1 = Groups(disk) BY <1>1, <1>2, DiskType
  <1>5. /\ super' = [mounted |-> TRUE, block_size |-> size, inode_count |-> super_at(0),
                     inode_count_per_group |-> super_at(40), block_group_count |-> groups]
        /\ group_table' = [g \in 0 .. groups - 1 |-> Number(bgdt_offset(size) + 32 * g + 8)]
        /\ disk' = disk /\ inode' = inode
    BY DEF Mount
  <1>. HIDE DEF super_at, size, groups
  <1>6. group_table' = disk.tables
    <2>1. \A g \in Groups(disk) : Number(bgdt_offset(size) + 32 * g + 8) = disk.tables[g]
      BY <1>1, <1>3, NumbersThere DEF Number
    <2>2. disk.tables = [g \in Groups(disk) |-> disk.tables[g]] BY <1>1, DiskType
    <2>. QED BY <1>4, <1>5, <2>1, <2>2
  <1>. QED BY <1>1, <1>2, <1>5, <1>6 DEF MountInv, Known, InodesFound

LEMMA GetInodeOK ==
    ASSUME MountInv, NEW n \in 1 .. disk.inodes, GetInode(n)
    PROVE  MountInv'
  <1>1. disk \in Disks /\ Known BY DEF MountInv, GetInode
  <1>2. /\ (n - 1) \div disk.perGroup \in DOMAIN group_table
        /\ InodeAt(group_table[(n - 1) \div disk.perGroup] * super.block_size
                   + 128 * ((n - 1) % disk.perGroup)) = n
    BY <1>1, RecordThere DEF Known, InodeAt, Groups
  <1>3. inode' = [asked |-> n, is |-> n]
    BY <1>1, <1>2 DEF GetInode, FromOne, Known
  <1>4. disk' = disk /\ super' = super /\ group_table' = group_table BY DEF GetInode
  <1>. QED BY <1>1, <1>3, <1>4 DEF MountInv, Known, InodesFound

\* Ext2::getInode reads the i-node it is asked for, on every disk with its tables apart
\* (ext2.cc:109).
THEOREM InodesAreFound == MountSpec => []InodesFound
  <1>1. MountInit => MountInv BY DEF MountInit, MountInv, NotMounted, InodesFound
  <1>2. MountInv /\ [MountNext]_mountVars => MountInv'
    <2>1. SUFFICES ASSUME MountInv, [MountNext]_mountVars PROVE MountInv' OBVIOUS
    <2>2. CASE UNCHANGED mountVars BY <2>1, <2>2 DEF mountVars, MountInv, Known, InodesFound
    <2>. QED BY <2>1, <2>2, MountOK, GetInodeOK DEF MountNext
  <1>3. MountInv => InodesFound BY DEF MountInv
  <1>. QED BY <1>1, <1>2, <1>3, PTL DEF MountSpec

-----------------------------------------------------------------------------
(* Texts: strings one after the other, each with a 0 behind it.             *)

Chars == Nat \ {0}

\* t has s, and a 0, behind its first p bytes.
StringAt(t, p, s) ==
    /\ p \in Nat /\ p + Len(s) + 1 <= Len(t)
    /\ \A j \in 1 .. Len(s) : t[p + j] = s[j]
    /\ t[p + Len(s) + 1] = 0

\* The texts of the first strings, and how far they go from offset.
Upto(strings) ==
    LET upto[k \in 0 .. Len(strings)] ==
            IF k = 0 THEN <<>> ELSE upto[k - 1] \o Append(strings[k], 0)
    IN  upto
Ends(strings, offset) ==
    LET next[k \in 0 .. Len(strings)] ==
            IF k = 0 THEN offset ELSE next[k - 1] + Len(strings[k]) + 1
    IN  next

LEMMA UptoIs ==
    ASSUME NEW strings \in Seq(Seq(Nat))
    PROVE  /\ \A k \in 0 .. Len(strings) : Upto(strings)[k] \in Seq(Nat)
           /\ Upto(strings)[0] = <<>>
           /\ \A k \in 1 .. Len(strings) :
                  Upto(strings)[k] = Upto(strings)[k - 1] \o Append(strings[k], 0)
           /\ Concat(strings) = Upto(strings)[Len(strings)]
  <1>. DEFINE N == Len(strings)
              F == [k \in 1 .. N |-> [t \in Seq(Nat) |-> t \o Append(strings[k], 0)]]
              G(h, k) == IF k = 0 THEN <<>> ELSE h[k - 1] \o Append(strings[k], 0)
  <1>1. N \in Nat /\ <<>> \in Seq(Nat) /\ 0 \in 0 .. N OBVIOUS
  <1>2. ASSUME NEW k \in 1 .. N, NEW t \in Seq(Nat) PROVE t \o Append(strings[k], 0) \in Seq(Nat)
    <2>1. strings[k] \in Seq(Nat) OBVIOUS
    <2>2. Append(strings[k], 0) \in Seq(Nat) BY <2>1
    <2>. QED BY <2>2
  <1>3. F \in [1 .. N -> [Seq(Nat) -> Seq(Nat)]] BY <1>2
  <1>. HIDE DEF F
  <1>4. PICK f \in [0 .. N -> Seq(Nat)] : Iterates(f, <<>>, F, N) BY ONLY <1>1, <1>3, Iteration
  <1>5. \A k \in 0 .. N : f[k] = IF k = 0 THEN <<>> ELSE F[k][f[k - 1]] BY ONLY <1>4 DEF Iterates
  <1>6. ASSUME NEW k \in 0 .. N PROVE f[k] = G(f, k)
    <2>1. CASE k = 0 BY <1>5, <2>1
    <2>2. CASE k # 0
      <3>1. k \in 1 .. N /\ k - 1 \in 0 .. N BY <1>1, <2>2
      <3>2. F[k][f[k - 1]] = f[k - 1] \o Append(strings[k], 0) BY <3>1 DEF F
      <3>. QED BY <1>5, <2>2, <3>2
    <2>. QED BY <2>1, <2>2
  <1>7. f = [k \in 0 .. N |-> f[k]] OBVIOUS
  <1>8. f = [k \in 0 .. N |-> G(f, k)] BY ONLY <1>6, <1>7
  <1>9. Upto(strings) = CHOOSE h : h = [k \in 0 .. N |-> G(h, k)] BY DEF Upto
  <1>10. Upto(strings) = [k \in 0 .. N |-> G(Upto(strings), k)] BY ONLY <1>8, <1>9
  <1>11. PICK h : h = Upto(strings) OBVIOUS
  <1>. HIDE DEF G
  <1>12. \A k \in 0 .. N : h[k] = G(h, k) BY ONLY <1>10, <1>11
  <1>13. h[0] = <<>> BY <1>1, <1>12 DEF G
  <1>14. ASSUME NEW k \in 1 .. N PROVE h[k] = h[k - 1] \o Append(strings[k], 0)
    <2>1. k \in 0 .. N /\ k # 0 BY <1>1
    <2>. QED BY <1>12, <2>1 DEF G
  <1>. DEFINE S == {n \in Nat : n <= N => h[n] \in Seq(Nat)}
  <1>15. 0 \in S BY <1>1, <1>13
  <1>16. ASSUME NEW n \in Nat, n \in S PROVE n + 1 \in S
    <2>1. SUFFICES ASSUME n + 1 <= N PROVE h[n + 1] \in Seq(Nat) OBVIOUS
    <2>2. n + 1 \in 1 .. N /\ (n + 1) - 1 = n /\ n <= N BY <1>1, <2>1
    <2>3. h[n] \in Seq(Nat) BY <1>16, <2>2
    <2>4. h[n + 1] = h[n] \o Append(strings[n + 1], 0) BY <1>14, <2>2
    <2>. QED BY <1>2, <2>2, <2>3, <2>4
  <1>. HIDE DEF S
  <1>17. Nat \subseteq S BY <1>15, <1>16, AllNumbers
  <1>18. \A k \in 0 .. N : h[k] \in Seq(Nat) BY <1>1, <1>17 DEF S
  <1>19. Concat(strings) = Upto(strings)[N] BY DEF Concat, Upto
  <1>. QED BY <1>11, <1>13, <1>14, <1>18, <1>19

LEMMA EndsAre ==
    ASSUME NEW strings \in Seq(Seq(Nat)), NEW offset \in Nat
    PROVE  /\ \A k \in 0 .. Len(strings) : Ends(strings, offset)[k] \in Nat
           /\ Ends(strings, offset)[0] = offset
           /\ \A k \in 1 .. Len(strings) :
                  Ends(strings, offset)[k] = Ends(strings, offset)[k - 1] + Len(strings[k]) + 1
           /\ Offsets(strings, offset) = [k \in 1 .. Len(strings) |-> Ends(strings, offset)[k - 1]]
  <1>. DEFINE N == Len(strings)
              F == [k \in 1 .. N |-> [n \in Nat |-> n + Len(strings[k]) + 1]]
              G(h, k) == IF k = 0 THEN offset ELSE h[k - 1] + Len(strings[k]) + 1
  <1>1. N \in Nat /\ offset \in Nat /\ 0 \in 0 .. N OBVIOUS
  <1>2. ASSUME NEW k \in 1 .. N, NEW n \in Nat PROVE n + Len(strings[k]) + 1 \in Nat
    <2>1. strings[k] \in Seq(Nat) OBVIOUS
    <2>2. Len(strings[k]) \in Nat BY <2>1
    <2>. QED BY <2>2
  <1>3. F \in [1 .. N -> [Nat -> Nat]] BY <1>2
  <1>. HIDE DEF F
  <1>4. PICK f \in [0 .. N -> Nat] : Iterates(f, offset, F, N) BY ONLY <1>1, <1>3, Iteration
  <1>5. \A k \in 0 .. N : f[k] = IF k = 0 THEN offset ELSE F[k][f[k - 1]]
    BY ONLY <1>4 DEF Iterates
  <1>6. ASSUME NEW k \in 0 .. N PROVE f[k] = G(f, k)
    <2>1. CASE k = 0 BY <1>5, <2>1
    <2>2. CASE k # 0
      <3>1. k \in 1 .. N /\ k - 1 \in 0 .. N BY <1>1, <2>2
      <3>2. F[k][f[k - 1]] = f[k - 1] + Len(strings[k]) + 1 BY <3>1 DEF F
      <3>. QED BY <1>5, <2>2, <3>2
    <2>. QED BY <2>1, <2>2
  <1>7. f = [k \in 0 .. N |-> f[k]] OBVIOUS
  <1>8. f = [k \in 0 .. N |-> G(f, k)] BY ONLY <1>6, <1>7
  <1>9. Ends(strings, offset) = CHOOSE h : h = [k \in 0 .. N |-> G(h, k)] BY DEF Ends
  <1>10. Ends(strings, offset) = [k \in 0 .. N |-> G(Ends(strings, offset), k)]
    BY ONLY <1>8, <1>9
  <1>11. PICK h : h = Ends(strings, offset) OBVIOUS
  <1>. HIDE DEF G
  <1>12. \A k \in 0 .. N : h[k] = G(h, k) BY ONLY <1>10, <1>11
  <1>13. h[0] = offset BY <1>1, <1>12 DEF G
  <1>14. ASSUME NEW k \in 1 .. N PROVE h[k] = h[k - 1] + Len(strings[k]) + 1
    <2>1. k \in 0 .. N /\ k # 0 BY <1>1
    <2>. QED BY <1>12, <2>1 DEF G
  <1>. DEFINE S == {n \in Nat : n <= N => h[n] \in Nat}
  <1>15. 0 \in S BY <1>1, <1>13
  <1>16. ASSUME NEW n \in Nat, n \in S PROVE n + 1 \in S
    <2>1. SUFFICES ASSUME n + 1 <= N PROVE h[n + 1] \in Nat OBVIOUS
    <2>2. n + 1 \in 1 .. N /\ (n + 1) - 1 = n /\ n <= N BY <1>1, <2>1
    <2>3. h[n] \in Nat BY <1>16, <2>2
    <2>4. h[n + 1] = h[n] + Len(strings[n + 1]) + 1 BY <1>14, <2>2
    <2>. QED BY <1>2, <2>2, <2>3, <2>4
  <1>. HIDE DEF S
  <1>17. Nat \subseteq S BY <1>15, <1>16, AllNumbers
  <1>18. \A k \in 0 .. N : h[k] \in Nat BY <1>1, <1>17 DEF S
  <1>19. Offsets(strings, offset) = [k \in 1 .. N |-> Ends(strings, offset)[k - 1]]
    <2>1. DOMAIN strings = 1 .. N OBVIOUS
    <2>. QED BY <2>1 DEF Offsets, Ends
  <1>. QED BY <1>11, <1>13, <1>14, <1>18, <1>19

LEMMA StringIsBehind ==
    ASSUME NEW t \in Seq(Nat), NEW s \in Seq(Nat)
    PROVE  /\ StringAt(t \o Append(s, 0), Len(t), s)
           /\ Len(t \o Append(s, 0)) = Len(t) + Len(s) + 1
           /\ (t \o Append(s, 0))[Len(t \o Append(s, 0))] = 0
  <1>0. Append(s, 0) \in Seq(Nat) BY 0 \in Nat
  <1>1. PICK u \in Seq(Nat) : u = Append(s, 0) BY <1>0
  <1>2. Len(u) = Len(s) + 1 /\ u[Len(s) + 1] = 0 /\ \A j \in 1 .. Len(s) : u[j] = s[j]
    BY <1>1
  <1>3. Len(t) \in Nat /\ Len(s) \in Nat /\ Len(t \o u) = Len(t) + Len(u) OBVIOUS
  <1>4. ASSUME NEW j \in 1 .. Len(s) + 1 PROVE (t \o u)[Len(t) + j] = u[j]
    BY <1>2, <1>3
  <1>5. ASSUME NEW j \in 1 .. Len(s) PROVE (t \o u)[Len(t) + j] = s[j]
    <2>1. j \in 1 .. Len(s) + 1 BY <1>3
    <2>. QED BY <1>2, <1>4, <2>1
  <1>6. (t \o u)[Len(t) + (Len(s) + 1)] = 0
    <2>1. Len(s) + 1 \in 1 .. Len(s) + 1 BY <1>3
    <2>. QED BY <1>2, <1>4, <2>1
  <1>7. Len(t) + (Len(s) + 1) = Len(t) + Len(s) + 1 BY <1>3
  <1>. QED BY <1>1, <1>2, <1>3, <1>5, <1>6, <1>7 DEF StringAt

LEMMA StringStays ==
    ASSUME NEW t \in Seq(Nat), NEW u \in Seq(Nat), NEW p, NEW s \in Seq(Nat), StringAt(t, p, s)
    PROVE  StringAt(t \o u, p, s)
  <1>1. Len(t) \in Nat /\ Len(s) \in Nat /\ Len(u) \in Nat /\ Len(t \o u) = Len(t) + Len(u)
    OBVIOUS
  <1>2. \A j \in 1 .. Len(t) : (t \o u)[j] = t[j] OBVIOUS
  <1>3. p \in Nat /\ p + Len(s) + 1 \in 1 .. Len(t) /\ \A j \in 1 .. Len(s) : p + j \in 1 .. Len(t)
    BY <1>1 DEF StringAt
  <1>. QED BY <1>1, <1>2, <1>3 DEF StringAt

\* The k-th string is in the text at the k-th of the offsets.
LEMMA Layout ==
    ASSUME NEW strings \in Seq(Seq(Nat)), NEW offset \in Nat
    PROVE  /\ Concat(strings) \in Seq(Nat)
           /\ DOMAIN Offsets(strings, offset) = 1 .. Len(strings)
           /\ \A i \in 1 .. Len(strings) :
                  /\ Offsets(strings, offset)[i] \in Nat
                  /\ Offsets(strings, offset)[i] >= offset
                  /\ StringAt(Concat(strings), Offsets(strings, offset)[i] - offset, strings[i])
           /\ Concat(strings) # <<>> => Concat(strings)[Len(Concat(strings))] = 0
  <1>. DEFINE N == Len(strings)
  <1>1. PICK U, E : U = Upto(strings) /\ E = Ends(strings, offset) OBVIOUS
  <1>2. /\ \A k \in 0 .. N : U[k] \in Seq(Nat)
        /\ U[0] = <<>>
        /\ \A k \in 1 .. N : U[k] = U[k - 1] \o Append(strings[k], 0)
        /\ Concat(strings) = U[N]
    BY <1>1, UptoIs
  <1>3. /\ \A k \in 0 .. N : E[k] \in Nat
        /\ E[0] = offset
        /\ \A k \in 1 .. N : E[k] = E[k - 1] + Len(strings[k]) + 1
        /\ Offsets(strings, offset) = [k \in 1 .. N |-> E[k - 1]]
    BY <1>1, EndsAre
  <1>4. N \in Nat OBVIOUS
  <1>. DEFINE Done(n) == /\ Len(U[n]) = E[n] - offset
                         /\ \A i \in 1 .. n : StringAt(U[n], E[i - 1] - offset, strings[i])
                         /\ U[n] # <<>> => U[n][Len(U[n])] = 0
              S == {n \in Nat : n <= N => Done(n)}
  <1>5. 0 \in S
    <2>1. Len(U[0]) = E[0] - offset BY <1>2, <1>3
    <2>2. 1 .. 0 = {} OBVIOUS
    <2>. QED BY <1>2, <2>1, <2>2
  <1>6. ASSUME NEW n \in Nat, n \in S PROVE n + 1 \in S
    <2>1. SUFFICES ASSUME n + 1 <= N PROVE Done(n + 1) OBVIOUS
    <2>2. n + 1 \in 1 .. N /\ (n + 1) - 1 = n /\ n \in 0 .. N BY <1>4, <2>1
    <2>3. PICK t \in Seq(Nat), s \in Seq(Nat) : t = U[n] /\ s = strings[n + 1] BY <1>2, <2>2
    <2>4. U[n + 1] = t \o Append(s, 0) /\ E[n + 1] = E[n] + Len(s) + 1
      BY <1>2, <1>3, <2>2, <2>3
    <2>5. Done(n) BY <1>6, <2>2
    <2>6. Len(t) = E[n] - offset /\ Len(t) \in Nat /\ Len(s) \in Nat /\ E[n] \in Nat
      <3>1. Len(t) \in Nat /\ Len(s) \in Nat OBVIOUS
      <3>2. E[n] \in Nat BY <1>3, <2>2
      <3>3. Len(t) = E[n] - offset BY <2>3, <2>5
      <3>. QED BY <3>1, <3>2, <3>3
    <2>7. Len(U[n + 1]) = E[n + 1] - offset
      <3>1. Len(U[n + 1]) = Len(t) + Len(s) + 1 BY <2>4, StringIsBehind
      <3>. QED BY <2>4, <2>6, <3>1
    <2>8. ASSUME NEW i \in 1 .. n + 1 PROVE StringAt(U[n + 1], E[i - 1] - offset, strings[i])
      <3>1. CASE i = n + 1
        <4>1. E[i - 1] - offset = Len(t) BY <2>2, <2>6, <3>1
        <4>. QED BY <2>3, <2>4, <3>1, <4>1, StringIsBehind
      <3>2. CASE i # n + 1
        <4>1. i \in 1 .. n /\ i \in 1 .. N BY <2>2, <3>2
        <4>2. StringAt(t, E[i - 1] - offset, strings[i]) BY <2>3, <2>5, <4>1
        <4>3. strings[i] \in Seq(Nat) /\ Append(s, 0) \in Seq(Nat) BY <4>1
        <4>. QED BY <2>4, <4>2, <4>3, StringStays
      <3>. QED BY <3>1, <3>2
    <2>9. U[n + 1][Len(U[n + 1])] = 0 BY <2>4, StringIsBehind
    <2>. QED BY <2>7, <2>8, <2>9
  <1>. HIDE DEF S
  <1>7. N \in S BY <1>4, <1>5, <1>6, AllNumbers
  <1>8. Done(N) BY <1>4, <1>7 DEF S
  <1>9. ASSUME NEW i \in 1 .. N PROVE E[i - 1] \in Nat /\ E[i - 1] >= offset
    <2>1. StringAt(U[N], E[i - 1] - offset, strings[i]) BY <1>8
    <2>2. i - 1 \in 0 .. N BY <1>4
    <2>. QED BY <1>3, <2>1, <2>2 DEF StringAt
  <1>10. Concat(strings) \in Seq(Nat) BY <1>2, <1>4
  <1>. QED BY <1>2, <1>3, <1>8, <1>9, <1>10

-----------------------------------------------------------------------------
(* Strings and words in memory.                                             *)

\* m has s, and a 0, from a on.
Holds(m, a, s) == /\ \A j \in 1 .. Len(s) : m[a + j - 1] = s[j]
                  /\ m[a + Len(s)] = 0

\* There is the end of a string at a or behind.
IsString(m, a) == a \in User /\ \E n \in 0 .. Stack - 1 - a : m[a + n] = 0

LEMMA Bounds == Low \in Nat /\ Stack \in Nat /\ Low < Stack
  BY ExecAssumption

LEMMA UserRange == User \subseteq Nat /\ \A a \in User : a < Stack /\ Stack - 1 - a \in Nat
  BY Bounds DEF User

\* A string is up to the first 0.
LEMMA StringEnds ==
    ASSUME NEW m \in [User -> Nat], NEW a, IsString(m, a)
    PROVE  /\ strlen(m, a) \in 0 .. Stack - 1 - a
           /\ m[a + strlen(m, a)] = 0
           /\ \A n \in 0 .. strlen(m, a) - 1 : m[a + n] # 0
  <1>1. a \in User /\ Stack - 1 - a \in Nat BY UserRange DEF IsString
  <1>. DEFINE Z == {n \in 0 .. Stack - 1 - a : m[a + n] = 0}
  <1>2. Z \subseteq Nat /\ Z # {} BY DEF IsString
  <1>3. PICK n \in Z : \A k \in Z : n <= k BY ONLY <1>2, SmallestNat
  <1>4. strlen(m, a) = CHOOSE x \in Z : \A y \in Z : x =< y BY DEF strlen, Min
  <1>. HIDE DEF Z
  <1>5. strlen(m, a) \in Z /\ \A y \in Z : strlen(m, a) <= y BY ONLY <1>3, <1>4
  <1>6. ASSUME NEW k \in 0 .. strlen(m, a) - 1 PROVE m[a + k] # 0
    <2>1. strlen(m, a) \in 0 .. Stack - 1 - a BY <1>5 DEF Z
    <2>2. k \in 0 .. Stack - 1 - a /\ ~(strlen(m, a) <= k) BY <1>1, <2>1
    <2>3. k \notin Z BY <1>5, <2>2
    <2>. QED BY <2>2, <2>3 DEF Z
  <1>. QED BY <1>5, <1>6 DEF Z

LEMMA StringIs ==
    ASSUME NEW m \in [User -> Nat], NEW a, IsString(m, a)
    PROVE  /\ String(m, a) \in Seq(Chars)
           /\ Len(String(m, a)) = strlen(m, a)
           /\ Holds(m, a, String(m, a))
  <1>. DEFINE n == strlen(m, a)
  <1>1. a \in User /\ Stack - 1 - a \in Nat /\ a \in Nat /\ a < Stack BY UserRange DEF IsString
  <1>2. n \in 0 .. Stack - 1 - a /\ m[a + n] = 0 /\ \A k \in 0 .. n - 1 : m[a + k] # 0
    BY StringEnds
  <1>. HIDE DEF n
  <1>3. n \in Nat BY <1>2
  <1>4. ASSUME NEW k \in 1 .. n PROVE m[a + k - 1] \in Chars
    <2>1. k - 1 \in 0 .. n - 1 /\ a + (k - 1) = a + k - 1 BY <1>1, <1>3
    <2>2. a + k - 1 \in Low .. Stack - 1
      BY <1>1, <1>2, <1>3, Bounds DEF User
    <2>. QED BY <1>2, <2>1, <2>2 DEF User, Chars
  <1>5. String(m, a) = [k \in 1 .. n |-> m[a + k - 1]] BY DEF String, n
  <1>6. String(m, a) \in Seq(Chars) BY <1>3, <1>4, <1>5
  <1>7. Len(String(m, a)) = n BY <1>3, <1>5
  <1>. QED BY <1>2, <1>5, <1>6, <1>7 DEF Holds, n

LEMMA HeldString ==
    ASSUME NEW m \in [User -> Nat], NEW a \in User, NEW s \in Seq(Chars),
           a + Len(s) < Stack, Holds(m, a, s)
    PROVE  IsString(m, a) /\ strlen(m, a) = Len(s) /\ String(m, a) = s
  <1>1. a \in Nat /\ Len(s) \in Nat /\ Stack \in Nat BY UserRange, Bounds
  <1>2. Len(s) \in 0 .. Stack - 1 - a BY <1>1
  <1>3. IsString(m, a) BY <1>2 DEF IsString, Holds
  <1>4. PICK n : n = strlen(m, a) OBVIOUS
  <1>5. n \in 0 .. Stack - 1 - a /\ m[a + n] = 0 /\ \A k \in 0 .. n - 1 : m[a + k] # 0
    BY <1>3, <1>4, StringEnds
  <1>6. ~(n < Len(s))
    <2>1. SUFFICES ASSUME n < Len(s) PROVE FALSE OBVIOUS
    <2>2. n + 1 \in 1 .. Len(s) /\ a + (n + 1) - 1 = a + n BY <1>1, <1>5, <2>1
    <2>3. m[a + n] = s[n + 1] /\ s[n + 1] \in Chars BY <2>2 DEF Holds
    <2>. QED BY <1>5, <2>3 DEF Chars
  <1>7. ~(Len(s) < n)
    <2>1. SUFFICES ASSUME Len(s) < n PROVE FALSE OBVIOUS
    <2>2. Len(s) \in 0 .. n - 1 BY <1>1, <1>5, <2>1
    <2>. QED BY <1>5, <2>2 DEF Holds
  <1>8. n = Len(s) BY <1>1, <1>5, <1>6, <1>7
  <1>9. String(m, a) = [k \in 1 .. Len(s) |-> m[a + k - 1]] BY <1>4, <1>8 DEF String
  <1>10. s = [k \in 1 .. Len(s) |-> s[k]] OBVIOUS
  <1>11. String(m, a) = s BY <1>9, <1>10 DEF Holds
  <1>. QED BY <1>3, <1>4, <1>8, <1>11

\* f is m with the bytes at `to`.
Copied(f, D, m, to, bytes) ==
    /\ f \in [D -> Nat]
    /\ \A a \in D : a \notin to .. to + Len(bytes) - 1 => f[a] = m[a]
    /\ \A j \in 1 .. Len(bytes) : to + j - 1 \in D => f[to + j - 1] = bytes[j]

LEMMA MemcpyIs ==
    ASSUME NEW D, NEW m \in [D -> Nat], NEW to \in Int, NEW bytes \in Seq(Nat), D \subseteq Int
    PROVE  Copied(memcpy(m, to, bytes), D, m, to, bytes)
  <1>1. DOMAIN bytes = 1 .. Len(bytes) /\ Len(bytes) \in Nat OBVIOUS
  <1>2. memcpy(m, to, bytes) = [a \in D |-> IF a - to + 1 \in 1 .. Len(bytes)
                                            THEN bytes[a - to + 1] ELSE m[a]]
    BY <1>1 DEF memcpy
  <1>3. memcpy(m, to, bytes) \in [D -> Nat]
    <2>1. \A k \in 1 .. Len(bytes) : bytes[k] \in Nat OBVIOUS
    <2>. QED BY <1>2, <2>1
  <1>4. ASSUME NEW a \in D, a \notin to .. to + Len(bytes) - 1
        PROVE  memcpy(m, to, bytes)[a] = m[a]
    <2>1. a - to + 1 \notin 1 .. Len(bytes) BY <1>1, <1>4
    <2>. QED BY <1>2, <2>1
  <1>5. ASSUME NEW j \in 1 .. Len(bytes), to + j - 1 \in D
        PROVE  memcpy(m, to, bytes)[to + j - 1] = bytes[j]
    <2>1. (to + j - 1) - to + 1 = j BY <1>1
    <2>. QED BY <1>2, <1>5, <2>1
  <1>. QED BY <1>3, <1>4, <1>5 DEF Copied

\* A word in memory.
WordAt(m, a, w) == m[a] = w /\ m[a + 1] = 0 /\ m[a + 2] = 0 /\ m[a + 3] = 0
FourBytes(a) == {a, a + 1, a + 2, a + 3}

LEMMA WordIs == ASSUME NEW m, NEW a, NEW w \in Nat, WordAt(m, a, w) PROVE Word(m, a) = w
  BY DEF WordAt, Word

LEMMA WordCopied ==
    ASSUME NEW D, NEW m \in [D -> Nat], NEW to \in Int, NEW w \in Nat, D \subseteq Int,
           FourBytes(to) \subseteq D
    PROVE  /\ memcpy(m, to, Bytes(w)) \in [D -> Nat]
           /\ \A a \in D : a \notin FourBytes(to) => memcpy(m, to, Bytes(w))[a] = m[a]
           /\ WordAt(memcpy(m, to, Bytes(w)), to, w)
  <1>1. PICK b : b = Bytes(w) OBVIOUS
  <1>2. /\ b \in Seq(Nat) /\ Len(b) = 4
        /\ b[1] = w /\ b[2] = 0 /\ b[3] = 0 /\ b[4] = 0
    BY <1>1 DEF Bytes
  <1>3. PICK f : f = memcpy(m, to, b) OBVIOUS
  <1>4. /\ f \in [D -> Nat]
        /\ \A a \in D : a \notin to .. to + 4 - 1 => f[a] = m[a]
        /\ \A j \in 1 .. 4 : to + j - 1 \in D => f[to + j - 1] = b[j]
    <2>1. /\ f \in [D -> Nat]
          /\ \A a \in D : a \notin to .. to + Len(b) - 1 => f[a] = m[a]
          /\ \A j \in 1 .. Len(b) : to + j - 1 \in D => f[to + j - 1] = b[j]
      <3>1. Copied(memcpy(m, to, b), D, m, to, b) BY <1>2, MemcpyIs
      <3>. QED BY ONLY <1>3, <3>1 DEF Copied
    <2>. QED BY <1>2, <2>1
  <1>5. ASSUME NEW a \in D, a \notin FourBytes(to) PROVE f[a] = m[a]
    <2>1. a \notin to .. to + 4 - 1 BY <1>5 DEF FourBytes
    <2>. QED BY <1>4, <2>1
  <1>6. /\ to + 1 - 1 = to /\ to + 2 - 1 = to + 1 /\ to + 3 - 1 = to + 2 /\ to + 4 - 1 = to + 3
        /\ to \in D /\ to + 1 \in D /\ to + 2 \in D /\ to + 3 \in D
    BY DEF FourBytes
  <1>7. f[to] = b[1] /\ f[to + 1] = b[2] /\ f[to + 2] = b[3] /\ f[to + 3] = b[4]
    <2>1. f[to + 1 - 1] = b[1] BY <1>4, <1>6
    <2>2. f[to + 2 - 1] = b[2] BY <1>4, <1>6
    <2>3. f[to + 3 - 1] = b[3] BY <1>4, <1>6
    <2>4. f[to + 4 - 1] = b[4] BY <1>4, <1>6
    <2>. QED BY <1>6, <2>1, <2>2, <2>3, <2>4
  <1>. QED BY <1>1, <1>2, <1>3, <1>4, <1>5, <1>7 DEF WordAt

\* A loop that stores words one behind the other: v[k] says what the k-th is, from the memory
\* as it is then.  Each word is stored, and nothing else changes.
Stores(f, m, from, v, n) ==
    /\ f[0] = m
    /\ \A k \in 1 .. n : f[k] = memcpy(f[k - 1], from + 4 * (k - 1), Bytes(v[k][f[k - 1]]))

LEMMA WordsStored ==
    ASSUME NEW D, NEW m \in [D -> Nat], NEW from \in Int, NEW n \in Nat, D \subseteq Int,
           NEW v \in [1 .. n -> [[D -> Nat] -> Nat]], NEW f, Stores(f, m, from, v, n),
           from .. from + 4 * n - 1 \subseteq D
    PROVE  /\ \A k \in 0 .. n : f[k] \in [D -> Nat]
           /\ \A k \in 0 .. n : \A a \in D : a \notin from .. from + 4 * k - 1 => f[k][a] = m[a]
           /\ \A k \in 0 .. n : \A j \in 1 .. k : WordAt(f[k], from + 4 * (j - 1), v[j][f[j - 1]])
  <1>. DEFINE Done(k) ==
                  /\ f[k] \in [D -> Nat]
                  /\ \A a \in D : a \notin from .. from + 4 * k - 1 => f[k][a] = m[a]
                  /\ \A j \in 1 .. k : WordAt(f[k], from + 4 * (j - 1), v[j][f[j - 1]])
              S == {k \in Nat : k <= n => Done(k)}
  <1>1. 0 \in S
    <2>1. f[0] = m BY DEF Stores
    <2>2. 1 .. 0 = {} OBVIOUS
    <2>. QED BY <2>1, <2>2
  <1>2. ASSUME NEW k \in Nat, k \in S PROVE k + 1 \in S
    <2>. HIDE DEF Done
    <2>1. SUFFICES ASSUME k + 1 <= n PROVE Done(k + 1) OBVIOUS
    <2>2. Done(k) /\ k + 1 \in 1 .. n /\ (k + 1) - 1 = k BY <1>2, <2>1
    <2>. USE DEF Done
    <2>. DEFINE to == from + 4 * k
                w == v[k + 1][f[k]]
    <2>3. f[k + 1] = memcpy(f[k], to, Bytes(w)) BY <2>2 DEF Stores
    <2>4. w \in Nat /\ to \in Int BY <2>2
    <2>5. ASSUME NEW a \in FourBytes(to) PROVE a \in from .. from + 4 * (k + 1) - 1 /\ a \in D
      <3>1. a \in from .. from + 4 * (k + 1) - 1 BY <2>5 DEF FourBytes
      <3>2. from + 4 * (k + 1) - 1 <= from + 4 * n - 1 BY <2>1
      <3>3. a \in from .. from + 4 * n - 1 BY <3>1, <3>2
      <3>. QED BY <3>1, <3>3
    <2>6. FourBytes(to) \subseteq D BY <2>5
    <2>. HIDE DEF w
    <2>7. /\ f[k + 1] \in [D -> Nat]
          /\ \A a \in D : a \notin FourBytes(to) => f[k + 1][a] = f[k][a]
          /\ WordAt(f[k + 1], to, w)
      <3>1. PICK g \in [D -> Nat] : g = f[k] BY <2>2
      <3>2. f[k + 1] = memcpy(g, to, Bytes(w)) BY <2>3, <3>1
      <3>3. /\ memcpy(g, to, Bytes(w)) \in [D -> Nat]
            /\ \A a \in D : a \notin FourBytes(to) => memcpy(g, to, Bytes(w))[a] = g[a]
            /\ WordAt(memcpy(g, to, Bytes(w)), to, w)
        BY <2>4, <2>6, WordCopied
      <3>. QED BY ONLY <3>1, <3>2, <3>3
    <2>8. ASSUME NEW a \in D, a \notin from .. from + 4 * (k + 1) - 1 PROVE f[k + 1][a] = m[a]
      <3>1. a \notin FourBytes(to) BY <2>5, <2>8
      <3>2. a \notin from .. from + 4 * k - 1 BY <2>8
      <3>. QED BY <2>2, <2>7, <3>1, <3>2
    <2>9. ASSUME NEW j \in 1 .. k + 1 PROVE WordAt(f[k + 1], from + 4 * (j - 1), v[j][f[j - 1]])
      <3>1. CASE j = k + 1 BY <2>2, <2>7, <3>1 DEF w
      <3>2. CASE j # k + 1
        <4>1. j \in 1 .. k BY <3>2
        <4>. DEFINE b == from + 4 * (j - 1)
        <4>2. b \in Int /\ b + 3 < to /\ b >= from BY <4>1
        <4>3. ASSUME NEW a \in FourBytes(b) PROVE f[k + 1][a] = f[k][a]
          <5>1. a \in from .. from + 4 * n - 1 BY <2>1, <4>2 DEF FourBytes
          <5>2. a \notin FourBytes(to) BY <4>2 DEF FourBytes
          <5>. QED BY <2>7, <5>1, <5>2
        <4>4. WordAt(f[k], b, v[j][f[j - 1]]) BY <2>2, <4>1
        <4>. QED BY <4>3, <4>4 DEF WordAt, FourBytes
      <3>. QED BY <3>1, <3>2
    <2>. QED BY <2>7, <2>8, <2>9
  <1>. HIDE DEF S
  <1>3. Nat \subseteq S BY <1>1, <1>2, AllNumbers
  <1>4. \A k \in 0 .. n : Done(k) BY <1>3 DEF S
  <1>. QED BY <1>4

LEMMA BytesType == \A w \in Nat : Bytes(w) \in Seq(Nat)
  BY 0 \in Nat DEF Bytes

\* There is such a loop,
LEMMA LoopExists ==
    ASSUME NEW D, NEW m \in [D -> Nat], NEW from \in Int, NEW n \in Nat, D \subseteq Int,
           NEW v \in [1 .. n -> [[D -> Nat] -> Nat]]
    PROVE  \E f \in [0 .. n -> [D -> Nat]] : Stores(f, m, from, v, n)
  <1>. DEFINE V == [D -> Nat]
              F == [k \in 1 .. n |-> [x \in V |-> memcpy(x, from + 4 * (k - 1), Bytes(v[k][x]))]]
  <1>1. ASSUME NEW k \in 1 .. n, NEW x \in V
        PROVE  memcpy(x, from + 4 * (k - 1), Bytes(v[k][x])) \in V
    <2>1. v[k][x] \in Nat OBVIOUS
    <2>2. PICK b \in Seq(Nat), to \in Int : b = Bytes(v[k][x]) /\ to = from + 4 * (k - 1)
      BY <2>1, BytesType
    <2>3. Copied(memcpy(x, to, b), D, x, to, b) BY MemcpyIs
    <2>. QED BY <2>2, <2>3 DEF Copied
  <1>2. F \in [1 .. n -> [V -> V]] BY <1>1
  <1>3. \A k \in 1 .. n : \A x \in V : F[k][x] = memcpy(x, from + 4 * (k - 1), Bytes(v[k][x]))
    OBVIOUS
  <1>. HIDE DEF F, V
  <1>4. PICK f \in [0 .. n -> V] : Iterates(f, m, F, n)
    <2>1. m \in V BY DEF V
    <2>. QED BY ONLY <1>2, <2>1, n \in Nat, Iteration
  <1>5. \A k \in 0 .. n : f[k] = IF k = 0 THEN m ELSE F[k][f[k - 1]] BY ONLY <1>4 DEF Iterates
  <1>6. f[0] = m
    <2>1. 0 \in 0 .. n OBVIOUS
    <2>. QED BY ONLY <1>5, <2>1
  <1>7. ASSUME NEW k \in 1 .. n
        PROVE  f[k] = memcpy(f[k - 1], from + 4 * (k - 1), Bytes(v[k][f[k - 1]]))
    <2>1. k \in 0 .. n /\ k # 0 /\ f[k - 1] \in V OBVIOUS
    <2>. QED BY <1>3, <1>5, <2>1
  <1>. QED BY <1>6, <1>7 DEF Stores, V

\* and a function that is built like that is one.
Builds(h, D, m, from, v, n) ==
    /\ h[0] = m
    /\ \A k \in 1 .. n : h[k - 1] \in [D -> Nat] =>
           h[k] = memcpy(h[k - 1], from + 4 * (k - 1), Bytes(v[k][h[k - 1]]))

LEMMA LoopBuilt ==
    ASSUME NEW D, NEW m \in [D -> Nat], NEW from \in Int, NEW n \in Nat, D \subseteq Int,
           NEW v \in [1 .. n -> [[D -> Nat] -> Nat]], NEW h, Builds(h, D, m, from, v, n)
    PROVE  Stores(h, m, from, v, n) /\ \A k \in 0 .. n : h[k] \in [D -> Nat]
  <1>. DEFINE S == {k \in Nat : k <= n => h[k] \in [D -> Nat]}
  <1>1. 0 \in S BY DEF Builds
  <1>2. ASSUME NEW k \in Nat, k \in S PROVE k + 1 \in S
    <2>1. SUFFICES ASSUME k + 1 <= n PROVE h[k + 1] \in [D -> Nat] OBVIOUS
    <2>2. PICK i \in 1 .. n : i = k + 1 BY <2>1
    <2>3. i - 1 = k /\ k <= n BY <2>1, <2>2
    <2>4. PICK x \in [D -> Nat] : x = h[i - 1] BY <1>2, <2>3
    <2>5. h[i] = memcpy(x, from + 4 * (i - 1), Bytes(v[i][x])) BY <2>4 DEF Builds
    <2>6. v[i][x] \in Nat OBVIOUS
    <2>7. PICK b \in Seq(Nat), to \in Int : b = Bytes(v[i][x]) /\ to = from + 4 * (i - 1)
      BY <2>6, BytesType
    <2>8. Copied(memcpy(x, to, b), D, x, to, b) BY MemcpyIs
    <2>. QED BY <2>2, <2>5, <2>7, <2>8 DEF Copied
  <1>. HIDE DEF S
  <1>3. Nat \subseteq S BY <1>1, <1>2, AllNumbers
  <1>4. \A k \in 0 .. n : h[k] \in [D -> Nat] BY <1>3 DEF S
  <1>5. ASSUME NEW k \in 1 .. n PROVE h[k - 1] \in [D -> Nat] BY <1>4
  <1>. QED BY <1>4, <1>5 DEF Builds, Stores

-----------------------------------------------------------------------------
(* The kernel's copy of the arguments.                                      *)

FirstText(strings) == 4 * (Len(strings) + 1)
Places(strings) == Offsets(strings, FirstText(strings))

LEMMA ConcatType == ASSUME NEW strings \in Seq(Seq(Nat)) PROVE Concat(strings) \in Seq(Nat)
  BY 0 \in Nat, Layout

BufferIs(b, strings) ==
    /\ b \in [0 .. FirstText(strings) + Len(Concat(strings)) - 1 -> Nat]
    /\ \A i \in 1 .. Len(strings) : WordAt(b, 4 * (i - 1), Places(strings)[i])
    /\ WordAt(b, 4 * Len(strings), 0)
    /\ \A j \in 1 .. Len(Concat(strings)) : b[FirstText(strings) + j - 1] = Concat(strings)[j]

LEMMA ArgsCopied ==
    ASSUME said \in Seq(Seq(Nat)), Len(argv) = Len(said),
           said = [i \in DOMAIN argv |-> String(memory, argv[i])], CopyArgs
    PROVE  BufferIs(buffer', said)
  <1>. DEFINE N == Len(said)
              text == Concat(said)
              size == FirstText(said) + Len(text)
              D == 0 .. size - 1
              blank == [a \in D |-> 0]
              start == memcpy(blank, FirstText(said), text)
              G(h, k) == IF k = 0 THEN start
                         ELSE memcpy(h[k - 1], 4 * (k - 1), Bytes(Places(said)[k]))
              W == CHOOSE h : h = [k \in 0 .. N |-> G(h, k)]
              v == [k \in 1 .. N |-> [x \in [D -> Nat] |-> Places(said)[k]]]
  <1>1. N \in Nat /\ text \in Seq(Nat) /\ Len(text) \in Nat /\ FirstText(said) \in Nat
        /\ FirstText(said) = 4 * N + 4
    <2>1. N \in Nat BY said \in Seq(Seq(Nat))
    <2>2. text \in Seq(Nat) BY ConcatType
    <2>3. Len(text) \in Nat BY <2>2
    <2>. QED BY <2>1, <2>2, <2>3 DEF FirstText
  <1>2. \A i \in 1 .. N : Places(said)[i] \in Nat
    <2>1. FirstText(said) \in Nat BY <1>1
    <2>. QED BY <2>1, Layout DEF Places
  <1>3. buffer' = memcpy(W[N], 4 * N, Bytes(0))
    <2>1. Offset = FirstText(said) /\ Offsets(said, Offset) = Places(said)
      BY <1>1 DEF Offset, FirstText, Places
    <2>2. Len(argv) = N OBVIOUS
    <2>3. FirstText(said) + Len(text) - 1 = size - 1 BY <1>1
    <2>. QED BY <2>1, <2>2, <2>3, Zenon DEF CopyArgs
  <1>. HIDE DEF text
  <1>4. D \subseteq Int /\ blank \in [D -> Nat] BY <1>1
  <1>5. Copied(start, D, blank, FirstText(said), text)
    <2>0. FirstText(said) \in Int BY <1>1
    <2>1. PICK to \in Int : to = FirstText(said) BY ONLY <2>0
    <2>3. PICK b \in Seq(Nat) : b = text BY ONLY <1>1
    <2>. HIDE DEF D, blank
    <2>2. Copied(memcpy(blank, to, b), D, blank, to, b) BY <1>4, MemcpyIs
    <2>. QED BY <2>1, <2>2, <2>3 DEF start
  <1>. HIDE DEF blank, start
  <1>6. start \in [D -> Nat] BY <1>5 DEF Copied
  <1>7. v \in [1 .. N -> [[D -> Nat] -> Nat]] BY <1>2
  <1>8. \A k \in 1 .. N : \A x \in [D -> Nat] : v[k][x] = Places(said)[k] OBVIOUS
  <1>. HIDE DEF v, D
  <1>9. PICK f \in [0 .. N -> [D -> Nat]] : Stores(f, start, 0, v, N)
    <2>1. 0 \in Int /\ N \in Nat BY <1>1
    <2>. HIDE DEF size
    <2>. QED BY ONLY <1>4, <1>6, <1>7, <2>1, LoopExists
  <1>10. ASSUME NEW k \in 1 .. N, NEW x \in [D -> Nat]
         PROVE  memcpy(x, 0 + 4 * (k - 1), Bytes(v[k][x])) = memcpy(x, 4 * (k - 1), Bytes(Places(said)[k]))
    <2>1. 0 + 4 * (k - 1) = 4 * (k - 1) OBVIOUS
    <2>. QED BY <1>8, <2>1
  <1>11. f = [k \in 0 .. N |-> G(f, k)]
    <2>1. ASSUME NEW k \in 0 .. N PROVE f[k] = G(f, k)
      <3>1. CASE k = 0 BY <1>9, <3>1 DEF Stores
      <3>2. CASE k # 0
        <4>1. k \in 1 .. N /\ k - 1 \in 0 .. N BY <1>1, <3>2
        <4>2. f[k] = memcpy(f[k - 1], 0 + 4 * (k - 1), Bytes(v[k][f[k - 1]]))
          BY <1>9, <4>1 DEF Stores
        <4>3. f[k - 1] \in [D -> Nat] BY <4>1
        <4>. QED BY <1>10, <3>2, <4>1, <4>2, <4>3
      <3>. QED BY <3>1, <3>2
    <2>2. f = [k \in 0 .. N |-> f[k]] OBVIOUS
    <2>. QED BY ONLY <2>1, <2>2
  <1>12. W = [k \in 0 .. N |-> G(W, k)]
    <2>. HIDE DEF G
    <2>. QED BY ONLY <1>11
  <1>13. PICK h : h = W OBVIOUS
  <1>14. Stores(h, start, 0, v, N) /\ \A k \in 0 .. N : h[k] \in [D -> Nat]
    <2>. HIDE DEF G, W
    <2>0. \A k \in 0 .. N : h[k] = G(h, k) BY ONLY <1>12, <1>13
    <2>1. h[0] = start
      <3>1. 0 \in 0 .. N BY <1>1
      <3>. QED BY <2>0, <3>1 DEF G
    <2>2. ASSUME NEW k \in 1 .. N, h[k - 1] \in [D -> Nat]
          PROVE  h[k] = memcpy(h[k - 1], 0 + 4 * (k - 1), Bytes(v[k][h[k - 1]]))
      <3>1. k \in 0 .. N /\ k # 0 BY <1>1
      <3>2. h[k] = memcpy(h[k - 1], 4 * (k - 1), Bytes(Places(said)[k])) BY <2>0, <3>1 DEF G
      <3>. QED BY <1>10, <2>2, <3>2
    <2>3. Builds(h, D, start, 0, v, N) BY <2>1, <2>2 DEF Builds
    <2>4. 0 \in Int /\ N \in Nat BY <1>1
    <2>. QED BY ONLY <1>4, <1>6, <1>7, <2>3, <2>4, LoopBuilt
  <1>15. 0 .. 0 + 4 * N - 1 \subseteq D
    <2>1. 4 * N <= size /\ size \in Int /\ 4 * N \in Int /\ 0 + 4 * N = 4 * N BY <1>1
    <2>2. PICK i \in Int : i = 4 * N BY <2>1
    <2>3. PICK z \in Int : z = size BY <2>1
    <2>5. i <= z BY ONLY <2>1, <2>2, <2>3
    <2>4. 0 .. i - 1 \subseteq 0 .. z - 1 BY ONLY <2>5, i \in Int, z \in Int
    <2>. QED BY ONLY <2>1, <2>2, <2>3, <2>4 DEF D
  <1>16. /\ h[N] \in [D -> Nat]
         /\ \A a \in D : a \notin 0 .. 0 + 4 * N - 1 => h[N][a] = start[a]
         /\ \A j \in 1 .. N : WordAt(h[N], 0 + 4 * (j - 1), v[j][h[j - 1]])
    <2>1. N \in 0 .. N /\ N \in Nat /\ 0 \in Int BY <1>1
    <2>2. /\ \A k \in 0 .. N : h[k] \in [D -> Nat]
          /\ \A k \in 0 .. N : \A a \in D : a \notin 0 .. 0 + 4 * k - 1 => h[k][a] = start[a]
          /\ \A k \in 0 .. N : \A j \in 1 .. k : WordAt(h[k], 0 + 4 * (j - 1), v[j][h[j - 1]])
      BY ONLY <1>4, <1>6, <1>7, <1>14, <1>15, <2>1, WordsStored
    <2>. QED BY <2>1, <2>2
  <1>17. PICK g \in [D -> Nat] : g = h[N] BY <1>16
  <1>18. buffer' = memcpy(g, 4 * N, Bytes(0)) BY <1>3, <1>13, <1>14, <1>17
  <1>19. FourBytes(4 * N) \subseteq D BY <1>1 DEF FourBytes, D
  <1>20. /\ buffer' \in [D -> Nat]
         /\ \A a \in D : a \notin FourBytes(4 * N) => buffer'[a] = g[a]
         /\ WordAt(buffer', 4 * N, 0)
    <2>1. PICK to \in Int : to = 4 * N BY <1>1
    <2>2. 0 \in Nat /\ FourBytes(to) \subseteq D BY <1>19, <2>1
    <2>3. /\ memcpy(g, to, Bytes(0)) \in [D -> Nat]
          /\ \A a \in D : a \notin FourBytes(to) => memcpy(g, to, Bytes(0))[a] = g[a]
          /\ WordAt(memcpy(g, to, Bytes(0)), to, 0)
      BY ONLY <1>4, <2>2, g \in [D -> Nat], to \in Int, WordCopied
    <2>. QED BY ONLY <1>18, <2>1, <2>3
  <1>21. ASSUME NEW i \in 1 .. N PROVE WordAt(buffer', 4 * (i - 1), Places(said)[i])
    <2>1. h[i - 1] \in [D -> Nat]
      <3>1. i - 1 \in 0 .. N BY <1>1
      <3>. QED BY <1>14, <3>1
    <2>2. WordAt(g, 4 * (i - 1), Places(said)[i])
      <3>1. 0 + 4 * (i - 1) = 4 * (i - 1) OBVIOUS
      <3>. QED BY <1>8, <1>16, <1>17, <2>1, <3>1
    <2>3. ASSUME NEW a \in FourBytes(4 * (i - 1)) PROVE buffer'[a] = g[a]
      <3>1. a \in 0 .. 4 * N - 1 BY <1>1 DEF FourBytes
      <3>2. a \in D /\ a \notin FourBytes(4 * N) BY <1>1, <3>1 DEF FourBytes, D
      <3>. QED BY <1>20, <3>2
    <2>. QED BY <2>2, <2>3 DEF WordAt, FourBytes
  <1>22. ASSUME NEW j \in 1 .. Len(text) PROVE buffer'[FirstText(said) + j - 1] = text[j]
    <2>1. PICK a : a = FirstText(said) + j - 1 OBVIOUS
    <2>2. a \in D /\ a \notin FourBytes(4 * N) /\ a \notin 0 .. 0 + 4 * N - 1
      BY <1>1, <2>1 DEF D, FourBytes
    <2>3. start[a] = text[j] BY <1>5, <2>1, <2>2 DEF Copied
    <2>. QED BY <1>16, <1>17, <1>20, <2>1, <2>2, <2>3
  <1>23. 4 * N = 4 * Len(said) /\ D = 0 .. FirstText(said) + Len(Concat(said)) - 1
    <2>1. D = 0 .. size - 1 BY DEF D
    <2>2. size = FirstText(said) + Len(Concat(said)) BY DEF text
    <2>. QED BY ONLY <2>1, <2>2
  <1>. QED BY ONLY <1>20, <1>21, <1>22, <1>23 DEF BufferIs, text

-----------------------------------------------------------------------------
(* The arguments on the stack.                                              *)

Pushed(m, sp, strings) ==
    /\ sp \in Nat /\ sp >= Low /\ sp % 16 = 0
    /\ sp + 8 + FirstText(strings) + Len(Concat(strings)) <= Stack
    /\ WordAt(m, sp, Len(strings))
    /\ WordAt(m, sp + 4, sp + 8)
    /\ \A i \in 1 .. Len(strings) :
           WordAt(m, sp + 8 + 4 * (i - 1), Places(strings)[i] + sp + 8)
    /\ WordAt(m, sp + 8 + 4 * Len(strings), 0)
    /\ \A j \in 1 .. Len(Concat(strings)) :
           m[sp + 8 + FirstText(strings) + j - 1] = Concat(strings)[j]

\* The place of the arguments: there is room behind it, and the ABI allows what is 8 below.
LEMMA AlignedIs ==
    ASSUME NEW size \in Nat, Aligned(size) >= 8
    PROVE  /\ Aligned(size) \in Nat
           /\ (Aligned(size) - 8) % 16 = 0
           /\ Aligned(size) + size <= Stack
  <1>1. Stack \in Nat BY Bounds
  <1>2. PICK x \in Int : x = Stack - size - 8 BY <1>1
  <1>3. PICK q \in Int : q = x \div 16 BY <1>2
  <1>4. Aligned(size) = 16 * q + 8 BY <1>2, <1>3 DEF Aligned
  <1>5. 16 * q <= x BY <1>3
  <1>6. (16 * q) % 16 = 0 OBVIOUS
  <1>7. (16 * q + 8) - 8 = 16 * q OBVIOUS
  <1>8. 16 * q + 8 + size <= Stack BY <1>1, <1>2, <1>5
  <1>. QED BY <1>4, <1>6, <1>7, <1>8

LEMMA BufferSize ==
    ASSUME NEW b, NEW strings \in Seq(Seq(Nat)), BufferIs(b, strings)
    PROVE  /\ Cardinality(DOMAIN b) = FirstText(strings) + Len(Concat(strings))
           /\ FirstText(strings) = 4 * Len(strings) + 4
           /\ Len(strings) \in Nat /\ FirstText(strings) \in Nat /\ Len(Concat(strings)) \in Nat
  <1>1. Len(strings) \in Nat OBVIOUS
  <1>2. Len(Concat(strings)) \in Nat
    <2>1. Concat(strings) \in Seq(Nat) BY ConcatType
    <2>. QED BY <2>1
  <1>3. FirstText(strings) = 4 * Len(strings) + 4 /\ FirstText(strings) \in Nat BY <1>1 DEF FirstText
  <1>4. PICK s \in Nat : s = FirstText(strings) + Len(Concat(strings)) BY <1>2, <1>3
  <1>5. DOMAIN b = 0 .. s - 1
    <2>1. FirstText(strings) + Len(Concat(strings)) - 1 = s - 1 BY <1>2, <1>3, <1>4
    <2>2. b \in [0 .. FirstText(strings) + Len(Concat(strings)) - 1 -> Nat] BY DEF BufferIs
    <2>. QED BY ONLY <2>1, <2>2
  <1>6. s >= 4 BY <1>1, <1>2, <1>3, <1>4
  <1>7. Cardinality(0 .. s - 1) = s
    <2>1. 0 \in Int /\ s - 1 \in Int /\ ~(0 > s - 1) BY <1>6
    <2>2. Cardinality(0 .. s - 1) = s - 1 - 0 + 1 BY ONLY <2>1, FS_Interval
    <2>. QED BY <2>2
  <1>. QED BY <1>1, <1>2, <1>3, <1>4, <1>5, <1>7

LEMMA ArgsPushed ==
    ASSUME memory \in [User -> Nat], said \in Seq(Seq(Nat)), Len(argv) = Len(said),
           BufferIs(buffer, said), Aligned(Cardinality(DOMAIN buffer)) - 8 >= Low, Push
    PROVE  /\ memory' \in [User -> Nat]
           /\ Pushed(memory', esp', said)
           /\ \A a \in User : a < esp' => memory'[a] = memory[a]
  <1>. DEFINE size == Cardinality(DOMAIN buffer)
              top == Aligned(size)
              N == Len(argv)
              bytes == [k \in 1 .. size |-> buffer[k - 1]]
              copied == memcpy(memory, top, bytes)
              G(h, k) == IF k = 0 THEN copied
                         ELSE LET a == top + 4 * (k - 1)
                              IN  memcpy(h[k - 1], a, Bytes(Word(h[k - 1], a) + top))
              W == CHOOSE h : h = [k \in 0 .. N |-> G(h, k)]
              v == [k \in 1 .. N |-> [x \in [User -> Nat] |-> Word(x, top + 4 * (k - 1)) + top]]
              text == Concat(said)
              first == FirstText(said)
  <1>1. /\ size = first + Len(text) /\ first = 4 * N + 4
        /\ N \in Nat /\ first \in Nat /\ Len(text) \in Nat /\ size \in Nat
    BY BufferSize
  <1>2. memory' = memcpy(memcpy(W[N], top - 8, Bytes(N)), top - 4, Bytes(top)) /\ esp' = top - 8
    BY Zenon DEF Push
  <1>3. buffer \in [0 .. size - 1 -> Nat]
    <2>1. first + Len(text) - 1 = size - 1 BY <1>1
    <2>. QED BY <2>1 DEF BufferIs
  <1>4. /\ Low \in Nat /\ Stack \in Nat /\ User \subseteq Int
        /\ \A a : a \in User <=> a \in Int /\ Low <= a /\ a < Stack
    BY Bounds DEF User
  <1>. HIDE DEF size, text, first, N
  <1>5. top \in Nat /\ (top - 8) % 16 = 0 /\ top + size <= Stack /\ top - 8 >= Low
    <2>1. top - 8 >= Low BY DEF size
    <2>2. Aligned(size) \in Int BY <1>1, <1>4 DEF Aligned
    <2>3. Aligned(size) >= 8 BY <1>4, <2>1, <2>2
    <2>. QED BY <1>1, <2>1, <2>3, AlignedIs
  <1>. HIDE DEF top
  <1>21. ASSUME NEW i \in -8 .. size - 1 PROVE top + i \in User /\ top + i \in Int
    <2>1. PICK t \in Nat : t = top BY <1>5
    <2>2. i \in Int /\ -8 <= i /\ i <= size - 1 BY <1>1
    <2>3. t + i \in Int /\ Low <= t + i /\ t + i < Stack BY <1>1, <1>4, <1>5, <2>1, <2>2
    <2>. QED BY <1>4, <2>1, <2>3
  <1>6. bytes \in Seq(Nat) /\ Len(bytes) = size /\ \A k \in 1 .. size : bytes[k] = buffer[k - 1]
    <2>1. \A k \in 1 .. size : buffer[k - 1] \in Nat BY <1>1, <1>3
    <2>. QED BY <1>1, <2>1
  <1>. HIDE DEF bytes
  <1>7. Copied(copied, User, memory, top, bytes)
    <2>1. top \in Int BY <1>5
    <2>. QED BY <1>4, <1>6, <2>1, MemcpyIs
  <1>. HIDE DEF copied
  <1>8. /\ copied \in [User -> Nat]
        /\ \A a \in User : a \notin top .. top + size - 1 => copied[a] = memory[a]
        /\ \A k \in 0 .. size - 1 : copied[top + k] = buffer[k]
    <2>1. ASSUME NEW k \in 0 .. size - 1 PROVE copied[top + k] = buffer[k]
      <3>1. PICK j \in 1 .. size : j = k + 1 BY <1>1
      <3>2. k \in -8 .. size - 1 BY <1>1
      <3>3. top + k \in User BY <1>21, <3>2
      <3>4. j - 1 = k /\ top + j - 1 = top + k BY <1>5, <3>1
      <3>. QED BY <1>6, <1>7, <3>3, <3>4 DEF Copied
    <2>. QED BY <1>6, <1>7, <2>1 DEF Copied
  <1>9. v \in [1 .. N -> [[User -> Nat] -> Nat]]
    <2>1. ASSUME NEW k \in 1 .. N, NEW x \in [User -> Nat]
          PROVE  Word(x, top + 4 * (k - 1)) + top \in Nat
      <3>1. PICK a \in Int : a = top + 4 * (k - 1) BY <1>5
      <3>2. a \in User /\ a + 1 \in User /\ a + 2 \in User /\ a + 3 \in User
        <4>1. PICK i \in Int : i = 4 * (k - 1) OBVIOUS
        <4>2. {i, i + 1, i + 2, i + 3} \subseteq -8 .. size - 1 BY <1>1, <4>1
        <4>3. top + i \in User /\ top + (i + 1) \in User /\ top + (i + 2) \in User
              /\ top + (i + 3) \in User
          BY <1>21, <4>2
        <4>4. a = top + i /\ a + 1 = top + (i + 1) /\ a + 2 = top + (i + 2) /\ a + 3 = top + (i + 3)
          BY <1>5, <3>1, <4>1
        <4>. QED BY <4>3, <4>4
      <3>3. PICK b1 \in Nat, b2 \in Nat, b3 \in Nat, b4 \in Nat :
                b1 = x[a] /\ b2 = x[a + 1] /\ b3 = x[a + 2] /\ b4 = x[a + 3]
        BY <3>2
      <3>4. Word(x, a) \in Nat
        <4>1. Word(x, a) = b1 + 256 * (b2 + b3 + b4) BY <3>3 DEF Word
        <4>. QED BY <4>1
      <3>. QED BY <1>5, <3>1, <3>4
    <2>. QED BY <2>1
  <1>10. \A k \in 1 .. N : \A x \in [User -> Nat] : v[k][x] = Word(x, top + 4 * (k - 1)) + top
    OBVIOUS
  <1>. HIDE DEF v
  <1>11. top \in Int /\ User \subseteq Int /\ N \in Nat BY <1>1, <1>4, <1>5
  <1>12. PICK f \in [0 .. N -> [User -> Nat]] : Stores(f, copied, top, v, N)
    BY ONLY <1>8, <1>9, <1>11, LoopExists
  <1>13. f = [k \in 0 .. N |-> G(f, k)]
    <2>1. ASSUME NEW k \in 0 .. N PROVE f[k] = G(f, k)
      <3>1. CASE k = 0 BY <1>12, <3>1 DEF Stores
      <3>2. CASE k # 0
        <4>1. k \in 1 .. N /\ k - 1 \in 0 .. N BY <1>1, <3>2
        <4>2. f[k] = memcpy(f[k - 1], top + 4 * (k - 1), Bytes(v[k][f[k - 1]]))
          BY <1>12, <4>1 DEF Stores
        <4>3. f[k - 1] \in [User -> Nat] BY <4>1
        <4>. QED BY <1>10, <3>2, <4>1, <4>2, <4>3
      <3>. QED BY <3>1, <3>2
    <2>2. f = [k \in 0 .. N |-> f[k]] OBVIOUS
    <2>. QED BY ONLY <2>1, <2>2
  <1>14. W = [k \in 0 .. N |-> G(W, k)]
    <2>. HIDE DEF G
    <2>. QED BY ONLY <1>13
  <1>15. PICK h : h = W OBVIOUS
  <1>16. Stores(h, copied, top, v, N) /\ \A k \in 0 .. N : h[k] \in [User -> Nat]
    <2>. HIDE DEF G, W
    <2>0. \A k \in 0 .. N : h[k] = G(h, k) BY ONLY <1>14, <1>15
    <2>1. h[0] = copied
      <3>1. 0 \in 0 .. N BY <1>1
      <3>. QED BY <2>0, <3>1 DEF G
    <2>2. ASSUME NEW k \in 1 .. N, h[k - 1] \in [User -> Nat]
          PROVE  h[k] = memcpy(h[k - 1], top + 4 * (k - 1), Bytes(v[k][h[k - 1]]))
      <3>1. k \in 0 .. N /\ k # 0 BY <1>1
      <3>2. h[k] = memcpy(h[k - 1], top + 4 * (k - 1),
                          Bytes(Word(h[k - 1], top + 4 * (k - 1)) + top))
        BY <2>0, <3>1 DEF G
      <3>. QED BY <1>10, <2>2, <3>2
    <2>3. Builds(h, User, copied, top, v, N) BY <2>1, <2>2 DEF Builds
    <2>. QED BY ONLY <1>8, <1>9, <1>11, <2>3, LoopBuilt
  <1>17. top .. top + 4 * N - 1 \subseteq User
    <2>1. ASSUME NEW a \in top .. top + 4 * N - 1 PROVE a \in User
      <3>1. PICK i \in Int : i = a - top BY <1>5
      <3>2. i \in -8 .. size - 1 /\ top + i = a BY <1>1, <1>5, <3>1
      <3>. QED BY <1>21, <3>2
    <2>. QED BY <2>1
  <1>18. /\ \A k \in 0 .. N : h[k] \in [User -> Nat]
         /\ \A k \in 0 .. N : \A a \in User :
                a \notin top .. top + 4 * k - 1 => h[k][a] = copied[a]
         /\ \A k \in 0 .. N : \A j \in 1 .. k : WordAt(h[k], top + 4 * (j - 1), v[j][h[j - 1]])
    BY ONLY <1>8, <1>9, <1>11, <1>16, <1>17, WordsStored
  <1>19. PICK g \in [User -> Nat] : g = h[N] BY <1>11, <1>16
  <1>20. \A a \in User : a \notin top .. top + 4 * N - 1 => g[a] = copied[a]
    <2>1. N \in 0 .. N BY <1>11
    <2>. QED BY <1>18, <1>19, <2>1
  <1>22. ASSUME NEW i \in 1 .. N PROVE WordAt(g, top + 4 * (i - 1), Places(said)[i] + top)
    <2>1. PICK o \in Nat : o = 4 * (i - 1) OBVIOUS
    <2>2. {o, o + 1, o + 2, o + 3} \subseteq 0 .. size - 1 BY <1>1, <2>1
    <2>3. ASSUME NEW k \in {o, o + 1, o + 2, o + 3} PROVE h[i - 1][top + k] = buffer[k]
      <3>1. k \in 0 .. size - 1 /\ k \in -8 .. size - 1 /\ k >= o BY <2>2
      <3>2. top + k \in User BY <1>21, <3>1
      <3>3. i - 1 \in 0 .. N BY <1>11
      <3>4. top + k \notin top .. top + 4 * (i - 1) - 1 BY <1>5, <2>1, <3>1
      <3>5. h[i - 1][top + k] = copied[top + k] BY <1>18, <3>2, <3>3, <3>4
      <3>. QED BY <1>8, <3>1, <3>5
    <2>4. WordAt(buffer, o, Places(said)[i]) BY <2>1 DEF BufferIs, N
    <2>5. Places(said)[i] \in Nat
      <3>1. FirstText(said) \in Nat BY <1>1 DEF first
      <3>2. i \in 1 .. Len(said) BY DEF N
      <3>. QED BY <3>1, <3>2, Layout DEF Places
    <2>6. PICK a \in Int : a = top + o BY <1>5
    <2>7. a = top + o /\ a + 1 = top + (o + 1) /\ a + 2 = top + (o + 2) /\ a + 3 = top + (o + 3)
      BY <1>5, <2>6
    <2>8. WordAt(h[i - 1], a, Places(said)[i]) BY <2>3, <2>4, <2>7 DEF WordAt
    <2>9. Word(h[i - 1], a) = Places(said)[i] BY <2>5, <2>8, WordIs
    <2>10. v[i][h[i - 1]] = Word(h[i - 1], top + 4 * (i - 1)) + top
      <3>1. i - 1 \in 0 .. N BY <1>11
      <3>. QED BY <1>10, <1>16, <3>1
    <2>11. top + 4 * (i - 1) = a BY <2>1, <2>6
    <2>12. WordAt(g, top + 4 * (i - 1), v[i][h[i - 1]])
      <3>1. N \in 0 .. N BY <1>11
      <3>. QED BY <1>18, <1>19, <3>1
    <2>. QED BY <2>9, <2>10, <2>11, <2>12
  <1>. DEFINE argcIn == memcpy(g, top - 8, Bytes(N))
  <1>23. FourBytes(top - 8) \subseteq User /\ FourBytes(top - 4) \subseteq User
    <2>1. ASSUME NEW a \in FourBytes(top - 8) \cup FourBytes(top - 4) PROVE a \in User
      <3>1. PICK i \in Int : i = a - top BY <1>5 DEF FourBytes
      <3>2. i \in -8 .. size - 1 /\ top + i = a BY <1>1, <1>5, <3>1 DEF FourBytes
      <3>. QED BY <1>21, <3>2
    <2>. QED BY <2>1
  <1>24. PICK lo \in Int, hi \in Int : lo = top - 8 /\ hi = top - 4 BY <1>11
  <1>25. /\ argcIn \in [User -> Nat]
         /\ \A a \in User : a \notin FourBytes(lo) => argcIn[a] = g[a]
         /\ WordAt(argcIn, lo, N)
    <2>1. FourBytes(lo) \subseteq User BY <1>23, <1>24
    <2>2. /\ memcpy(g, lo, Bytes(N)) \in [User -> Nat]
          /\ \A a \in User : a \notin FourBytes(lo) => memcpy(g, lo, Bytes(N))[a] = g[a]
          /\ WordAt(memcpy(g, lo, Bytes(N)), lo, N)
      BY ONLY <1>11, <2>1, g \in [User -> Nat], lo \in Int, WordCopied
    <2>. QED BY <1>24, <2>2
  <1>26. memory' = memcpy(argcIn, hi, Bytes(top)) BY <1>2, <1>15, <1>19, <1>24
  <1>. HIDE DEF argcIn
  <1>27. /\ memory' \in [User -> Nat]
         /\ \A a \in User : a \notin FourBytes(hi) => memory'[a] = argcIn[a]
         /\ WordAt(memory', hi, top)
    <2>1. FourBytes(hi) \subseteq User BY <1>23, <1>24
    <2>2. PICK m \in [User -> Nat] : m = argcIn BY <1>25
    <2>3. /\ memcpy(m, hi, Bytes(top)) \in [User -> Nat]
          /\ \A a \in User : a \notin FourBytes(hi) => memcpy(m, hi, Bytes(top))[a] = m[a]
          /\ WordAt(memcpy(m, hi, Bytes(top)), hi, top)
      BY ONLY <1>5, <1>11, <2>1, m \in [User -> Nat], hi \in Int, WordCopied
    <2>. QED BY ONLY <1>26, <2>2, <2>3
  \* What is at the buffer's place, and what is below.
  <1>28. ASSUME NEW a \in User, a >= top PROVE memory'[a] = g[a]
    <2>1. a \notin FourBytes(lo) /\ a \notin FourBytes(hi)
      BY <1>4, <1>11, <1>24, <1>28 DEF FourBytes
    <2>. QED BY <1>25, <1>27, <2>1
  <1>29. ASSUME NEW a \in User, a < top - 8 PROVE memory'[a] = memory[a]
    <2>1. a \notin FourBytes(lo) /\ a \notin FourBytes(hi)
      BY <1>4, <1>11, <1>24, <1>29 DEF FourBytes
    <2>2. a \notin top .. top + 4 * N - 1 /\ a \notin top .. top + size - 1
      BY <1>4, <1>11, <1>29
    <2>. QED BY <1>8, <1>20, <1>25, <1>27, <2>1, <2>2
  <1>30. WordAt(memory', lo, N)
    <2>1. ASSUME NEW a \in FourBytes(lo) PROVE memory'[a] = argcIn[a]
      <3>1. a \in User BY <1>23, <1>24
      <3>2. a \notin FourBytes(hi) BY <1>11, <1>24 DEF FourBytes
      <3>. QED BY <1>27, <3>1, <3>2
    <2>. QED BY <1>25, <2>1 DEF WordAt, FourBytes
  <1>31. ASSUME NEW i \in 1 .. N PROVE WordAt(memory', top + 4 * (i - 1), Places(said)[i] + top)
    <2>1. ASSUME NEW a \in FourBytes(top + 4 * (i - 1)) PROVE memory'[a] = g[a]
      <3>1. a \in top .. top + 4 * N - 1 BY <1>11 DEF FourBytes
      <3>2. a \in User /\ a >= top BY <1>11, <1>17, <3>1
      <3>. QED BY <1>28, <3>2
    <2>. QED BY <1>22, <2>1 DEF WordAt, FourBytes
  <1>32. ASSUME NEW k \in 4 * N .. size - 1 PROVE memory'[top + k] = buffer[k]
    <2>1. k \in -8 .. size - 1 /\ k \in 0 .. size - 1 /\ k \in Int BY <1>1
    <2>2. top + k \in User BY <1>21, <2>1
    <2>3. top + k >= top /\ top + k \notin top .. top + 4 * N - 1 BY <1>1, <1>11
    <2>. QED BY <1>8, <1>20, <1>28, <2>1, <2>2, <2>3
  <1>33. WordAt(memory', top + 4 * N, 0)
    <2>1. WordAt(buffer, 4 * N, 0) BY DEF BufferIs, N
    <2>2. PICK o \in Int : o = 4 * N BY <1>11
    <2>3. {o, o + 1, o + 2, o + 3} \subseteq 4 * N .. size - 1 BY <1>1, <2>2
    <2>4. PICK a \in Int : a = top + o BY <1>11
    <2>5. a = top + o /\ a + 1 = top + (o + 1) /\ a + 2 = top + (o + 2) /\ a + 3 = top + (o + 3)
      BY <1>11, <2>4
    <2>6. WordAt(buffer, o, 0) BY <2>1, <2>2
    <2>7. WordAt(memory', a, 0) BY <1>32, <2>3, <2>5, <2>6 DEF WordAt
    <2>. QED BY <2>2, <2>4, <2>7
  <1>34. ASSUME NEW j \in 1 .. Len(text) PROVE memory'[top + first + j - 1] = text[j]
    <2>1. PICK k \in Int : k = first + j - 1 BY <1>1
    <2>2. k \in 4 * N .. size - 1 /\ top + first + j - 1 = top + k BY <1>1, <1>11, <2>1
    <2>3. buffer[k] = text[j] BY <2>1 DEF BufferIs, text, first
    <2>. QED BY <1>32, <2>2, <2>3
  <1>35. esp' = lo /\ lo + 4 = hi /\ lo + 8 = top /\ lo \in Nat /\ lo >= Low /\ lo % 16 = 0
    BY <1>2, <1>4, <1>5, <1>11, <1>24
  <1>36. lo + 8 + first + Len(text) <= Stack
    <2>1. PICK z \in Nat : z = Len(text) BY <1>1
    <2>2. size = first + z /\ first \in Nat /\ top \in Nat /\ top + size <= Stack /\ lo + 8 = top
          /\ Stack \in Nat /\ lo \in Int
      BY <1>1, <1>4, <1>5, <1>35, <2>1
    <2>3. lo + 8 + first + z <= Stack BY ONLY <2>2, z \in Nat
    <2>. QED BY <2>1, <2>3
  <1>37. ASSUME NEW i \in 1 .. N
         PROVE  WordAt(memory', lo + 8 + 4 * (i - 1), Places(said)[i] + lo + 8)
    <2>1. lo + 8 + 4 * (i - 1) = top + 4 * (i - 1) BY <1>35
    <2>2. Places(said)[i] + lo + 8 = Places(said)[i] + top
      <3>1. FirstText(said) \in Nat BY <1>1 DEF first
      <3>2. i \in 1 .. Len(said) BY DEF N
      <3>3. Places(said)[i] \in Nat BY <3>1, <3>2, Layout DEF Places
      <3>. QED BY <1>11, <1>24, <3>3
    <2>. QED BY <1>31, <2>1, <2>2
  <1>38. Pushed(memory', esp', said)
    <2>1. N = Len(said) BY DEF N
    <2>. QED BY <1>27, <1>30, <1>33, <1>34, <1>35, <1>36, <1>37, <2>1 DEF Pushed, first, text
  <1>. QED BY <1>2, <1>27, <1>29, <1>38

-----------------------------------------------------------------------------
(* exec.                                                                    *)

\* The first n segments are in memory below top, and nothing else is.
HasData(m, k, a) == a - m.phents[k].vaddr + 1 \in DOMAIN m.phents[k].data
InPlace(n, top) ==
    /\ \A k \in Segments(image) : k <= n =>
           \A i \in DOMAIN image.phents[k].data :
               memory[image.phents[k].vaddr + i - 1] = image.phents[k].data[i]
    /\ \A a \in User : a < top /\ (\A k \in Segments(image) : k <= n => ~HasData(image, k, a))
                       => memory[a] = 0

\* There is room for the arguments above the program.
Room ==
    LET top == Aligned(Cardinality(DOMAIN buffer)) - 8
    IN  /\ top >= Low
        /\ \A k \in Segments(program) :
               program.phents[k].vaddr + program.phents[k].memsize <= top

\* The strings that were passed, where argv says.
Passed ==
    /\ said \in Seq(Seq(Chars)) /\ Len(argv) = Len(said)
    /\ said = [i \in DOMAIN argv |-> String(memory, argv[i])]

ExecTypes ==
    /\ memory \in [User -> Nat]
    /\ image \in Images /\ program \in Images
    /\ argv \in Seq(User)
    /\ stage \in {"user", "header", "reset", "load", "switch", "entered"}

ExecInv ==
    /\ ExecTypes
    /\ stage \in {"user", "header"} => \A a \in Strings : IsString(memory, a)
    /\ stage = "header" => Passed
    /\ stage \notin {"user", "header"} =>
           said \in Seq(Seq(Chars)) /\ Len(argv) = Len(said) /\ Accepts(program)
    /\ stage \in {"reset", "load"} => BufferIs(buffer, said)
    /\ stage = "load" =>
           image = program /\ loaded \in 0 .. Len(image.phents) /\ InPlace(loaded, Stack)
    /\ stage \in {"switch", "entered"} =>
           /\ image = program /\ InPlace(Len(image.phents), esp)
           /\ \A k \in Segments(image) : image.phents[k].vaddr + image.phents[k].memsize <= esp
           /\ Pushed(memory, esp, said)
    /\ stage = "entered" => eip = program.entry

LEMMA ImageType ==
    ASSUME NEW m \in Images
    PROVE  /\ DOMAIN m.phents = 1 .. Len(m.phents) /\ Len(m.phents) \in Nat
           /\ \A k \in Segments(m) :
                  LET ph == m.phents[k]
                  IN  /\ k \in 1 .. Len(m.phents)
                      /\ ph.vaddr \in Nat /\ ph.filesize \in Nat /\ ph.memsize \in Nat
                      /\ ph.vaddr >= Low /\ ph.vaddr + ph.memsize < Stack
                      /\ ph.data \in Seq(Nat) /\ Len(ph.data) \in Nat
                      /\ DOMAIN ph.data = 1 .. Len(ph.data)
                      /\ Len(ph.data) <= ph.filesize /\ ph.filesize <= ph.memsize
                      /\ \A i \in DOMAIN ph.data : ph.vaddr + i - 1 \in User
  <1>1. PICK S : m.phents \in Seq(S) BY ExecAssumption
  <1>2. DOMAIN m.phents = 1 .. Len(m.phents) /\ Len(m.phents) \in Nat BY <1>1
  <1>3. ASSUME NEW k \in Segments(m)
        PROVE  LET ph == m.phents[k]
               IN  /\ k \in 1 .. Len(m.phents)
                   /\ ph.vaddr \in Nat /\ ph.filesize \in Nat /\ ph.memsize \in Nat
                   /\ ph.vaddr >= Low /\ ph.vaddr + ph.memsize < Stack
                   /\ ph.data \in Seq(Nat) /\ Len(ph.data) \in Nat
                   /\ DOMAIN ph.data = 1 .. Len(ph.data)
                   /\ Len(ph.data) <= ph.filesize /\ ph.filesize <= ph.memsize
                   /\ \A i \in DOMAIN ph.data : ph.vaddr + i - 1 \in User
    <2>1. PICK ph : ph = m.phents[k] OBVIOUS
    <2>2. k \in DOMAIN m.phents BY DEF Segments
    <2>3. /\ ph.vaddr \in Nat /\ ph.filesize \in Nat /\ ph.memsize \in Nat
          /\ ph.vaddr >= Low /\ ph.vaddr + ph.memsize < Stack
          /\ ph.data \in Seq(Nat)
          /\ Len(ph.data) <= ph.filesize /\ ph.filesize <= ph.memsize
      BY <2>1, <2>2, ExecAssumption
    <2>4. Len(ph.data) \in Nat /\ DOMAIN ph.data = 1 .. Len(ph.data) BY <2>3
    <2>5. ASSUME NEW i \in 1 .. Len(ph.data) PROVE ph.vaddr + i - 1 \in User
      <3>1. PICK x \in Nat, y \in Nat, z \in Nat :
                x = ph.vaddr /\ y = ph.memsize /\ z = Len(ph.data) /\ z <= y
        BY <2>3, <2>4
      <3>3. x >= Low /\ x + y < Stack /\ i \in 1 .. z /\ Low \in Nat /\ Stack \in Nat /\ z <= y
        BY <2>3, <3>1, Bounds
      <3>2. x + i - 1 \in Low .. Stack - 1
        BY ONLY <3>3, x \in Nat, y \in Nat, z \in Nat
      <3>. QED BY <3>1, <3>2 DEF User
    <2>. QED BY <1>2, <2>1, <2>2, <2>3, <2>4, <2>5
  <1>. QED BY <1>2, <1>3

\* A literal is a string once its segment is in memory.
LEMMA LiteralIs ==
    ASSUME NEW m \in Images, NEW l \in m.literals
    PROVE  /\ l \in User
           /\ \E k \in Segments(m) : \E z \in DOMAIN m.phents[k].data :
                  /\ m.phents[k].data[z] = 0
                  /\ m.phents[k].vaddr + z - 1 - l \in 0 .. Stack - 1 - l
  <1>1. PICK k \in Segments(m) : \E z \in DOMAIN m.phents[k].data :
            l \in m.phents[k].vaddr .. m.phents[k].vaddr + z - 1 /\ m.phents[k].data[z] = 0
    BY ExecAssumption
  <1>2. PICK z \in DOMAIN m.phents[k].data :
            l \in m.phents[k].vaddr .. m.phents[k].vaddr + z - 1 /\ m.phents[k].data[z] = 0
    BY <1>1
  <1>3. PICK x \in Nat : x = m.phents[k].vaddr BY ImageType
  <1>4. z \in Nat /\ x + z - 1 \in User /\ x >= Low
    <2>1. DOMAIN m.phents[k].data = 1 .. Len(m.phents[k].data) BY ImageType
    <2>. QED BY <1>3, <2>1, ImageType
  <1>5. l \in x .. x + z - 1 BY <1>2, <1>3
  <1>6. l \in User /\ x + z - 1 - l \in 0 .. Stack - 1 - l
    BY <1>4, <1>5, Bounds DEF User
  <1>. QED BY <1>2, <1>3, <1>6

LEMMA CharsAreNumbers == ASSUME NEW t \in Seq(Seq(Chars)) PROVE t \in Seq(Seq(Nat))
  <1>1. ASSUME NEW s \in Seq(Chars) PROVE s \in Seq(Nat)
    <2>1. \A k \in 1 .. Len(s) : s[k] \in Nat BY DEF Chars
    <2>. QED BY <2>1
  <1>2. \A k \in 1 .. Len(t) : t[k] \in Seq(Nat) BY <1>1
  <1>. QED BY <1>2

\* The arguments main finds.
LEMMA ArgsFound ==
    ASSUME memory \in [User -> Nat], said \in Seq(Seq(Chars)), Pushed(memory, esp, said)
    PROVE  /\ Arguments
           /\ Argc \in Nat
           /\ \A i \in 1 .. Argc : Argv[i] \in User /\ IsString(memory, Argv[i])
  <1>. DEFINE N == Len(said)
              text == Concat(said)
              first == FirstText(said)
              top == esp + 8
  <1>1. said \in Seq(Seq(Nat)) BY CharsAreNumbers
  <1>2. /\ N \in Nat /\ first \in Nat /\ first = 4 * N + 4
        /\ text \in Seq(Nat) /\ Len(text) \in Nat
    <2>1. text \in Seq(Nat) BY <1>1, ConcatType
    <2>2. N \in Nat OBVIOUS
    <2>. QED BY <2>1, <2>2 DEF FirstText
  <1>3. /\ esp \in Nat /\ esp >= Low /\ esp % 16 = 0 /\ top + first + Len(text) <= Stack
        /\ WordAt(memory, esp, N) /\ WordAt(memory, esp + 4, top)
        /\ \A i \in 1 .. N : WordAt(memory, top + 4 * (i - 1), Places(said)[i] + esp + 8)
        /\ WordAt(memory, top + 4 * N, 0)
        /\ \A j \in 1 .. Len(text) : memory[top + first + j - 1] = text[j]
    BY DEF Pushed
  <1>4. top \in Nat BY <1>3
  <1>5. Argc = N BY <1>2, <1>3, WordIs DEF Argc
  <1>6. Word(memory, esp + 4) = top BY <1>3, <1>4, WordIs
  <1>7. Word(memory, Word(memory, esp + 4) + 4 * Argc) = 0
    BY <1>3, <1>5, <1>6, WordIs
  <1>8. ASSUME NEW i \in 1 .. N
        PROVE  Argv[i] \in User /\ IsString(memory, Argv[i]) /\ String(memory, Argv[i]) = said[i]
    <2>1. PICK p \in Nat : p = Places(said)[i] /\ p >= first /\ StringAt(text, p - first, said[i])
      BY <1>1, <1>2, Layout DEF Places
    <2>2. Argv[i] = p + top
      <3>1. Places(said)[i] + esp + 8 = p + top
        <4>1. PICK e \in Nat : e = esp BY <1>3
        <4>2. p + e + 8 = p + (e + 8) BY ONLY p \in Nat, e \in Nat
        <4>. QED BY <2>1, <4>1, <4>2
      <3>2. p + top \in Nat BY <1>4
      <3>3. Word(memory, top + 4 * (i - 1)) = p + top BY <1>3, <3>1, <3>2, WordIs
      <3>. QED BY <1>5, <1>6, <3>3 DEF Argv
    <2>3. said[i] \in Seq(Chars) OBVIOUS
    <2>4. PICK n \in Nat : n = Len(said[i]) BY <2>3
    <2>5. PICK q \in Nat : q = p - first BY <1>2, <2>1
    <2>6. q + n + 1 <= Len(text) /\ text[q + n + 1] = 0 /\ \A j \in 1 .. n : text[q + j] = said[i][j]
      BY <2>1, <2>4, <2>5 DEF StringAt
    <2>7. PICK a \in Nat : a = p + top BY <1>4
    <2>8. \A j \in 1 .. n + 1 : a + j - 1 = top + first + (q + j) - 1
      BY <1>2, <1>4, <2>5, <2>7
    <2>9. ASSUME NEW j \in 1 .. n + 1 PROVE memory[a + j - 1] = text[q + j]
      <3>1. q + j \in 1 .. Len(text)
        <4>1. PICK z \in Nat : z = Len(text) BY <1>2
        <4>2. q + n + 1 <= z BY <2>6, <4>1
        <4>3. q + j \in 1 .. z BY ONLY <4>2, q \in Nat, n \in Nat, z \in Nat, j \in 1 .. n + 1
        <4>. QED BY <4>1, <4>3
      <3>2. memory[top + first + (q + j) - 1] = text[q + j] BY <1>3, <3>1
      <3>. QED BY <2>8, <3>2
    <2>10. a + n < Stack /\ a \in User
      <3>1. PICK z \in Nat : z = Len(text) BY <1>2
      <3>2. PICK t \in Nat, f \in Nat : t = top /\ f = first BY <1>2, <1>4
      <3>3. a = t + f + q
        <4>1. a = p + t /\ q = p - f BY <2>5, <2>7, <3>2
        <4>. QED BY ONLY <4>1, p \in Nat, q \in Nat, t \in Nat, f \in Nat, a \in Nat
      <3>4. t + f + z <= Stack /\ Stack \in Nat /\ Low \in Nat /\ q + n + 1 <= z /\ Low <= t
        <4>1. Stack \in Nat /\ Low \in Nat BY Bounds
        <4>2. t + f + z <= Stack BY <1>3, <3>1, <3>2
        <4>3. q + n + 1 <= z BY <2>6, <3>1
        <4>4. PICK e \in Nat : e = esp /\ Low <= e /\ t = e + 8 BY <1>3, <3>2
        <4>5. Low <= t BY ONLY <4>1, <4>4
        <4>. QED BY <4>1, <4>2, <4>3, <4>5
      <3>5. a + n < Stack /\ a \in Low .. Stack - 1
        BY ONLY <3>3, <3>4, t \in Nat, f \in Nat, z \in Nat, q \in Nat, n \in Nat
      <3>. QED BY <3>5 DEF User
    <2>11. Holds(memory, a, said[i])
      <3>1. ASSUME NEW j \in 1 .. n PROVE memory[a + j - 1] = said[i][j]
        <4>1. j \in 1 .. n + 1 OBVIOUS
        <4>. QED BY <2>6, <2>9, <4>1
      <3>2. memory[a + n] = 0
        <4>1. n + 1 \in 1 .. n + 1 /\ a + (n + 1) - 1 = a + n /\ q + (n + 1) = q + n + 1 OBVIOUS
        <4>. QED BY <2>6, <2>9, <4>1
      <3>. QED BY <2>4, <3>1, <3>2 DEF Holds
    <2>12. IsString(memory, a) /\ String(memory, a) = said[i]
      BY <2>3, <2>4, <2>10, <2>11, HeldString
    <2>. QED BY <2>2, <2>7, <2>10, <2>12
  <1>. QED BY <1>2, <1>3, <1>5, <1>7, <1>8 DEF Arguments

LEMMA ExecOK ==
    ASSUME ExecInv, NEW m \in Images, NEW n \in Nat, NEW args \in [1 .. n -> Strings], Exec(m, args)
    PROVE  ExecInv'
  <1>1. /\ stage = "user" /\ stage' = "header" /\ program' = m /\ argv' = args
        /\ said' = [i \in DOMAIN args |-> String(memory, args[i])]
        /\ memory' = memory /\ image' = image
    BY DEF Exec
  <1>2. ASSUME NEW a \in Strings PROVE IsString(memory, a) /\ a \in User
    BY <1>1 DEF ExecInv, IsString
  <1>3. args \in Seq(User) /\ Len(args) = n /\ DOMAIN args = 1 .. n
    <2>1. \A i \in 1 .. n : args[i] \in User BY <1>2
    <2>. QED BY <2>1
  <1>4. said' \in Seq(Seq(Chars)) /\ Len(said') = n
    <2>1. ASSUME NEW i \in 1 .. n PROVE String(memory, args[i]) \in Seq(Chars)
      <3>1. IsString(memory, args[i]) BY <1>2
      <3>2. memory \in [User -> Nat] BY DEF ExecInv, ExecTypes
      <3>. QED BY <3>1, <3>2, StringIs
    <2>. QED BY <1>1, <1>3, <2>1
  <1>5. Passed' BY <1>1, <1>3, <1>4 DEF Passed
  <1>6. Strings' \subseteq Strings BY <1>1, <1>3 DEF Strings
  <1>7. ExecTypes' BY <1>1, <1>3 DEF ExecInv, ExecTypes
  <1>8. \A a \in Strings' : IsString(memory', a) BY <1>1, <1>2, <1>6
  <1>. QED BY <1>1, <1>5, <1>7, <1>8 DEF ExecInv

LEMMA RefuseOK == ASSUME ExecInv, Refuse PROVE ExecInv'
  <1>1. /\ stage = "header" /\ stage' = "user" /\ memory' = memory /\ image' = image
        /\ program' = program /\ argv' = argv
    BY DEF Refuse
  <1>2. Strings' = Strings BY <1>1 DEF Strings
  <1>. QED BY <1>1, <1>2 DEF ExecInv, ExecTypes, IsString

LEMMA CopyArgsOK == ASSUME ExecInv, CopyArgs PROVE ExecInv'
  <1>1. /\ stage = "header" /\ Accepts(program) /\ stage' = "reset" /\ memory' = memory
        /\ image' = image /\ program' = program /\ argv' = argv /\ said' = said
    BY Zenon DEF CopyArgs
  <1>2. Passed BY <1>1 DEF ExecInv
  <1>3. BufferIs(buffer', said) BY <1>2, CharsAreNumbers, ArgsCopied DEF Passed
  <1>4. Accepts(program)' BY <1>1 DEF Accepts
  <1>5. BufferIs(buffer, said)' BY <1>1, <1>3 DEF BufferIs, Places, FirstText
  <1>6. ExecTypes' BY <1>1 DEF ExecInv, ExecTypes
  <1>7. stage' = "reset" /\ said' \in Seq(Seq(Chars)) /\ Len(argv') = Len(said')
    BY <1>1, <1>2 DEF Passed
  <1>. QED BY <1>4, <1>5, <1>6, <1>7 DEF ExecInv

LEMMA ResetOK == ASSUME ExecInv, Reset PROVE ExecInv'
  <1>1. /\ stage = "reset" /\ stage' = "load" /\ memory' = Blank /\ image' = program
        /\ loaded' = 0 /\ program' = program /\ argv' = argv /\ said' = said /\ buffer' = buffer
    BY DEF Reset, Clear
  <1>2. /\ said \in Seq(Seq(Chars)) /\ Len(argv) = Len(said) /\ Accepts(program)
        /\ BufferIs(buffer, said)
    BY <1>1 DEF ExecInv
  <1>3. ExecTypes' BY <1>1 DEF ExecInv, ExecTypes, Blank
  <1>4. InPlace(loaded, Stack)'
    <2>1. ASSUME NEW k \in Segments(program) PROVE ~(k <= 0)
      BY ImageType DEF ExecInv, ExecTypes
    <2>. QED BY <1>1, <2>1 DEF InPlace, Blank
  <1>5. loaded' \in 0 .. Len(image'.phents)
    <2>1. Len(program.phents) \in Nat BY ImageType DEF ExecInv, ExecTypes
    <2>. QED BY <1>1, <2>1
  <1>6. Accepts(program)' BY <1>1, <1>2 DEF Accepts
  <1>7. BufferIs(buffer, said)' BY <1>1, <1>2 DEF BufferIs, Places, FirstText
  <1>. QED BY <1>1, <1>2, <1>3, <1>4, <1>5, <1>6, <1>7 DEF ExecInv

\* A segment is read over what is in memory, and is 0 to its end.
LEMMA SegmentRead ==
    ASSUME memory \in [User -> Nat], image \in Images, NEW k \in Segments(image)
    PROVE  LET ph == image.phents[k]
               m  == bzero(memcpy(memory, ph.vaddr, ph.data), ph.vaddr + ph.filesize,
                           ph.memsize - ph.filesize)
           IN  /\ m \in [User -> Nat]
               /\ \A i \in DOMAIN ph.data : m[ph.vaddr + i - 1] = ph.data[i]
               /\ \A a \in User : m[a] \in {memory[a], 0} \/ HasData(image, k, a)
               /\ \A a \in User :
                      a < ph.vaddr \/ a >= ph.vaddr + ph.memsize => m[a] = memory[a]
  <1>. DEFINE ph == image.phents[k]
              read == memcpy(memory, ph.vaddr, ph.data)
              m == bzero(read, ph.vaddr + ph.filesize, ph.memsize - ph.filesize)
  <1>1. PICK v \in Nat, f \in Nat, s \in Nat, d \in Seq(Nat) :
            v = ph.vaddr /\ f = ph.filesize /\ s = ph.memsize /\ d = ph.data
    BY ImageType
  <1>2. Len(d) \in Nat /\ DOMAIN d = 1 .. Len(d) /\ Len(d) <= f /\ f <= s BY <1>1, ImageType
  <1>3. User \subseteq Int BY UserRange
  <1>4. Copied(read, User, memory, v, d)
    <2>1. Copied(memcpy(memory, v, d), User, memory, v, d) BY <1>3, MemcpyIs
    <2>. QED BY <1>1, <2>1
  <1>. HIDE DEF read, ph
  <1>5. m = [a \in User |-> IF v + f <= a /\ a < v + f + (s - f) THEN 0 ELSE read[a]]
    BY <1>1, <1>4 DEF bzero, Copied
  <1>. HIDE DEF m
  <1>6. m \in [User -> Nat] BY <1>4, <1>5 DEF Copied
  <1>7. ASSUME NEW i \in 1 .. Len(d) PROVE m[v + i - 1] = d[i]
    <2>1. v + i - 1 \in User BY <1>1, <1>2, ImageType DEF ph
    <2>2. ~(v + f <= v + i - 1) BY <1>2
    <2>. QED BY <1>4, <1>5, <2>1, <2>2 DEF Copied
  <1>8. ASSUME NEW a \in User, a - v + 1 \notin 1 .. Len(d) PROVE m[a] \in {memory[a], 0}
    <2>1. a \notin v .. v + Len(d) - 1 BY <1>2, <1>3, <1>8
    <2>. QED BY <1>4, <1>5, <2>1 DEF Copied
  <1>9. ASSUME NEW a \in User, a < v \/ a >= v + s PROVE m[a] = memory[a]
    <2>1. PICK b \in Int : b = a BY <1>3
    <2>2. b \notin v .. v + Len(d) - 1 /\ ~(v + f <= b /\ b < v + f + (s - f))
      BY <1>2, <1>9, <2>1
    <2>. QED BY <1>4, <1>5, <2>1, <2>2 DEF Copied
  <1>. QED BY <1>1, <1>2, <1>6, <1>7, <1>8, <1>9 DEF m, read, ph, HasData

LEMMA LoadOK == ASSUME ExecInv, Load PROVE ExecInv'
  <1>. DEFINE n == loaded + 1
              ph == image.phents[n]
              read == memcpy(memory, ph.vaddr, ph.data)
  <1>1. /\ stage = "load" /\ loaded < Len(image.phents) /\ loaded' = n
        /\ memory' = IF ph.type # PT_LOAD THEN memory
                     ELSE bzero(read, ph.vaddr + ph.filesize, ph.memsize - ph.filesize)
        /\ stage' = stage /\ image' = image /\ program' = program /\ argv' = argv
        /\ said' = said /\ buffer' = buffer
    BY DEF Load
  <1>2. /\ said \in Seq(Seq(Chars)) /\ Len(argv) = Len(said) /\ Accepts(program)
        /\ BufferIs(buffer, said) /\ memory \in [User -> Nat] /\ image \in Images
        /\ image = program /\ loaded \in 0 .. Len(image.phents) /\ InPlace(loaded, Stack)
    BY <1>1 DEF ExecInv, ExecTypes
  <1>3. /\ DOMAIN image.phents = 1 .. Len(image.phents) /\ Len(image.phents) \in Nat
        /\ n \in 1 .. Len(image.phents) /\ n \in Nat /\ loaded \in Nat
    BY <1>1, <1>2, ImageType
  <1>4. Accepts(program)' BY <1>1, <1>2 DEF Accepts
  <1>5. BufferIs(buffer, said)' BY <1>1, <1>2 DEF BufferIs, Places, FirstText
  <1>6. \A k \in Segments(image) : k \in Nat /\ (k <= n <=> k <= loaded \/ k = n)
    BY <1>2, <1>3, ImageType
  <1>7. CASE ph.type # PT_LOAD
    <2>1. memory' = memory BY <1>1, <1>7
    <2>2. n \notin Segments(image) BY <1>7 DEF Segments
    <2>3. \A k \in Segments(image) : k <= n <=> k <= loaded BY <1>6, <2>2
    <2>4. InPlace(loaded, Stack)' BY <1>1, <1>2, <2>1, <2>3 DEF InPlace, HasData, Segments
    <2>5. ExecTypes' BY <1>1, <2>1 DEF ExecInv, ExecTypes
    <2>. QED BY <1>1, <1>2, <1>3, <1>4, <1>5, <2>4, <2>5 DEF ExecInv
  <1>8. CASE ph.type = PT_LOAD
    <2>1. n \in Segments(image) BY <1>3, <1>8 DEF Segments
    <2>2. memory' = bzero(read, ph.vaddr + ph.filesize, ph.memsize - ph.filesize)
      BY <1>1, <1>8
    <2>3. /\ memory' \in [User -> Nat]
          /\ \A i \in DOMAIN ph.data : memory'[ph.vaddr + i - 1] = ph.data[i]
          /\ \A a \in User : memory'[a] \in {memory[a], 0} \/ HasData(image, n, a)
          /\ \A a \in User :
                 a < ph.vaddr \/ a >= ph.vaddr + ph.memsize => memory'[a] = memory[a]
      BY <1>2, <2>1, <2>2, SegmentRead
    <2>4. ASSUME NEW k \in Segments(image), k <= n, NEW i \in DOMAIN image.phents[k].data
          PROVE  memory'[image.phents[k].vaddr + i - 1] = image.phents[k].data[i]
      <3>1. CASE k = n BY <2>3, <3>1
      <3>2. CASE k # n
        <4>1. k <= loaded BY <1>6, <2>4, <3>2
        <4>2. PICK v \in Nat, s \in Nat, d \in Seq(Nat) :
                  /\ v = image.phents[k].vaddr /\ s = image.phents[k].memsize
                  /\ d = image.phents[k].data /\ Len(d) <= s
          <5>1. /\ image.phents[k].data \in Seq(Nat) /\ Len(image.phents[k].data) \in Nat
                /\ image.phents[k].vaddr \in Nat /\ image.phents[k].memsize \in Nat
                /\ image.phents[k].filesize \in Nat
                /\ Len(image.phents[k].data) <= image.phents[k].filesize
                /\ image.phents[k].filesize <= image.phents[k].memsize
            BY <1>2, ImageType
          <5>2. PICK l \in Nat, f \in Nat, s \in Nat :
                    /\ l = Len(image.phents[k].data) /\ f = image.phents[k].filesize
                    /\ s = image.phents[k].memsize
            BY <5>1
          <5>3. l <= f /\ f <= s BY <5>1, <5>2
          <5>4. l <= s BY ONLY <5>3, l \in Nat, f \in Nat, s \in Nat
          <5>. QED BY <5>1, <5>2, <5>4
        <4>3. PICK w \in Nat, t \in Nat : w = ph.vaddr /\ t = ph.memsize BY <1>2, <2>1, ImageType
        <4>4. v + s <= w \/ w + t <= v BY <1>2, <2>1, <3>2, <4>2, <4>3, ExecAssumption
        <4>5. i \in 1 .. Len(d) /\ Len(d) \in Nat BY <4>2
        <4>6. v + i - 1 < w \/ v + i - 1 >= w + t
          <5>1. PICK l \in Nat : l = Len(d) BY <4>5
          <5>2. i \in 1 .. l /\ l <= s BY <4>2, <4>5, <5>1
          <5>. QED BY ONLY <4>4, <5>2, v \in Nat, s \in Nat, w \in Nat, t \in Nat, l \in Nat
        <4>7. v + i - 1 \in User BY <1>2, <4>2, ImageType
        <4>8. memory'[v + i - 1] = memory[v + i - 1] BY <2>3, <4>3, <4>6, <4>7
        <4>. QED BY <1>2, <4>1, <4>2, <4>8 DEF InPlace
      <3>. QED BY <3>1, <3>2
    <2>5. ASSUME NEW a \in User, a < Stack,
                 \A k \in Segments(image) : k <= n => ~HasData(image, k, a)
          PROVE  memory'[a] = 0
      <3>1. memory[a] = 0 BY <1>2, <1>6, <2>5 DEF InPlace
      <3>2. ~HasData(image, n, a) BY <1>6, <2>1, <2>5
      <3>. QED BY <2>3, <3>1, <3>2
    <2>6. InPlace(loaded, Stack)' BY <1>1, <2>4, <2>5 DEF InPlace, HasData, Segments
    <2>7. ExecTypes' BY <1>1, <2>3 DEF ExecInv, ExecTypes
    <2>. QED BY <1>1, <1>2, <1>3, <1>4, <1>5, <2>6, <2>7 DEF ExecInv
  <1>. QED BY <1>7, <1>8

\* Both kinds of what a program passes on are still strings once it has run.
LEMMA LiteralStays ==
    ASSUME NEW m \in Images, NEW l \in m.literals, NEW mem,
           \A k \in Segments(m) : \A z \in DOMAIN m.phents[k].data :
               mem[m.phents[k].vaddr + z - 1] = m.phents[k].data[z]
    PROVE  IsString(mem, l)
  <1>1. l \in User BY LiteralIs
  <1>8. PICK k \in Segments(m) : \E z \in DOMAIN m.phents[k].data :
            /\ m.phents[k].data[z] = 0
            /\ m.phents[k].vaddr + z - 1 - l \in 0 .. Stack - 1 - l
    BY LiteralIs
  <1>2. PICK z \in DOMAIN m.phents[k].data :
            /\ m.phents[k].data[z] = 0
            /\ m.phents[k].vaddr + z - 1 - l \in 0 .. Stack - 1 - l
    BY <1>8
  <1>3. PICK x \in Nat : x = m.phents[k].vaddr BY ImageType
  <1>4. z \in Nat
    <2>1. DOMAIN m.phents[k].data = 1 .. Len(m.phents[k].data) BY ImageType
    <2>. QED BY <2>1
  <1>5. l \in Nat BY <1>1, UserRange
  <1>6. l + (x + z - 1 - l) = x + z - 1 BY ONLY <1>4, <1>5, x \in Nat
  <1>7. mem[l + (x + z - 1 - l)] = 0 BY <1>2, <1>3, <1>6
  <1>. QED BY <1>1, <1>2, <1>3, <1>7 DEF IsString

LEMMA PushOK ==
    ASSUME ExecInv, Push, Room
    PROVE  ExecInv'
  <1>1. /\ stage = "load" /\ loaded = Len(image.phents) /\ stage' = "switch"
        /\ image' = image /\ program' = program /\ argv' = argv /\ said' = said
    BY Zenon DEF Push
  <1>2. /\ said \in Seq(Seq(Chars)) /\ Len(argv) = Len(said) /\ Accepts(program)
        /\ BufferIs(buffer, said) /\ memory \in [User -> Nat] /\ image \in Images
        /\ image = program /\ InPlace(Len(image.phents), Stack)
    BY <1>1 DEF ExecInv, ExecTypes
  <1>3. Aligned(Cardinality(DOMAIN buffer)) - 8 >= Low BY DEF Room
  <1>4. /\ memory' \in [User -> Nat]
        /\ Pushed(memory', esp', said)
        /\ \A a \in User : a < esp' => memory'[a] = memory[a]
    BY <1>2, <1>3, CharsAreNumbers, ArgsPushed
  <1>5. esp' = Aligned(Cardinality(DOMAIN buffer)) - 8 BY Zenon DEF Push
  <1>6. \A k \in Segments(image) : image.phents[k].vaddr + image.phents[k].memsize <= esp'
    BY <1>2, <1>5 DEF Room
  <1>7. esp' \in Nat /\ esp' <= Stack
    <2>1. PICK e \in Nat, f \in Nat, l \in Nat :
              e = esp' /\ f = FirstText(said) /\ l = Len(Concat(said)) /\ e + 8 + f + l <= Stack
      <3>1. said \in Seq(Seq(Nat)) BY <1>2, CharsAreNumbers
      <3>2. FirstText(said) \in Nat /\ Len(Concat(said)) \in Nat BY <1>2, <3>1, BufferSize
      <3>. QED BY <1>4, <3>2 DEF Pushed
    <2>2. Stack \in Nat BY Bounds
    <2>3. e <= Stack BY ONLY <2>1, <2>2
    <2>. QED BY <2>1, <2>3
  <1>8. ASSUME NEW k \in Segments(image), NEW i \in DOMAIN image.phents[k].data
        PROVE  memory'[image.phents[k].vaddr + i - 1] = image.phents[k].data[i]
    <2>1. PICK v \in Nat, s \in Nat, f \in Nat, l \in Nat :
              /\ v = image.phents[k].vaddr /\ s = image.phents[k].memsize
              /\ f = image.phents[k].filesize /\ l = Len(image.phents[k].data)
      BY <1>2, ImageType
    <2>2. l <= f /\ f <= s /\ i \in 1 .. l /\ k <= Len(image.phents) BY <1>2, <2>1, ImageType
    <2>3. v + i - 1 \in User BY <1>2, <2>1, ImageType
    <2>4. v + s <= esp' BY <1>6, <2>1
    <2>5. v + i - 1 < esp'
      <3>1. PICK e \in Nat : e = esp' BY <1>7
      <3>2. v + s <= e BY <2>4, <3>1
      <3>3. v + i - 1 < e
        BY ONLY <2>2, <3>2, v \in Nat, s \in Nat, f \in Nat, l \in Nat, e \in Nat
      <3>. QED BY <3>1, <3>3
    <2>6. memory[v + i - 1] = image.phents[k].data[i] BY <1>2, <2>1, <2>2 DEF InPlace
    <2>. QED BY <1>4, <2>1, <2>3, <2>5, <2>6
  <1>9. ASSUME NEW a \in User, a < esp',
               \A k \in Segments(image) : k <= Len(image.phents) => ~HasData(image, k, a)
        PROVE  memory'[a] = 0
    <2>1. a < Stack BY UserRange
    <2>. QED BY <1>2, <1>4, <1>9, <2>1 DEF InPlace
  <1>10. InPlace(Len(image.phents), esp)' BY <1>1, <1>8, <1>9 DEF InPlace, HasData, Segments
  <1>11. ExecTypes' BY <1>1, <1>4 DEF ExecInv, ExecTypes
  <1>12. Pushed(memory, esp, said)' BY <1>1, <1>4 DEF Pushed, Places, FirstText
  <1>13. (\A k \in Segments(image) : image.phents[k].vaddr + image.phents[k].memsize <= esp)'
    BY <1>1, <1>6 DEF Segments
  <1>14. Accepts(program)' BY <1>1, <1>2 DEF Accepts
  <1>. QED BY <1>1, <1>2, <1>10, <1>11, <1>12, <1>13, <1>14 DEF ExecInv

LEMMA SwitchOK == ASSUME ExecInv, SwitchToUser PROVE ExecInv'
  <1>1. /\ stage = "switch" /\ stage' = "entered" /\ eip' = image.entry /\ memory' = memory
        /\ image' = image /\ program' = program /\ argv' = argv /\ said' = said /\ esp' = esp
    BY DEF SwitchToUser
  <1>2. /\ said \in Seq(Seq(Chars)) /\ Len(argv) = Len(said) /\ Accepts(program)
        /\ image = program /\ InPlace(Len(image.phents), esp)
        /\ \A k \in Segments(image) : image.phents[k].vaddr + image.phents[k].memsize <= esp
        /\ Pushed(memory, esp, said)
    BY <1>1 DEF ExecInv
  <1>3. InPlace(Len(image.phents), esp)' BY <1>1, <1>2 DEF InPlace, HasData, Segments
  <1>4. Pushed(memory, esp, said)' BY <1>1, <1>2 DEF Pushed, Places, FirstText
  <1>5. ExecTypes' BY <1>1 DEF ExecInv, ExecTypes
  <1>6. Accepts(program)' BY <1>1, <1>2 DEF Accepts
  <1>. QED BY <1>1, <1>2, <1>3, <1>4, <1>5, <1>6 DEF ExecInv, Segments

LEMMA RunOK == ASSUME ExecInv, Run PROVE ExecInv'
  <1>. DEFINE kept == UNION {Argv[i] .. Argv[i] + strlen(memory, Argv[i]) : i \in 1 .. Argc}
  <1>1. /\ stage = "entered" /\ argv' = Argv /\ stage' = "user"
        /\ memory' = [a \in User |-> IF a \in kept \cup Text(image) THEN memory[a] ELSE 9]
        /\ image' = image /\ program' = program
    BY DEF Run
  <1>2. /\ said \in Seq(Seq(Chars)) /\ image \in Images /\ program \in Images
        /\ memory \in [User -> Nat]
        /\ InPlace(Len(image.phents), esp) /\ Pushed(memory, esp, said)
    BY <1>1 DEF ExecInv, ExecTypes
  <1>3. Argc \in Nat /\ \A i \in 1 .. Argc : Argv[i] \in User /\ IsString(memory, Argv[i])
    BY <1>2, ArgsFound
  <1>4. memory' \in [User -> Nat] BY <1>1, <1>2
  <1>5. argv' \in Seq(User) /\ DOMAIN argv' = 1 .. Argc
    <2>1. Argv = [i \in 1 .. Argc |-> Argv[i]] BY DEF Argv
    <2>. HIDE DEF Argv
    <2>. QED BY <1>1, <1>3, <2>1
  <1>6. ASSUME NEW i \in 1 .. Argc PROVE IsString(memory', Argv[i])
    <2>1. PICK a : a = Argv[i] OBVIOUS
    <2>2. PICK n : n = strlen(memory, a) OBVIOUS
    <2>3. a \in User /\ n \in 0 .. Stack - 1 - a /\ memory[a + n] = 0
      BY <1>2, <1>3, <2>1, <2>2, StringEnds
    <2>4. a \in Nat /\ Stack \in Nat /\ Low \in Nat /\ Low <= a
      BY <2>3, UserRange, Bounds DEF User
    <2>5. a + n \in User BY <2>3, <2>4 DEF User
    <2>6. a + n \in a .. a + n BY <2>3, <2>4
    <2>7. a + n \in kept BY <2>1, <2>2, <2>6
    <2>8. memory'[a + n] = 0 BY <1>1, <2>3, <2>5, <2>7
    <2>. QED BY <2>1, <2>3, <2>8 DEF IsString
  <1>. HIDE DEF kept
  <1>7. ASSUME NEW l \in image.literals PROVE IsString(memory', l)
    <2>1. ASSUME NEW k \in Segments(image), NEW z \in DOMAIN image.phents[k].data
          PROVE  memory'[image.phents[k].vaddr + z - 1] = image.phents[k].data[z]
      <3>1. PICK v \in Nat : v = image.phents[k].vaddr BY <1>2, ImageType
      <3>2. v + z - 1 \in User BY <1>2, <3>1, ImageType
      <3>3. PICK d \in Nat : d = Len(image.phents[k].data) /\ z \in 1 .. d
        BY <1>2, ImageType
      <3>4. v + z - 1 \in v .. v + d - 1 BY <3>1, <3>3
      <3>5. k \in DOMAIN image.phents BY DEF Segments
      <3>6. v + z - 1 \in Text(image) BY <3>1, <3>3, <3>4, <3>5 DEF Text
      <3>7. k <= Len(image.phents) BY <1>2, ImageType
      <3>8. memory[v + z - 1] = image.phents[k].data[z] BY <1>2, <3>1, <3>7 DEF InPlace
      <3>. QED BY <1>1, <3>1, <3>2, <3>6, <3>8
    <2>. QED BY <1>2, <2>1, LiteralStays
  <1>8. ASSUME NEW a \in Strings' PROVE IsString(memory', a)
    <2>1. CASE \E i \in 1 .. Argc : a = Argv[i] BY <1>6, <2>1
    <2>2. CASE a \in image.literals BY <1>7, <2>2
    <2>. QED BY <1>1, <1>5, <2>1, <2>2 DEF Strings
  <1>9. ExecTypes' BY <1>1, <1>2, <1>4, <1>5 DEF ExecTypes
  <1>. QED BY <1>1, <1>8, <1>9 DEF ExecInv

\* What kernelMain starts with: the arguments of the first program, in its memory.
LEMMA BootsOK ==
    ASSUME NEW args \in Seq(Seq(Chars)), Low + Len(Concat(args)) <= Stack,
           NEW m \in Images, Boots(m, args)
    PROVE  ExecInv
  <1>. DEFINE text == Concat(args)
  <1>1. /\ memory = memcpy(Blank, Low, text) /\ image = m /\ program = m
        /\ argv = Offsets(args, Low) /\ said = args /\ stage = "header"
    BY DEF Boots
  <1>2. args \in Seq(Seq(Nat)) BY CharsAreNumbers
  <1>3. Low \in Nat /\ Stack \in Nat /\ Low < Stack BY Bounds
  <1>4. PICK t \in Seq(Nat) : t = text BY <1>2, ConcatType
  <1>5. Len(t) \in Nat /\ Low + Len(t) <= Stack BY <1>4
  <1>6. Copied(memory, User, Blank, Low, t)
    <2>1. Blank \in [User -> Nat] /\ User \subseteq Int BY UserRange DEF Blank
    <2>3. Low \in Int BY <1>3
    <2>2. Copied(memcpy(Blank, Low, t), User, Blank, Low, t)
      BY ONLY <2>1, <2>3, t \in Seq(Nat), MemcpyIs
    <2>. QED BY <1>1, <1>4, <2>2
  <1>7. memory \in [User -> Nat] BY <1>6 DEF Copied
  <1>8. /\ DOMAIN argv = 1 .. Len(args) /\ Len(args) \in Nat
        /\ \A i \in 1 .. Len(args) :
               argv[i] \in Nat /\ argv[i] >= Low /\ StringAt(t, argv[i] - Low, args[i])
        /\ t # <<>> => t[Len(t)] = 0
    BY <1>1, <1>2, <1>3, <1>4, Layout
  <1>. HIDE DEF text
  <1>9. ASSUME NEW i \in 1 .. Len(args)
        PROVE  argv[i] \in User /\ IsString(memory, argv[i]) /\ String(memory, argv[i]) = args[i]
    <2>1. PICK p \in Nat : p = argv[i] /\ p >= Low /\ StringAt(t, p - Low, args[i]) BY <1>8
    <2>2. PICK q \in Nat : q = p - Low BY <1>3, <2>1
    <2>3. args[i] \in Seq(Chars) OBVIOUS
    <2>4. PICK n \in Nat : n = Len(args[i]) BY <2>3
    <2>5. PICK l \in Nat : l = Len(t) BY <1>5
    <2>6. q + n + 1 <= l /\ t[q + n + 1] = 0 /\ \A j \in 1 .. n : t[q + j] = args[i][j]
      BY <2>1, <2>2, <2>4, <2>5 DEF StringAt
    <2>11. p = Low + q BY <1>3, <2>1, <2>2
    <2>7. p + n \in Low .. Stack - 1 /\ p \in Low .. Stack - 1 /\ p + n < Stack
      <3>1. Low + l <= Stack BY <1>5, <2>5
      <3>3. q + n + 1 <= l BY <2>6
      <3>. QED BY ONLY <1>3, <2>11, <3>1, <3>3, p \in Nat, q \in Nat, n \in Nat, l \in Nat
    <2>8. ASSUME NEW j \in 1 .. n + 1 PROVE memory[p + j - 1] = t[q + j]
      <3>1. q + j \in 1 .. Len(t) BY <2>5, <2>6
      <3>2. Low + (q + j) - 1 = p + j - 1
        BY ONLY <1>3, <2>11, p \in Nat, q \in Nat, n \in Nat, j \in 1 .. n + 1
      <3>3. p + j - 1 \in User
        <4>1. p + j - 1 \in Low .. Stack - 1
          BY ONLY <1>3, <2>7, p \in Nat, n \in Nat, j \in 1 .. n + 1
        <4>. QED BY <4>1 DEF User
      <3>. QED BY <1>6, <3>1, <3>2, <3>3 DEF Copied
    <2>9. Holds(memory, p, args[i])
      <3>1. ASSUME NEW j \in 1 .. n PROVE memory[p + j - 1] = args[i][j]
        <4>1. j \in 1 .. n + 1 OBVIOUS
        <4>. QED BY <2>6, <2>8, <4>1
      <3>2. memory[p + n] = 0
        <4>1. n + 1 \in 1 .. n + 1 /\ p + (n + 1) - 1 = p + n /\ q + (n + 1) = q + n + 1 OBVIOUS
        <4>. QED BY <2>6, <2>8, <4>1
      <3>. QED BY <2>4, <3>1, <3>2 DEF Holds
    <2>10. p \in User BY <2>7 DEF User
    <2>. QED BY <1>7, <2>1, <2>3, <2>4, <2>7, <2>9, <2>10, HeldString
  <1>10. argv \in Seq(User) /\ Len(argv) = Len(args)
    <2>1. argv = [i \in 1 .. Len(args) |-> argv[i]]
      <3>1. Offsets(args, Low) = [i \in DOMAIN args |-> Offsets(args, Low)[i]] BY DEF Offsets
      <3>. QED BY <1>1, <3>1
    <2>. QED BY <1>8, <1>9, <2>1
  <1>11. Passed
    <2>1. args = [i \in 1 .. Len(args) |-> args[i]] OBVIOUS
    <2>2. args = [i \in DOMAIN argv |-> String(memory, argv[i])] BY <1>8, <1>9, <2>1
    <2>. QED BY <1>1, <1>10, <2>2 DEF Passed
  \* The last byte is 0.
  <1>12. memory[Stack - 1] = 0 /\ Stack - 1 \in User
    <2>1. Stack - 1 \in User BY <1>3 DEF User
    <2>2. PICK l \in Nat : l = Len(t) BY <1>5
    <2>3. CASE Low + l < Stack
      <3>1. Stack - 1 \notin Low .. Low + l - 1 BY <1>3, <2>3
      <3>2. memory[Stack - 1] = Blank[Stack - 1] BY <1>6, <2>1, <2>2, <3>1 DEF Copied
      <3>. QED BY <2>1, <3>2 DEF Blank
    <2>4. CASE Low + l = Stack
      <3>1. l \in 1 .. l /\ Low + l - 1 = Stack - 1 BY <1>3, <2>4
      <3>2. t # <<>> BY <2>2, <3>1
      <3>3. t[l] = 0 BY <1>8, <2>2, <3>2
      <3>. QED BY <1>6, <2>1, <2>2, <3>1, <3>3 DEF Copied
    <2>5. Low + l <= Stack BY <1>5, <2>2
    <2>6. Low + l < Stack \/ Low + l = Stack BY ONLY <1>3, <2>5, l \in Nat
    <2>. QED BY <2>1, <2>3, <2>4, <2>6
  <1>13. ASSUME NEW a \in User PROVE IsString(memory, a)
    <2>1. a \in Nat /\ a < Stack BY UserRange
    <2>2. Stack - 1 - a \in 0 .. Stack - 1 - a /\ a + (Stack - 1 - a) = Stack - 1
      BY <1>3, <2>1
    <2>. QED BY <1>12, <2>2 DEF IsString
  <1>14. Strings \subseteq User
    <2>1. \A l \in m.literals : l \in User BY LiteralIs
    <2>. QED BY <1>1, <1>8, <1>9, <2>1 DEF Strings
  <1>15. ExecTypes BY <1>1, <1>7, <1>10 DEF ExecTypes
  <1>. QED BY <1>1, <1>11, <1>13, <1>14, <1>15 DEF ExecInv

LEMMA ExecStep ==
    ASSUME ExecInv, [ExecNext]_execVars, stage = "load" => Room
    PROVE  ExecInv'
  <1>1. ASSUME NEW m \in Images, NEW n \in 0 .. MaxArgs, NEW args \in [1 .. n -> Strings],
               Exec(m, args)
        PROVE  ExecInv'
    <2>1. n \in Nat OBVIOUS
    <2>. QED BY <1>1, <2>1, ExecOK
  <1>2. CASE Refuse BY <1>2, RefuseOK
  <1>3. CASE CopyArgs BY <1>3, CopyArgsOK
  <1>4. CASE Reset BY <1>4, ResetOK
  <1>5. CASE Load BY <1>5, LoadOK
  <1>6. CASE Push
    <2>1. stage = "load" BY <1>6 DEF Push
    <2>. QED BY <1>6, <2>1, PushOK
  <1>7. CASE SwitchToUser BY <1>7, SwitchOK
  <1>8. CASE Run BY <1>8, RunOK
  <1>9. CASE UNCHANGED execVars
    <2>. USE <1>9 DEF execVars
    <2>1. Strings' = Strings BY DEF Strings
    <2>2. Passed' <=> Passed BY DEF Passed
    <2>3. ExecTypes' BY DEF ExecInv, ExecTypes
    <2>4. BufferIs(buffer, said)' <=> BufferIs(buffer, said) BY DEF BufferIs, Places, FirstText
    <2>5. InPlace(loaded, Stack)' <=> InPlace(loaded, Stack) BY DEF InPlace, HasData, Segments
    <2>6. InPlace(Len(image.phents), esp)' <=> InPlace(Len(image.phents), esp)
      BY DEF InPlace, HasData, Segments
    <2>7. Pushed(memory, esp, said)' <=> Pushed(memory, esp, said) BY DEF Pushed, Places, FirstText
    <2>8. Accepts(program)' <=> Accepts(program) BY DEF Accepts
    <2>. QED BY <2>1, <2>2, <2>3, <2>4, <2>5, <2>6, <2>7, <2>8 DEF ExecInv, Segments
  <1>. QED BY <1>1, <1>2, <1>3, <1>4, <1>5, <1>6, <1>7, <1>8, <1>9 DEF ExecNext

\* No address is in two segments.
LEMMA OneCovers ==
    ASSUME NEW m \in Images, NEW a \in User, NEW k \in DOMAIN m.phents, Covers(m.phents[k], a)
    PROVE  {j \in DOMAIN m.phents : Covers(m.phents[j], a)} = {k}
  <1>1. ASSUME NEW j \in DOMAIN m.phents, Covers(m.phents[j], a), j # k PROVE FALSE
    <2>1. j \in Segments(m) /\ k \in Segments(m) BY <1>1 DEF Covers, Segments
    <2>2. PICK v \in Nat, s \in Nat, w \in Nat, t \in Nat :
              /\ v = m.phents[j].vaddr /\ s = m.phents[j].memsize
              /\ w = m.phents[k].vaddr /\ t = m.phents[k].memsize
      BY <2>1, ImageType
    <2>3. v + s <= w \/ w + t <= v BY <1>1, <2>1, <2>2, ExecAssumption
    <2>4. v <= a /\ a < v + s /\ w <= a /\ a < w + t BY <1>1, <2>2 DEF Covers
    <2>5. a \in Nat BY UserRange
    <2>. QED BY ONLY <2>3, <2>4, <2>5, v \in Nat, s \in Nat, w \in Nat, t \in Nat
  <1>. QED BY <1>1

LEMMA ImageFound ==
    ASSUME image \in Images, memory \in [User -> Nat], esp \in Nat, esp <= Stack,
           InPlace(Len(image.phents), esp)
    PROVE  Image
  <1>. SUFFICES ASSUME NEW a \in Low .. esp - 1 PROVE memory[a] = Content(image, a)
    BY DEF Image
  <1>1. a \in User /\ a < esp /\ a \in Nat BY Bounds DEF User
  <1>2. ASSUME NEW k \in Segments(image), HasData(image, k, a)
        PROVE  k \in DOMAIN image.phents /\ Covers(image.phents[k], a)
    <2>1. PICK v \in Nat, s \in Nat, f \in Nat, l \in Nat :
              /\ v = image.phents[k].vaddr /\ s = image.phents[k].memsize
              /\ f = image.phents[k].filesize /\ l = Len(image.phents[k].data)
      BY ImageType
    <2>2. l <= f /\ f <= s /\ a - v + 1 \in 1 .. l BY <1>2, <2>1, ImageType DEF HasData
    <2>3. v <= a /\ a < v + s
      BY ONLY <1>1, <2>2, v \in Nat, s \in Nat, f \in Nat, l \in Nat
    <2>. QED BY <2>1, <2>3 DEF Covers, Segments
  <1>3. \A k \in Segments(image) : k <= Len(image.phents) BY ImageType
  <1>. DEFINE over == {k \in DOMAIN image.phents : Covers(image.phents[k], a)}
  <1>4. CASE over = {}
    <2>1. memory[a] = 0 BY <1>1, <1>2, <1>4 DEF InPlace
    <2>. QED BY <1>4, <2>1 DEF Content
  <1>5. CASE over # {}
    <2>1. PICK k \in DOMAIN image.phents : Covers(image.phents[k], a) BY <1>5
    <2>2. over = {k} BY <1>1, <2>1, OneCovers
    <2>3. k \in Segments(image) BY <2>1 DEF Covers, Segments
    <2>4. k \in Nat BY <2>3, ImageType
    <2>5. Max(over) = k BY <2>2, <2>4 DEF Max
    <2>6. Content(image, a) = IF HasData(image, k, a)
                              THEN image.phents[k].data[a - image.phents[k].vaddr + 1] ELSE 0
      BY <2>2, <2>5 DEF Content, HasData
    <2>7. CASE HasData(image, k, a)
      <3>1. PICK v \in Nat : v = image.phents[k].vaddr BY <2>3, ImageType
      <3>2. PICK i : i = a - v + 1 OBVIOUS
      <3>3. v + i - 1 = a BY <1>1, <3>2
      <3>4. i \in DOMAIN image.phents[k].data BY <2>7, <3>1, <3>2 DEF HasData
      <3>5. memory[v + i - 1] = image.phents[k].data[i] BY <1>3, <2>3, <3>1, <3>4 DEF InPlace
      <3>. QED BY <2>6, <2>7, <3>1, <3>2, <3>3, <3>5
    <2>8. CASE ~HasData(image, k, a)
      <3>1. ASSUME NEW j \in Segments(image) PROVE ~HasData(image, j, a)
        BY <1>2, <2>2, <2>8
      <3>2. memory[a] = 0 BY <1>1, <3>1 DEF InPlace
      <3>. QED BY <2>6, <2>8, <3>2
    <2>. QED BY <2>7, <2>8
  <1>. QED BY <1>4, <1>5

LEMMA Started == ASSUME ExecInv PROVE StartsAsAsked
  <1>. SUFFICES ASSUME stage = "entered"
                PROVE  /\ Arguments /\ Image
                       /\ image = program /\ eip = program.entry /\ Accepts(program)
    BY DEF StartsAsAsked
  <1>1. /\ said \in Seq(Seq(Chars)) /\ Accepts(program) /\ image = program
        /\ InPlace(Len(image.phents), esp) /\ Pushed(memory, esp, said)
        /\ eip = program.entry /\ image \in Images /\ memory \in [User -> Nat]
    BY DEF ExecInv, ExecTypes
  <1>2. Arguments BY <1>1, ArgsFound
  <1>3. esp \in Nat /\ esp <= Stack
    <2>1. PICK e \in Nat, f \in Nat, l \in Nat :
              e = esp /\ f = FirstText(said) /\ l = Len(Concat(said)) /\ e + 8 + f + l <= Stack
      <3>1. said \in Seq(Seq(Nat)) BY <1>1, CharsAreNumbers
      <3>2. Concat(said) \in Seq(Nat) BY <3>1, ConcatType
      <3>3. Len(said) \in Nat BY <1>1
      <3>4. FirstText(said) \in Nat /\ Len(Concat(said)) \in Nat BY <3>2, <3>3 DEF FirstText
      <3>. QED BY <1>1, <3>4 DEF Pushed
    <2>2. Stack \in Nat BY Bounds
    <2>3. e <= Stack BY ONLY <2>1, <2>2
    <2>. QED BY <2>1, <2>3
  <1>4. Image BY <1>1, <1>3, ImageFound
  <1>. QED BY <1>1, <1>2, <1>4

\* A program starts with the arguments it was passed and its own image, and nothing else
\* (sys.cc:198-257), as long as no program is started whose segments and arguments meet: exec
\* does not look whether there is room (sys.cc:229), so that is what the caller sees to.
THEOREM ProgramsStart ==
    ASSUME NEW args \in Seq(Seq(Chars)), Low + Len(Concat(args)) <= Stack
    PROVE  (\E m \in Images : Boots(m, args)) /\ [][ExecNext]_execVars /\ [](stage = "load" => Room)
               => []StartsAsAsked
  <1>. DEFINE Begin == \E m \in Images : Boots(m, args)
  <1>1. Begin => ExecInv BY BootsOK
  <1>2. ExecInv /\ [ExecNext]_execVars /\ (stage = "load" => Room) => ExecInv' BY ExecStep
  <1>3. ExecInv => StartsAsAsked BY Started
  <1>. HIDE DEF Begin
  <1>4. Begin /\ [][ExecNext]_execVars /\ [](stage = "load" => Room) => []StartsAsAsked
    BY <1>1, <1>2, <1>3, PTL
  <1>. QED BY <1>4 DEF Begin
=============================================================================
