-------------------------------- MODULE Boot --------------------------------
(***************************************************************************)
(* From the boot sector to kernelMain (src/kernel/mbr.S, init.cc,          *)
(* config.cc, smp.cc, pit.cc): the first core loads the kernel, finds out  *)
(* what the machine has and sets up every module, then wakes the others    *)
(* one by one with interprocessor interrupts; each sets up itself, and the *)
(* last to be ready starts kernelMain.  All cores enter at resetEIP, on    *)
(* one temporary stack.  Sizes of memory are in KB, of 4 bytes to a word.  *)
(* The BIOS, its tables, the timers and the interrupt controllers are      *)
(* external.                                                               *)
(***************************************************************************)
EXTENDS Integers, Sequences, FiniteSetsExt

CONSTANT Machines

\* sectors: of the boot drive, which fit below the video memory; ram: its size; pair: the registers in which the BIOS says it;
\* cores; madt: the entries of the APIC table; after: what the memory behind the table holds;
\* swing: timer ticks in half a swing of the PIT.  The table is as emulators write it: the
\* first core is the first entry, the others are there, and can be started, and are numbered
\* from 1; what follows it does not look like one more.  The types and numbers are bytes.
\* Memory ends below 4 GB, the most that the BIOS function tells of.
MadtEntry == [type : 0 .. 255, processorId : 0 .. 255, address : Nat]
Entries(m, n) == {k \in DOMAIN m.madt : m.madt[k].type = 0 /\ m.madt[k].processorId = n}
Listed(m) ==
    /\ m.madt \in Seq(MadtEntry) /\ m.after \in MadtEntry
    /\ 1 \in Entries(m, 0)
    /\ \A n \in 1 .. 255 : Cardinality(Entries(m, n)) = IF n < m.cores THEN 1 ELSE 0
    /\ m.after.type # 1 /\ (m.after.type = 0 => m.after.processorId = 0)
ASSUME BootAssumption == \A m \in Machines :
    /\ m.sectors \in 1 .. 1218 /\ m.cores \in 1 .. 16
    /\ m.ram \in Nat /\ m.ram % 64 = 0 /\ m.ram > 16 * 1024 /\ m.ram < 2 ^ 22
    /\ m.swing \in Nat /\ m.swing >= 1000
    /\ Listed(m)

VARIABLES machine,
          mbr,            \* the registers of the boot sector's loop, and what it has read
          memInfo, kConfig,
          frames,         \* what PhysMem::init is given: where they start and how much
          idt,            \* the vectors that have a handler
          activeThreads,  \* the cores that have one, which is idle
          apitCounter, smpInitDone, running, howManyAreHere,
          id,             \* the core the first one starts
          kernelMains,    \* kernelMain threads that were started
          at, stack,      \* where each core is, and its stack
          cpu             \* and its registers

loaderVars == <<mbr, memInfo>>
kernelVars == <<kConfig, frames, idt, activeThreads, apitCounter, smpInitDone>>
bootVars == <<machine, loaderVars, kernelVars, running, howManyAreHere, id, kernelMains,
              at, stack, cpu>>

Core == 0 .. machine.cores - 1
Bsp == 0

\* A stack is the number of a kernel stack, or one of these.
tempStack == -1
NoStack == -2

Goes(c, to) == at' = [at EXCEPT ![c] = to]

-----------------------------------------------------------------------------
(* The boot sector, which runs on the first core.                           *)

\* int 0x15, function 0xe801: KB from 1M to 16M, and blocks of 64 KB above.
E801(m) ==
    LET first  == m.pair # "second"
        second == m.pair # "first"
        low    == 15 * 1024
        high   == (m.ram - 16 * 1024) \div 64
    IN  [ax |-> IF first THEN low ELSE 0, bx |-> IF first THEN high ELSE 0,
         cx |-> IF second THEN low ELSE 0, dx |-> IF second THEN high ELSE 0]

Left == (mbr.cx - 1) % 2 ^ 16

\* Sector bp to segment di.
ReadSector ==
    /\ at[Bsp] = "mbr" /\ Left # 0
    /\ mbr' = [cx |-> Left, bp |-> mbr.bp + 1, di |-> (mbr.di + 32) % 2 ^ 16,
               read |-> mbr.read \cup {[sector |-> mbr.bp, segment |-> mbr.di]}]
    /\ UNCHANGED <<machine, memInfo, kernelVars, running, howManyAreHere, id, kernelMains, at, stack, cpu>>

GetMemInfo ==
    /\ at[Bsp] = "mbr" /\ Left = 0
    /\ memInfo' = E801(machine)
    /\ Goes(Bsp, "resetEIP")
    /\ UNCHANGED <<machine, mbr, kernelVars, running, howManyAreHere, id, kernelMains, stack, cpu>>

-----------------------------------------------------------------------------
(* Every core, up to kernelInit.                                            *)

\* resetEIP and kk: the descriptor tables, protected mode, and the temporary stack.
ResetEIP(c) ==
    /\ at[c] = "resetEIP"
    /\ stack' = [stack EXCEPT ![c] = tempStack]
    /\ Goes(c, "pickKernelStack")
    /\ UNCHANGED <<machine, loaderVars, kernelVars, running, howManyAreHere, id, kernelMains, cpu>>

PickKernelStack(c) ==
    /\ at[c] = "pickKernelStack"
    /\ stack' = [stack EXCEPT ![c] = IF smpInitDone THEN c ELSE 0]
    /\ Goes(c, "kernelInit")
    /\ UNCHANGED <<machine, loaderVars, kernelVars, running, howManyAreHere, id, kernelMains, cpu>>

-----------------------------------------------------------------------------
(* kernelInit of the first core.                                            *)

\* `|`, of words that are equal or one of which is 0.
Or(a, b) == Max({a, b})
memAbove1M == Or(memInfo.ax, memInfo.cx) + 64 * Or(memInfo.bx, memInfo.dx)

\* configInit goes on to the next entry before it looks, the last time to what follows the table.
LooksAt == Tail(machine.madt) \o <<machine.after>>


Counts(e) == e.type = 0 /\ e.processorId # 0
nOtherProcs == Cardinality({k \in DOMAIN LooksAt : Counts(LooksAt[k])})
IoApics == SelectSeq(LooksAt, LAMBDA e : e.type = 1)

Config == [memSize    |-> (memAbove1M + 1024) % 2 ^ 22,
           totalProcs |-> nOtherProcs + 1,
           ioAPIC     |-> IF IoApics = <<>> THEN 0 ELSE IoApics[Len(IoApics)].address]

IdleThreads(procs) == 0 .. procs - 1

HEAP_END == 6 * 1024
PageFault == 14
APIT_vector == 40
SysCall == 48
Spurious == 255

\* From Debug::init to IDT::init, or the ASSERT of memAbove1M.
Discover ==
    /\ at[Bsp] = "kernelInit"
    /\ memInfo.cx = 15 * 1024 \/ memInfo.dx = 0
    /\ kConfig' = Config
    /\ frames' = [start |-> HEAP_END, size |-> Config.memSize - HEAP_END]
    /\ idt' = {PageFault, SysCall, Spurious}
    /\ activeThreads' = IdleThreads(Config.totalProcs)
    /\ smpInitDone' = TRUE
    /\ Goes(Bsp, "calibrate")
    /\ UNCHANGED <<machine, loaderVars, apitCounter, running, howManyAreHere, id, kernelMains, stack, cpu>>

\* Pit::calibrate(1000): 40 changes of the PIT's output, which is anywhere in a swing when
\* the loop starts.
Calibrate ==
    /\ at[Bsp] = "calibrate"
    /\ \E first \in {1, machine.swing} :
           apitCounter' = (first + 39 * machine.swing) \div 1000
    /\ idt' = idt \cup {APIT_vector}
    /\ running' = running + 1
    /\ id' = 1
    /\ Goes(Bsp, "start")
    /\ UNCHANGED <<machine, loaderVars, kConfig, frames, activeThreads, smpInitDone, howManyAreHere, kernelMains, stack, cpu>>

\* SMP::ipi, INIT and then STARTUP with the page of resetEIP, to a core if there is one.
SendInit ==
    /\ at[Bsp] = "start" /\ id < kConfig.totalProcs
    /\ at' = [c \in Core |-> CASE c = Bsp -> "startup" [] c = id -> "init" [] OTHER -> at[c]]
    /\ UNCHANGED <<machine, loaderVars, kernelVars, running, howManyAreHere, id, kernelMains, stack, cpu>>

SendStartup ==
    /\ at[Bsp] = "startup"
    /\ at' = [c \in Core |-> CASE c = Bsp -> "wait" [] c = id -> "resetEIP" [] OTHER -> at[c]]
    /\ UNCHANGED <<machine, loaderVars, kernelVars, running, howManyAreHere, id, kernelMains, stack, cpu>>

\* Mutant: < for <=.
CameEarly == running >= id

Came == running > id

Wait ==
    /\ at[Bsp] = "wait" /\ Came
    /\ id' = id + 1
    /\ Goes(Bsp, "start")
    /\ UNCHANGED <<machine, loaderVars, kernelVars, running, howManyAreHere, kernelMains, stack, cpu>>

Spin == at[Bsp] = "wait" /\ ~Came /\ UNCHANGED bootVars

AllCame ==
    /\ at[Bsp] = "start" /\ id >= kConfig.totalProcs
    /\ Goes(Bsp, "perCoreInit")
    /\ UNCHANGED <<machine, loaderVars, kernelVars, running, howManyAreHere, id, kernelMains, stack, cpu>>

-----------------------------------------------------------------------------
(* kernelInit of the others, and what all do.                               *)

\* And SMP::init(false), which is about the core's own interrupt controller.
Come(c) ==
    /\ c # Bsp /\ at[c] = "kernelInit"
    /\ running' = running + 1
    /\ Goes(c, "perCoreInit")
    /\ UNCHANGED <<machine, loaderVars, kernelVars, howManyAreHere, id, kernelMains, stack, cpu>>

PerCoreInit(c) ==
    /\ at[c] = "perCoreInit"
    /\ cpu' = [cpu EXCEPT ![c].paging = TRUE]
    /\ Goes(c, "pitInit")
    /\ UNCHANGED <<machine, loaderVars, kernelVars, running, howManyAreHere, id, kernelMains, stack>>

\* It panics when the timer was not calibrated.
PitInit(c) ==
    /\ at[c] = "pitInit" /\ apitCounter # 0
    /\ cpu' = [cpu EXCEPT ![c].timer = apitCounter]
    /\ Goes(c, "tss")
    /\ UNCHANGED <<machine, loaderVars, kernelVars, running, howManyAreHere, id, kernelMains, stack>>

\* Descriptor 5 + k of the GDT is for tss[k].
TssOf(selector) == (selector - 40) \div 8

Tss(c) ==
    /\ at[c] = "tss"
    /\ cpu' = [cpu EXCEPT ![c].ss0 = TRUE, ![c].task = TssOf(40 + c * 8)]
    /\ Goes(c, "sti")
    /\ UNCHANGED <<machine, loaderVars, kernelVars, running, howManyAreHere, id, kernelMains, stack>>

Sti(c) ==
    /\ at[c] = "sti"
    /\ cpu' = [cpu EXCEPT ![c].on = TRUE]
    /\ Goes(c, "arrive")
    /\ UNCHANGED <<machine, loaderVars, kernelVars, running, howManyAreHere, id, kernelMains, stack>>

\* Mutant: with the number of the others, and from then on.
IsLastOther(order) == order >= kConfig.totalProcs - 1

IsLast(order) == order = kConfig.totalProcs

\* stop() makes what runs here the core's idle thread (module Threads).
Arrive(c) ==
    /\ at[c] = "arrive"
    /\ howManyAreHere' = howManyAreHere + 1
    /\ kernelMains' = IF IsLast(howManyAreHere + 1) THEN kernelMains + 1 ELSE kernelMains
    /\ Goes(c, "stop")
    /\ UNCHANGED <<machine, loaderVars, kernelVars, running, id, stack, cpu>>

-----------------------------------------------------------------------------
Cold == [paging |-> FALSE, timer |-> 0, ss0 |-> FALSE, task |-> -1, on |-> FALSE]

BootInit ==
    /\ machine \in Machines
    /\ mbr = [cx |-> machine.sectors, bp |-> 1, di |-> 2016, read |-> {}]
    /\ memInfo = [ax |-> 0, bx |-> 0, cx |-> 0, dx |-> 0]
    /\ kConfig = [memSize |-> 0, totalProcs |-> 0, ioAPIC |-> 0]
    /\ frames = [start |-> 0, size |-> 0]
    /\ idt = {} /\ activeThreads = {}
    /\ apitCounter = 0 /\ smpInitDone = FALSE
    /\ running = 0 /\ howManyAreHere = 0 /\ id = 0 /\ kernelMains = 0
    /\ at = [c \in Core |-> IF c = Bsp THEN "mbr" ELSE "off"]
    /\ stack = [c \in Core |-> NoStack]
    /\ cpu = [c \in Core |-> Cold]

First == \/ ReadSector \/ GetMemInfo \/ Discover \/ Calibrate
         \/ SendInit \/ SendStartup \/ Wait \/ Spin \/ AllCame
Each(c) == \/ ResetEIP(c) \/ PickKernelStack(c) \/ Come(c) \/ PerCoreInit(c)
           \/ PitInit(c) \/ Tss(c) \/ Sti(c) \/ Arrive(c)
BootNext == First \/ \E c \in Core : Each(c)

BootSpec == BootInit /\ [][BootNext]_bootVars

-----------------------------------------------------------------------------
(* Properties.                                                              *)

\* The cores start on one temporary stack (mbr.S:159), where a call and its return address are:
\* no two of them are on it together, nor on one kernel stack.
StacksApart == \A c, d \in Core : c # d /\ stack[c] = stack[d] => stack[c] = NoStack

\* Whatever can interrupt a core that has its interrupts on finds a handler, the core's
\* thread and the stack segment in the core's own TSS.
Served(c) ==
    /\ {PageFault, APIT_vector, SysCall, Spurious} \subseteq idt
    /\ c \in activeThreads
    /\ cpu[c].paging /\ cpu[c].timer > 0 /\ cpu[c].ss0 /\ cpu[c].task = c

\* The whole kernel is where the linker placed it, and the frames are the memory behind the heap.
Loaded == mbr.read = {[sector |-> k, segment |-> 1984 + 32 * k] : k \in 1 .. machine.sectors - 1}
Framed == frames.start = HEAP_END /\ frames.start + frames.size = machine.ram

\* kernelMain is started once (init.cc:159), when every core of the machine takes interrupts
\* and is served, and not before all is in place.
StartsOnce ==
    /\ kernelMains > 0 => /\ kernelMains = 1 /\ Loaded /\ Framed
                          /\ \A c \in Core : cpu[c].on
    /\ \A c \in Core : cpu[c].on => Served(c)

=============================================================================
