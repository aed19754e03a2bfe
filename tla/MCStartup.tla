----------------------------- MODULE MCStartup -----------------------------
(***************************************************************************)
(* Boot, Mount, Ext2Open and Exec for TLC: the way from the boot sector to *)
(* a program.  `part` says which of the four a behaviour is about, so that *)
(* each starts wherever the one before may have left off; kernelMain       *)
(* mounts the disk when every core is there.                               *)
(*                                                                         *)
(* Machines have one to three cores, in tables with other things in        *)
(* between and behind.  Disks have one to three groups and the three sizes *)
(* of blocks.  The root has a directory d, a file f and a link l, and d    *)
(* has a file g, a link m and a parent; the links may lead anywhere, to    *)
(* themselves and each other included.  Programs pass up to two strings to *)
(* each other: two images that start, with zeros to fill, a short file and *)
(* a header that is not loaded, and three that are refused.                *)
(***************************************************************************)
EXTENDS Boot, Ext2Open, Mount, Exec, TLC

Apic(n) == [type |-> 0, processorId |-> n, address |-> 0]
Io == [type |-> 1, processorId |-> 0, address |-> 64]
Other == [type |-> 2, processorId |-> 0, address |-> 0]
Apics(n) == [k \in 1 .. n |-> Apic(k - 1)]
Tables(n) == {Apics(n) \o <<Io>>, Apics(n) \o <<Io, Other>>, <<Apic(0), Other, Io>> \o Tail(Apics(n))}
McMachines == UNION {
    {[sectors |-> s, ram |-> IF s = 1 THEN 20 * 1024 ELSE 128 * 1024 - 64, pair |-> p, cores |-> n,
      madt |-> t, after |-> IF p = "both" THEN Other ELSE Apic(0), swing |-> 25600] :
        s \in {1, 4}, p \in {"both", "first", "second"}, t \in Tables(n)} : n \in 1 .. 3}

McInode == {"root", "dir", "file", "other", "link1", "link2"}
McKind == [i \in McInode |-> CASE i \in {"root", "dir"} -> "dir"
                               [] i \in {"file", "other"} -> "file"
                               [] OTHER -> "link"]
McEntries == ("root" :> [d |-> "dir", f |-> "file", l |-> "link1"])
             @@ ("dir" :> [up |-> "root", g |-> "other", m |-> "link2"])
Name == {"d", "f", "g", "l", "m", "up", ""}
Path(S) == [abs : BOOLEAN, names : S]
McPaths == Path({<<>>} \cup [1 .. 1 -> Name] \cup [1 .. 2 -> Name] \cup {<<"d", "up", "l">>})
McTargets == Path({<<"l">>, <<"m">>, <<"f">>, <<"g">>, <<"d", "m">>, <<"up", "l">>, <<"d">>})

McDisks ==
    {[block |-> b, inodes |-> n, perGroup |-> 16, blocks |-> 64 * ((n + 15) \div 16),
      groupBlocks |-> 64, tables |-> [g \in 0 .. (n - 1) \div 16 |-> 64 * g + 6]] :
        b \in {1024, 2048, 4096}, n \in {16, 17, 40}}

Header(type, vaddr, data, filesize, memsize) ==
    [type |-> type, vaddr |-> vaddr, data |-> data, filesize |-> filesize, memsize |-> memsize]
Elf == [size |-> 60, magic |-> "ELF", class |-> 1, data |-> 1, abi |-> 0, type |-> 2,
        machine |-> 3, entry |-> 130, literals |-> {},
        phents |-> <<Header(1, 128, <<7, 0, 6, 0, 5>>, 5, 8)>>]
McImages == {
    [Elf EXCEPT !.literals = {128, 130}],
    [Elf EXCEPT !.entry = 134, !.literals = {132},
                !.phents = <<Header(4, 128, <<3, 3>>, 2, 2), Header(1, 132, <<8, 4, 0>>, 6, 6),
                             Header(1, 138, <<2>>, 1, 12)>>],
    [Elf EXCEPT !.machine = 62],
    [Elf EXCEPT !.size = 20],
    [Elf EXCEPT !.entry = 64]}

VARIABLE part

OneMachine == CHOOSE m \in McMachines : m.cores = 1
OneDisk == CHOOSE d \in McDisks : d.block = 1024 /\ d.inodes = 16
\* The walk to /f is over.
Opened ==
    /\ target = [l \in Links |-> [abs |-> TRUE, names |-> <<"f">>]]
    /\ dir = Root /\ cd = Root
    /\ name = [abs |-> TRUE, names |-> <<"f">>] /\ base = name /\ path = name.names
    /\ depth = MAX_DEPTH /\ file = "file" /\ pc = "done"
    /\ held = [buffer |-> 0, base |-> 0]

\* Every core is in stop.
BootDone ==
    /\ machine = OneMachine
    /\ mbr = [cx |-> 0, bp |-> 0, di |-> 0, read |-> {}] /\ memInfo = E801(machine)
    /\ kConfig = [memSize |-> machine.ram, totalProcs |-> 1, ioAPIC |-> 64]
    /\ frames = [start |-> HEAP_END, size |-> machine.ram - HEAP_END]
    /\ idt = {} /\ activeThreads = {0} /\ apitCounter = 1 /\ smpInitDone = TRUE
    /\ running = 1 /\ howManyAreHere = 0 /\ id = 1 /\ kernelMains = 0
    /\ at = [c \in Core |-> "stop"] /\ stack = [c \in Core |-> c]
    /\ cpu = [c \in Core |-> Cold]

StartupInit ==
    \/ part = "boot" /\ BootInit /\ MountInit /\ disk = OneDisk /\ Opened /\ Boots(Elf, <<>>)
    \/ part = "mount" /\ BootDone /\ MountInit /\ Opened /\ Boots(Elf, <<>>)
    \/ part = "open" /\ BootDone /\ MountInit /\ disk = OneDisk /\ Init /\ Boots(Elf, <<>>)
    \/ part = "exec" /\ BootDone /\ MountInit /\ disk = OneDisk /\ Opened
       /\ \E m \in McImages : Boots(m, << <<1, 2, 1, 3>> >>)

BootPart == part = "boot" /\ BootNext /\ UNCHANGED <<part, mountVars, vars, execVars>>
KernelMain ==
    /\ part = "boot" /\ kernelMains > 0 /\ \A c \in Core : at[c] = "stop"
    /\ part' = "mount"
    /\ UNCHANGED <<bootVars, mountVars, vars, execVars>>
MountPart == part = "mount" /\ MountNext /\ UNCHANGED <<part, bootVars, vars, execVars>>
OpenPart == part = "open" /\ Next /\ UNCHANGED <<part, bootVars, mountVars, execVars>>
ExecPart == part = "exec" /\ ExecNext /\ UNCHANGED <<part, bootVars, vars, mountVars>>

\* A core goes on by itself, and so does open.
StartupSpec ==
    /\ StartupInit
    /\ [][BootPart \/ KernelMain \/ MountPart \/ OpenPart \/ ExecPart]_<<part, bootVars, vars, mountVars, execVars>>
    /\ WF_vars(OpenPart)
    /\ WF_bootVars(part = "boot" /\ First /\ UNCHANGED <<part, mountVars, vars, execVars>>)
    /\ \A c \in 0 .. 2 :
           WF_bootVars(part = "boot" /\ c \in Core /\ Each(c) /\ UNCHANGED <<part, mountVars, vars, execVars>>)
=============================================================================
