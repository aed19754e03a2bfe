-------------------------------- MODULE Ide --------------------------------
(***************************************************************************)
(* The disk driver (Ide::read_block, src/kernel/ide.cc) against the disk.  *)
(* The driver writes the sector number to the drive's registers, writes    *)
(* the read command, polls the status and takes the words of the sector    *)
(* from the data port, and yields while it polls.  It takes no lock.       *)
(*                                                                         *)
(* The disk is external, modelled as the driver uses it: a command latches *)
(* the registers and makes it busy; then it is ready with the words of the *)
(* sector, which leave it one by one.  A command ends the one before it.   *)
(* The sector number is written in two parts, one for the low and one for  *)
(* the high outb's.                                                        *)
(***************************************************************************)
EXTENDS Integers, Sequences

CONSTANTS Thread,
          Words,     \* words in a sector
          Part,      \* the values of each part of a sector number
          Garbage    \* what the data port gives when there is nothing to give

ASSUME IdeAssumption == Words \in Nat \ {0} /\ Part \in Nat \ {0}

VARIABLES drive,   \* the disk: status, registers, the sector being read, the words left of it
          pc,      \* pc[t]: where t is in a read
          asked,   \* asked[t]: the sector it has asked the driver for
          taken    \* taken[t]: the words the driver has taken for it

ideVars == <<drive, asked, taken>>

Disk(status, lba, left) == [status |-> status, lba |-> lba, sector |-> lba, left |-> left]

Busy == drive.status = "busy"
Data == drive.status = "ready"   \* DRQ

At(t, from) == pc[t] = from
Goes(t, to) == pc' = [pc EXCEPT ![t] = to]

\* read_block, called for sector s.
ReadSector(t, s) ==
    /\ asked' = [asked EXCEPT ![t] = s]
    /\ taken' = [taken EXCEPT ![t] = <<>>]
    /\ Goes(t, "wait")
    /\ UNCHANGED drive

\* waitForDrive: BSY is off.
WaitForDrive(t) ==
    /\ At(t, "wait")
    /\ ~Busy
    /\ Goes(t, "low")
    /\ UNCHANGED ideVars

Low(t) ==
    /\ At(t, "low")
    /\ drive' = [drive EXCEPT !.lba[1] = asked[t] % Part]
    /\ Goes(t, "high")
    /\ UNCHANGED <<asked, taken>>

High(t) ==
    /\ At(t, "high")
    /\ drive' = [drive EXCEPT !.lba[2] = asked[t] \div Part]
    /\ Goes(t, "command")
    /\ UNCHANGED <<asked, taken>>

\* What the read command makes of the disk.
Commanded(d) == Disk("busy", d.lba, Words)

Command(t) ==
    /\ At(t, "command")
    /\ drive' = Commanded(drive)
    /\ Goes(t, "poll")
    /\ UNCHANGED <<asked, taken>>

\* Mutant: the data is not waited for.
ReadyAlways == TRUE

Ready == ~Busy /\ Data

\* Mutant: who finds no data gives the command again.
PollAgain(t) ==
    /\ At(t, "poll")
    /\ Goes(t, IF Ready THEN "data" ELSE "command")
    /\ UNCHANGED ideVars

\* waitForDrive again, and the wait for DRQ.
Poll(t) ==
    /\ At(t, "poll")
    /\ Ready
    /\ Goes(t, "data")
    /\ UNCHANGED ideVars

\* inl of one word: the next of the sector, or garbage.
Number(lba) == lba[1] + Part * lba[2]
NextWord(d) == IF d.status = "ready" THEN <<Number(d.sector), Words - d.left>> ELSE Garbage
Left(d) == IF d.status # "ready" THEN d
           ELSE IF d.left = 1 THEN [d EXCEPT !.status = "idle", !.left = 0]
           ELSE [d EXCEPT !.left = @ - 1]

\* Mutant: a word too few.
MoreButLast(words) == Len(words) < Words - 1

More(words) == Len(words) < Words

Transfer(t) ==
    /\ At(t, "data")
    /\ More(taken[t])
    /\ taken' = [taken EXCEPT ![t] = Append(@, NextWord(drive))]
    /\ drive' = Left(drive)
    /\ UNCHANGED <<pc, asked>>

\* read_block returns to Node::read_block.
Done(t) ==
    /\ At(t, "data")
    /\ ~More(taken[t])
    /\ Goes(t, "walk")
    /\ UNCHANGED ideVars

\* The disk has found the sector.
Answer ==
    /\ Busy
    /\ drive' = [drive EXCEPT !.status = "ready"]
    /\ UNCHANGED <<pc, asked, taken>>

IdeInit ==
    /\ drive = Disk("idle", <<0, 0>>, 0)
    /\ asked = [t \in Thread |-> 0]
    /\ taken = [t \in Thread |-> <<>>]

\* The steps that leave everything outside the driver alone.
Driving(t) ==
    WaitForDrive(t) \/ Low(t) \/ High(t) \/ Command(t) \/ Poll(t) \/ Done(t)

-----------------------------------------------------------------------------
\* The words of a sector.
Content(s) == [k \in 1 .. Words |-> <<s, k - 1>>]
=============================================================================
