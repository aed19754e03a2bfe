------------------------------ MODULE FileRead ------------------------------
(***************************************************************************)
(* The read system call, from the buffer a program names down to the       *)
(* disk's data port: check_range and FileDescriptor::read (sys.cc) over    *)
(* BlockIO::read_all (block_io.cc) over Node::read_block (module Node)     *)
(* over Ide::read_block (module Ide).  The threads are those of processes  *)
(* that share one descriptor after a fork, so they share its offset, the   *)
(* node with its cache, and the drive.                                     *)
(*                                                                         *)
(* "The caller is responsible for serializaing access" (block_io.h:13),    *)
(* and nobody in the kernel does it.  InTurns says that the programs do,   *)
(* by waiting for each other (wait, down) between their calls.             *)
(*                                                                         *)
(* Byte i of a block is <<w, i % 4>> for its word w.  Calls check_range    *)
(* refuses, and reads past the end, return -1 and change nothing.          *)
(***************************************************************************)
EXTENDS Node, UserRange

CONSTANTS Size,      \* of the file, in bytes
          Buffers,   \* the addresses programs read to
          Lengths,   \* the lengths they ask for
          Seeks,     \* the offsets they seek to
          InTurns    \* one call at a time

ASSUME FileReadAssumption ==
    /\ Size \in Nat
    /\ Buffers \subseteq Address /\ Lengths \subseteq Address
    /\ Seeks \subseteq Nat
    /\ InTurns \in BOOLEAN

VARIABLES offset,    \* of the descriptor
          call       \* call[t]: the arguments and variables of t's read

vars == <<drive, pc, asked, taken, cache, cache_num, path, offset, call>>

Least(a, b) == IF a < b THEN a ELSE b

NoCall == [buffer |-> Half, len |-> 0, offset |-> 0, n |-> 0, total_count |-> 0, got |-> <<>>,
           cnt |-> 0]

Turn(t) == InTurns => \A u \in Thread \ {t} : At(u, "user")

\* check_range and the test of the offset, then read_all's arguments.
Read(t) ==
    /\ At(t, "user")
    /\ Turn(t)
    /\ \E a \in Buffers, n \in Lengths :
           /\ check_range(a, n)
           /\ offset <= Size
           /\ call' = [call EXCEPT ![t] = [NoCall EXCEPT !.buffer = a, !.len = n, !.n = n,
                                                         !.offset = offset]]
    /\ Goes(t, "loop")
    /\ UNCHANGED <<ideVars, nodeVars, offset>>

\* BlockIO::read: what there is of the n bytes in the block of the offset.
Takes(c) == Least(block_size - (c.offset % block_size), Least(c.n, Size - c.offset))

ReadResult(c) ==
    IF c.offset > Size THEN -1 ELSE IF c.offset = Size THEN 0 ELSE Takes(c)

Returns(t, cnt) ==
    /\ call' = [call EXCEPT ![t].cnt = cnt]
    /\ Goes(t, "add")
    /\ UNCHANGED <<ideVars, nodeVars, offset>>

Ends(cnt) == cnt <= 0

\* One turn of read_all's loop, up to the block it reads; or its end.
Loop(t) ==
    /\ At(t, "loop")
    /\ call[t].n > 0
    /\ ~Ends(ReadResult(call[t]))
    /\ ReadBlock(t, call[t].offset \div block_size)
    /\ UNCHANGED <<offset, call>>

Ended(t) ==
    /\ At(t, "loop")
    /\ call[t].n > 0
    /\ LET cnt == ReadResult(call[t])
       IN  Ends(cnt) /\ Returns(t, IF cnt < 0 THEN cnt ELSE call[t].total_count)

Full(t) ==
    /\ At(t, "loop")
    /\ call[t].n = 0
    /\ Returns(t, call[t].total_count)

\* Byte o of a block of words.
ByteAt(words, o) == <<words[o \div Bytes + 1], o % Bytes>>

FromOffset(c, i) == ByteAt(cache, (c.offset % block_size) + i)

\* memcpy from the cache to the caller's buffer, by way of a temporary one when it is not
\* the whole block.
Copy(t) ==
    LET c == call[t]
        k == Takes(c)
    IN  /\ At(t, "copy")
        /\ call' = [call EXCEPT ![t] =
                      [c EXCEPT !.total_count = @ + k, !.offset = @ + k, !.n = @ - k,
                                !.got = [i \in 0 .. c.total_count + k - 1 |->
                                            IF i < c.total_count THEN c.got[i]
                                            ELSE FromOffset(c, i - c.total_count)]]]
        /\ Goes(t, "loop")
        /\ UNCHANGED <<ideVars, nodeVars, offset>>

\* offset += cnt, and the call returns cnt.
Add(t) ==
    /\ At(t, "add")
    /\ offset' = offset + call[t].cnt
    /\ call' = [call EXCEPT ![t] = NoCall]
    /\ Goes(t, "user")
    /\ asked' = [asked EXCEPT ![t] = 0]
    /\ taken' = [taken EXCEPT ![t] = <<>>]
    /\ UNCHANGED <<drive, nodeVars>>

\* seek takes any offset.
Seek(t) ==
    /\ At(t, "user")
    /\ Turn(t)
    /\ offset' \in Seeks
    /\ UNCHANGED <<ideVars, nodeVars, pc, call>>

Init ==
    /\ IdeInit
    /\ NodeInit
    /\ pc = [t \in Thread |-> "user"]
    /\ offset = 0
    /\ call = [t \in Thread |-> NoCall]

Below(t) == Walking(t) /\ UNCHANGED <<offset, call>>
Drive == Answer /\ UNCHANGED <<nodeVars, offset, call>>

Step(t) == Loop(t) \/ Ended(t) \/ Full(t) \/ Below(t) \/ Copy(t) \/ Add(t)
Next == Drive \/ \E t \in Thread : Read(t) \/ Seek(t) \/ Step(t)

Spec == Init /\ [][Next]_vars

\* The disk answers, and a thread in the kernel goes on, polling included (yield and the
\* ready queue, module Threads).
FairSpec == Spec /\ WF_vars(Drive) /\ \A t \in Thread : WF_vars(Step(t))

-----------------------------------------------------------------------------
(* Properties.                                                              *)

\* Whatever is asked for, no byte is written that is not the program's: check_range
\* (sys.cc:68) looks at the whole length, and read_all (block_io.cc:36) writes no more.
OnlyOwnMemory ==
    \A t \in Thread : \A i \in DOMAIN call[t].got : Allowed(Wrap(call[t].buffer + i))

FileByte(k) == ByteAt(Content(FileBlock(k \div block_size)), k % block_size)

\* The bytes in the buffer are the file's from the offset on, and read_all returns
\* min(n, size_in_bytes - offset) of them (block_io.h:46-51), whatever blocks and index
\* blocks they come through: read_block reads "the given block" (ext2.h:42).
BytesDelivered ==
    \A t \in Thread :
        LET c == call[t]
        IN  pc[t] # "user" =>
                /\ c.got = [i \in 0 .. c.total_count - 1 |-> FileByte(offset + i)]
                /\ c.total_count + c.n = c.len
                /\ At(t, "add") => c.cnt = c.total_count /\ c.cnt = Least(c.len, Size - offset)

\* When nobody is in the node, the cache has the block it is said to have, so that the next
\* reader may take it for that (ext2.cc:10), and the drive has no word of a sector left for
\* the next reader (ide.cc:84).
Out(t) == pc[t] \in {"user", "loop", "add"}
LeftInOrder ==
    (\A t \in Thread : Out(t)) =>
        /\ cache_num # Nowhere => cache = Content(FileBlock(cache_num))
        /\ drive.status = "idle"

\* Every read returns.
ReadReturns == \A t \in Thread : At(t, "loop") ~> At(t, "user")
=============================================================================
