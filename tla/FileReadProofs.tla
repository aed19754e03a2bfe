--------------------------- MODULE FileReadProofs ---------------------------
(***************************************************************************)
(* A read writes no byte that is not the program's, for every file, block  *)
(* size and length, however many processes read at once and whether or     *)
(* not they take turns: what is written and what is still to be read add   *)
(* up to the length check_range was asked about.                           *)
(*                                                                         *)
(* When they do take turns, and the file is one read_block can read, the   *)
(* bytes are the file's and the node is left as the next reader takes it   *)
(* to be.                                                                  *)
(*                                                                         *)
(* First, what check_range lets through, for addresses of any width and    *)
(* device pages anywhere.                                                  *)
(***************************************************************************)
EXTENDS FileRead, TLAPS

-----------------------------------------------------------------------------
(* check_range.                                                             *)

\* A range that is let through does not wrap.
LEMMA NoWrap ==
  ASSUME UserRangeAssumption, NEW start \in Address, NEW size \in Address,
         check_range(start, size)
  PROVE  start + size < Word
  BY DEF UserRangeAssumption, Address, check_range, Ordered, Wrap

\* A byte in a device page is in a range that does not miss the page, and such a range has one.
LEMMA DeviceByte ==
  ASSUME UserRangeAssumption, NEW start \in Address, NEW size \in Address,
         start + size < Word, NEW d \in Half .. Word - Page - 1
  PROVE  /\ Misses(start, start + size, d) =>
               \A i \in 0 .. size - 1 : start + i \notin d .. d + Page - 1
         /\ ~Misses(start, start + size, d) /\ size > 0 =>
               \E i \in 0 .. size - 1 : start + i \in d .. d + Page - 1
  <1>. USE DEF UserRangeAssumption, Address, Misses
  <1>1. Misses(start, start + size, d) =>
          \A i \in 0 .. size - 1 : start + i \notin d .. d + Page - 1
    OBVIOUS
  <1>2. ASSUME ~Misses(start, start + size, d), size > 0
        PROVE  \E i \in 0 .. size - 1 : start + i \in d .. d + Page - 1
    <2>1. CASE start >= d
      <3>1. 0 \in 0 .. size - 1 /\ start + 0 \in d .. d + Page - 1 BY <1>2, <2>1
      <3>. QED BY <3>1
    <2>2. CASE start < d
      <3>1. d - start \in 0 .. size - 1 /\ start + (d - start) \in d .. d + Page - 1
        BY <1>2, <2>2
      <3>. QED BY <3>1
    <2>. QED BY <2>1, <2>2
  <1>. QED BY <1>1, <1>2

\* No byte of a range that is let through is the kernel's or a device's (sys.cc:71-74).
THEOREM Safe ==
  ASSUME UserRangeAssumption, NEW start \in Address, NEW size \in Address,
         check_range(start, size)
  PROVE  \A a \in RangeBytes(start, size) : Allowed(a)
  <1>1. ASSUME NEW i \in 0 .. size - 1 PROVE Allowed(Wrap(start + i))
    <2>1. start + size < Word BY NoWrap
    <2>2. Wrap(start + i) = start + i /\ start + i >= Half
      BY <2>1 DEF Wrap, Address, check_range, UserRangeAssumption
    <2>3. /\ Misses(start, start + size, localAPIC)
          /\ Misses(start, start + size, ioAPIC)
      BY <2>1 DEF check_range, Wrap
    <2>4. ~InDevice(start + i)
      BY <2>1, <2>3, DeviceByte DEF InDevice, UserRangeAssumption
    <2>. QED BY <2>2, <2>4 DEF Allowed
  <1>. QED BY <1>1 DEF RangeBytes

\* What is refused has a byte that is not the program's, unless it is empty or ends with the
\* last byte there is: check_range is no stricter than it must be but for these.
THEOREM Exact ==
  ASSUME UserRangeAssumption, NEW start \in Address, NEW size \in Address,
         ~check_range(start, size), size > 0, start + size # Word
  PROVE  \E a \in RangeBytes(start, size) : ~Allowed(a)
  <1>1. \E i \in 0 .. size - 1 : ~Allowed(Wrap(start + i))
    <2>. USE DEF UserRangeAssumption, Address
    <2>1. CASE start < Half
      <3>1. 0 \in 0 .. size - 1 /\ Wrap(start + 0) = start BY DEF Wrap
      <3>. QED BY <2>1, <3>1 DEF Allowed
    <2>2. CASE start + size > Word
      <3>1. Word - start \in 0 .. size - 1 /\ Wrap(start + (Word - start)) = 0
        BY <2>2 DEF Wrap
      <3>. QED BY <3>1 DEF Allowed
    <2>3. CASE start >= Half /\ start + size < Word
      <3>1. ~Misses(start, start + size, localAPIC) \/ ~Misses(start, start + size, ioAPIC)
        BY <2>3 DEF check_range, Wrap, Ordered
      <3>2. \E i \in 0 .. size - 1 : InDevice(start + i)
        BY <2>3, <3>1, DeviceByte DEF InDevice
      <3>3. \A i \in 0 .. size - 1 : Wrap(start + i) = start + i BY <2>3 DEF Wrap
      <3>. QED BY <3>2, <3>3 DEF Allowed
    <2>. QED BY <2>1, <2>2, <2>3
  <1>. QED BY <1>1 DEF RangeBytes

-----------------------------------------------------------------------------
(* The reads.                                                               *)

\* The arguments and variables of a call.
CallOK(c) ==
    /\ DOMAIN c = DOMAIN NoCall
    /\ c.buffer \in Address /\ c.len \in Address
    /\ c.offset \in Nat /\ c.offset <= Size
    /\ c.n \in Nat /\ c.total_count \in Nat /\ c.cnt \in Nat
    /\ c.total_count + c.n = c.len
    /\ DOMAIN c.got = 0 .. c.total_count - 1
    /\ c.len = 0 \/ check_range(c.buffer, c.len)

CallsOK ==
    /\ offset \in Nat
    /\ DOMAIN call = Thread
    /\ \A t \in Thread : CallOK(call[t])

Assumptions == IdeAssumption /\ UserRangeAssumption /\ FileReadAssumption

\* A block has bytes.
LEMMA BlockSize == ASSUME IdeAssumption PROVE block_size \in Nat \ {0}
  BY DEF IdeAssumption, block_size, Bytes

\* A block has some of the bytes asked for, and no more than were asked for.
LEMMA TakesSome ==
  ASSUME Assumptions, NEW c, CallOK(c)
  PROVE  Takes(c) \in 0 .. c.n
  <1>1. block_size \in Nat /\ c.offset % block_size \in 0 .. block_size - 1
    <2>1. \A o \in Nat, b \in Nat \ {0} : o % b \in 0 .. b - 1 OBVIOUS
    <2>. QED BY <2>1, BlockSize DEF Assumptions, CallOK
  <1>2. ASSUME NEW m \in Nat, NEW b \in Nat, m < b
        PROVE  Least(b - m, Least(c.n, Size - c.offset)) \in 0 .. c.n
    BY <1>2 DEF Least, CallOK, Assumptions, FileReadAssumption
  <1>3. c.offset % block_size \in Nat /\ c.offset % block_size < block_size BY <1>1
  <1>. QED BY <1>1, <1>2, <1>3 DEF Takes

\* The call a thread that makes none stands for.
LEMMA NoCallOK == ASSUME Assumptions PROVE CallOK(NoCall)
  BY DEF Assumptions, UserRangeAssumption, FileReadAssumption, CallOK, NoCall, Address

\* A step of one thread changes its own call only.
LEMMA OneCall ==
  ASSUME CallsOK, NEW t \in Thread, NEW c, CallOK(c), call' = [call EXCEPT ![t] = c],
         offset' \in Nat
  PROVE  CallsOK'
  <1>1. DOMAIN call' = Thread BY DEF CallsOK
  <1>2. \A u \in Thread : call'[u] = IF u = t THEN c ELSE call[u] BY DEF CallsOK
  <1>3. \A u \in Thread : CallOK(call'[u]) BY <1>2 DEF CallsOK
  <1>. QED BY <1>1, <1>3 DEF CallsOK

\* A call begins with a length that was checked.
LEMMA ReadOK ==
  ASSUME Assumptions, CallsOK, NEW t \in Thread, Read(t) PROVE CallsOK'
  <1>1. PICK a \in Buffers, n \in Lengths :
          /\ check_range(a, n)
          /\ offset <= Size
          /\ call' = [call EXCEPT ![t] = [NoCall EXCEPT !.buffer = a, !.len = n, !.n = n,
                                                        !.offset = offset]]
    BY DEF Read
  <1>. DEFINE c == [NoCall EXCEPT !.buffer = a, !.len = n, !.n = n, !.offset = offset]
  <1>2. /\ a \in Address /\ n \in Address /\ n \in Nat
        /\ offset \in Nat /\ offset' = offset
    BY DEF Assumptions, FileReadAssumption, UserRangeAssumption, Address, CallsOK, Read
  <1>3. CallOK(c) BY <1>1, <1>2 DEF CallOK, NoCall
  <1>. HIDE DEF c
  <1>4. call' = [call EXCEPT ![t] = c] BY <1>1 DEF c
  <1>. QED BY <1>2, <1>3, <1>4, OneCall

\* What a call returns changes nothing else of it.
LEMMA ReturnsOK ==
  ASSUME CallsOK, NEW t \in Thread, NEW cnt \in Nat, Returns(t, cnt) PROVE CallsOK'
  <1>. DEFINE c == [call[t] EXCEPT !.cnt = cnt]
  <1>1. CallOK(call[t]) /\ offset \in Nat BY DEF CallsOK
  <1>2. CallOK(c) BY <1>1 DEF CallOK, NoCall
  <1>3. call' = [call EXCEPT ![t] = c] /\ offset' = offset BY DEF Returns
  <1>. HIDE DEF c
  <1>. QED BY <1>1, <1>2, <1>3, OneCall

\* What a block has is added to what is written and taken from what is asked for.
LEMMA CopyOK ==
  ASSUME Assumptions, CallsOK, NEW t \in Thread, Copy(t) PROVE CallsOK'
  <1>. DEFINE d == call[t]
              k == Takes(d)
              got == [i \in 0 .. d.total_count + k - 1 |->
                         IF i < d.total_count THEN d.got[i]
                         ELSE FromOffset(d, i - d.total_count)]
              c == [d EXCEPT !.total_count = @ + k, !.offset = @ + k, !.n = @ - k, !.got = got]
  <1>1. CallOK(d) /\ offset \in Nat BY DEF CallsOK
  <1>2. k \in 0 .. d.n BY <1>1, TakesSome
  <1>3. d.offset + k <= Size
    BY <1>1, <1>2, BlockSize DEF Takes, Least, CallOK, Assumptions, FileReadAssumption
  <1>4. DOMAIN got = 0 .. d.total_count + k - 1 OBVIOUS
  <1>5. call' = [call EXCEPT ![t] = c] /\ offset' = offset BY DEF Copy
  <1>. HIDE DEF got, k, d
  <1>6. CallOK(c)
    <2>1. /\ DOMAIN d = DOMAIN NoCall /\ d.n \in Nat /\ d.total_count \in Nat
          /\ d.offset \in Nat /\ d.total_count + d.n = d.len
          /\ d.len = 0 \/ check_range(d.buffer, d.len)
          /\ d.buffer \in Address /\ d.len \in Address /\ d.cnt \in Nat
      BY <1>1 DEF CallOK
    <2>2. /\ DOMAIN c = DOMAIN NoCall /\ c.buffer = d.buffer /\ c.len = d.len /\ c.cnt = d.cnt
          /\ c.total_count = d.total_count + k /\ c.offset = d.offset + k
          /\ c.n = d.n - k /\ c.got = got
      BY <2>1 DEF NoCall
    <2>. HIDE DEF c
    <2>3. /\ d.offset + k \in Nat /\ d.n - k \in Nat /\ d.total_count + k \in Nat
          /\ (d.total_count + k) + (d.n - k) = d.total_count + d.n
          /\ (d.total_count + k) - 1 = d.total_count + k - 1
      BY <1>2, <2>1
    <2>. QED BY <1>3, <1>4, <2>1, <2>2, <2>3 DEF CallOK
  <1>. HIDE DEF c
  <1>. QED BY <1>1, <1>5, <1>6, OneCall

\* Calls are as they should be at every moment: one step for each action.
LEMMA CallsStep == ASSUME Assumptions, CallsOK, [Next]_vars PROVE CallsOK'
  <1>1. CASE UNCHANGED <<offset, call>> BY <1>1 DEF CallsOK
  <1>2. ASSUME NEW t \in Thread, Read(t) PROVE CallsOK' BY <1>2, ReadOK
  <1>3. ASSUME NEW t \in Thread, Seek(t) PROVE CallsOK'
    BY <1>3 DEF Seek, CallsOK, Assumptions, FileReadAssumption
  <1>4. ASSUME NEW t \in Thread, Ended(t) PROVE CallsOK'
    <2>1. CallOK(call[t]) BY DEF CallsOK
    <2>2. ~(ReadResult(call[t]) < 0)
      <3>1. Takes(call[t]) \in Nat BY <2>1, TakesSome DEF CallOK
      <3>. QED BY <2>1, <3>1 DEF ReadResult, CallOK, Assumptions, FileReadAssumption
    <2>3. call[t].total_count \in Nat BY <2>1 DEF CallOK
    <2>4. Returns(t, call[t].total_count) BY <1>4, <2>2 DEF Ended
    <2>. QED BY <2>3, <2>4, ReturnsOK
  <1>5. ASSUME NEW t \in Thread, Full(t) PROVE CallsOK'
    <2>1. call[t].total_count \in Nat BY DEF CallsOK, CallOK
    <2>. QED BY <1>5, <2>1, ReturnsOK DEF Full
  <1>6. ASSUME NEW t \in Thread, Copy(t) PROVE CallsOK' BY <1>6, CopyOK
  <1>7. ASSUME NEW t \in Thread, Add(t) PROVE CallsOK'
    <2>1. offset' \in Nat BY <1>7 DEF Add, CallsOK, CallOK
    <2>. QED BY <1>7, <2>1, NoCallOK, OneCall DEF Add
  <1>. QED
    BY <1>1, <1>2, <1>3, <1>4, <1>5, <1>6, <1>7 DEF Next, Step, Loop, Below, Drive, vars

\* No byte is written that is not the program's (sys.cc:68, block_io.cc:35).
THEOREM MemorySafe == Spec => []OnlyOwnMemory
  <1>. USE IdeAssumption, UserRangeAssumption, FileReadAssumption DEF Assumptions
  <1>1. Init => CallsOK
    <2>. SUFFICES ASSUME Init PROVE CallsOK OBVIOUS
    <2>1. \A t \in Thread : call[t] = NoCall BY DEF Init
    <2>. QED BY <2>1, NoCallOK DEF Init, CallsOK
  <1>2. CallsOK /\ [Next]_vars => CallsOK' BY CallsStep
  <1>3. CallsOK => OnlyOwnMemory
    <2>. SUFFICES ASSUME CallsOK, NEW t \in Thread, NEW i \in DOMAIN call[t].got
                  PROVE  Allowed(Wrap(call[t].buffer + i))
      BY DEF OnlyOwnMemory
    <2>. DEFINE c == call[t]
    <2>1. CallOK(c) BY DEF CallsOK
    <2>2. i \in 0 .. c.len - 1 /\ check_range(c.buffer, c.len) BY <2>1 DEF CallOK
    <2>3. \A a \in RangeBytes(c.buffer, c.len) : Allowed(a)
      BY <2>1, <2>2, Safe DEF CallOK
    <2>4. Wrap(c.buffer + i) \in RangeBytes(c.buffer, c.len) BY <2>2 DEF RangeBytes
    <2>. QED BY <2>3, <2>4
  <1>. QED BY <1>1, <1>2, <1>3, PTL DEF Spec

-----------------------------------------------------------------------------
(* What is read is what the file has, when callers take turns.              *)

\* The disk has the blocks the i-node and its index blocks name, and the file is no longer than
\* read_block can find: behind the blocks of the second tree's first index
\* block it takes pointers from places where there are none.
Format ==
    /\ \A k \in DOMAIN data : data[k] \in Nat
    /\ \A b \in DOMAIN index : \A k \in 0 .. Pc1 - 1 : index[b][k] \in Nat
    /\ Size > Direct * block_size => data[Direct] \in DOMAIN index
    /\ Size > (Direct + Pc1) * block_size =>
           /\ data[Direct + 1] \in DOMAIN index
           /\ index[data[Direct + 1]][0] \in DOMAIN index
    /\ Size <= (Direct + Pc1 + 1) * block_size
    /\ \A s, k : Garbage # <<s, k>>

Orderly == Assumptions /\ NodeAssumption /\ Format /\ InTurns

Block(t) == call[t].offset \div block_size

\* From index block b at offset o a pointer to c is read.
Points(b, o, c) ==
    /\ b \in DOMAIN index
    /\ o \in Nat /\ o % Bytes = 0 /\ o \div Bytes \in 0 .. Pc1 - 1
    /\ c = index[b][o \div Bytes]

\* From block b the offsets lead to block c.
Leads(b, offsets, c) ==
    \/ offsets = <<>> /\ c = b
    \/ \E o : offsets = <<o>> /\ Points(b, o, c)
    \/ \E o, q, d : offsets = <<o, q>> /\ Points(b, o, d) /\ Points(d, q, c)

\* t has claimed the cache for its block and is on the way to it.
Fetching(t) ==
    /\ call[t].n > 0 /\ call[t].offset < Size /\ cache_num = Block(t)
    /\ asked[t] \in Nat /\ Leads(asked[t], path[t], FileBlock(Block(t)))

\* The first m words of a sector, and that t has them: in the cache, when they are its block's.
Begin(s, m) == [k \in 1 .. m |-> <<s, k - 1>>]
Fetched(t, m) ==
    /\ taken[t] = Begin(asked[t], m)
    /\ path[t] = <<>> => \A k \in 1 .. m : cache[k] = <<asked[t], k - 1>>

Idle == drive.status = "idle"

\* Where a read is, by its step.
Stage(t) ==
    /\ pc[t] \in {"wait", "low", "high", "command"} => Fetching(t) /\ Idle /\ taken[t] = <<>>
    /\ pc[t] \in {"high", "command"} => drive.lba[1] = asked[t] % Part
    /\ pc[t] = "command" => drive.lba[2] = asked[t] \div Part
    /\ pc[t] = "poll" =>
           /\ Fetching(t) /\ ~Idle /\ taken[t] = <<>>
           /\ Number(drive.sector) = asked[t] /\ drive.left = Words
    /\ pc[t] = "data" =>
           /\ Fetching(t)
           /\ \E m \in 0 .. Words :
                  /\ Fetched(t, m)
                  /\ IF m = Words THEN Idle
                     ELSE /\ drive.status = "ready" /\ drive.left = Words - m
                          /\ Number(drive.sector) = asked[t]
    /\ pc[t] = "walk" => Fetching(t) /\ Fetched(t, Words) /\ Idle
    /\ pc[t] = "copy" =>
           /\ call[t].n > 0 /\ call[t].offset < Size /\ Idle
           /\ cache_num = Block(t) /\ cache = Content(FileBlock(Block(t)))

\* What a read has delivered: m bytes of the file, from o on.
FileBytes(o, m) == [i \in 0 .. m - 1 |-> FileByte(o + i)]
Delivers(t) ==
    pc[t] # "user" =>
        /\ call[t].got = FileBytes(offset, call[t].total_count)
        /\ call[t].offset = offset + call[t].total_count
        /\ At(t, "add") => /\ call[t].cnt = call[t].total_count
                           /\ call[t].cnt = Least(call[t].len, Size - offset)

Steps == {"user", "loop", "wait", "low", "high", "command", "poll", "data", "walk", "copy", "add"}
Lba == [1 .. 2 -> Nat]

FileTypes ==
    /\ drive \in [status : {"idle", "busy", "ready"}, lba : Lba, sector : Lba, left : Nat]
    /\ pc \in [Thread -> Steps] /\ DOMAIN asked = Thread
    /\ DOMAIN taken = Thread /\ DOMAIN path = Thread /\ DOMAIN call = Thread
    /\ cache = [k \in 1 .. Words |-> cache[k]]
    /\ cache_num \in Nat \cup {Nowhere}

OneReads == \A t, u \in Thread : pc[t] # "user" /\ pc[u] # "user" => t = u

Fits == Idle /\ (cache_num # Nowhere => cache = Content(FileBlock(cache_num)))

FileInv ==
    /\ CallsOK /\ FileTypes /\ OneReads
    /\ (\A t \in Thread : Out(t)) => Fits
    /\ \A t \in Thread : Stage(t) /\ Delivers(t)

\* The sizes, as numbers.
LEMMA WordsOK ==
  ASSUME Orderly
  PROVE  /\ Words \in Nat /\ Words > 0 /\ Part \in Nat /\ Part > 0
         /\ Pc1 = Words /\ block_size = 4 * Words /\ Size \in Nat /\ Direct \in Nat
         /\ DOMAIN data = 0 .. Direct + 2
  BY DEF Orderly, Assumptions, IdeAssumption, NodeAssumption, FileReadAssumption, Pc1, block_size, Bytes

\* What a quotient and a remainder are.
LEMMA Division ==
  ASSUME NEW a \in Nat, NEW s \in Nat, s > 0
  PROVE  a \div s \in Nat /\ a % s \in Nat /\ a % s < s /\ a = s * (a \div s) + (a % s)
  OBVIOUS

\* A block has the bytes from its first on.
LEMMA SameBlock ==
  ASSUME NEW a \in Nat, NEW s \in Nat, s > 0, NEW i \in Nat, i < s - (a % s)
  PROVE  (a + i) \div s = a \div s /\ (a + i) % s = (a % s) + i
  <1>1. a \div s \in Nat /\ a % s \in Nat /\ a = s * (a \div s) + (a % s) BY Division
  <1>. DEFINE q == a \div s
              r == (a % s) + i
  <1>2. q \in Nat /\ r \in Nat /\ r < s /\ a + i = s * q + r BY <1>1
  <1>3. a + i \in Nat OBVIOUS
  <1>. DEFINE q2 == (a + i) \div s
              r2 == (a + i) % s
  <1>4. q2 \in Nat /\ r2 \in Nat /\ r2 < s /\ a + i = s * q2 + r2 BY <1>3, Division
  <1>. HIDE DEF q, r, q2, r2
  <1>5. q = q2
    <2>1. ASSUME q < q2 PROVE FALSE
      <3>1. s * q2 >= s * (q + 1) BY <1>2, <1>4, <2>1
      <3>2. s * (q + 1) = s * q + s BY <1>2
      <3>. QED BY <1>2, <1>4, <3>1, <3>2
    <2>2. ASSUME q2 < q PROVE FALSE
      <3>1. s * q >= s * (q2 + 1) BY <1>2, <1>4, <2>2
      <3>2. s * (q2 + 1) = s * q2 + s BY <1>4
      <3>. QED BY <1>2, <1>4, <3>1, <3>2
    <2>. QED BY <1>2, <1>4, <2>1, <2>2
  <1>6. r = r2 BY <1>2, <1>4, <1>5
  <1>. QED BY <1>5, <1>6 DEF q, r, q2, r2

\* What is before the end is in a block before the end.
LEMMA InBlocks ==
  ASSUME NEW a \in Nat, NEW s \in Nat, s > 0, NEW b \in Nat, a < b * s
  PROVE  a \div s < b
  <1>. DEFINE q == a \div s
  <1>1. q \in Nat /\ a >= s * q BY Division
  <1>. HIDE DEF q
  <1>2. ASSUME q >= b PROVE FALSE
    <2>1. s * q >= s * b BY <1>1, <1>2
    <2>. QED BY <1>1, <2>1
  <1>3. q < b BY <1>1, <1>2
  <1>. QED BY <1>3 DEF q

\* read_block starts at the root of the block's tree, on the way to the block.
LEMMA WayLeads ==
  ASSUME Orderly, NEW n \in Nat, n * block_size < Size
  PROVE  Root(n) \in Nat /\ Leads(Root(n), Offsets(n), FileBlock(n))
  <1>. DEFINE w == Words
              p2 == Pc2
  <1>1. /\ w \in Nat /\ w > 0 /\ Pc1 = w /\ block_size = 4 * w /\ Size \in Nat /\ Direct \in Nat
        /\ DOMAIN data = 0 .. Direct + 2
    BY WordsOK
  <1>2. Pc2 = w * w /\ Pc2 \in Nat /\ Pc2 > 0 BY <1>1 DEF Pc2
  <1>3. n < Direct + w + 1
    <2>. DEFINE z == block_size
    <2>0. n * z < Size /\ Size <= (Direct + Pc1 + 1) * z BY DEF Orderly, Format
    <2>. HIDE DEF z
    <2>1. n * z < (Direct + w + 1) * z /\ z \in Nat BY <1>1, <2>0 DEF z
    <2>. HIDE DEF w
    <2>2. ASSUME n >= Direct + w + 1 PROVE FALSE
      <3>1. n * z >= (Direct + w + 1) * z BY <1>1, <2>1, <2>2
      <3>. QED BY <1>1, <2>1, <3>1
    <2>. QED BY <1>1, <2>2
  <1>4. \A k \in 0 .. Direct + 2 : data[k] \in Nat BY <1>1 DEF Orderly, Format
  <1>5. CASE n < Direct
    <2>1. Root(n) = data[n] /\ Offsets(n) = <<>> /\ FileBlock(n) = data[n]
      BY <1>5 DEF Root, Offsets, FileBlock
    <2>. QED BY <1>1, <1>4, <1>5, <2>1 DEF Leads
  <1>6. CASE n >= Direct /\ n < Direct + w
    <2>. DEFINE k == n - Direct
    <2>1. k \in 0 .. w - 1 /\ ~(n < Direct) /\ n < Direct + Pc1 BY <1>1, <1>6
    <2>2. Size > Direct * (4 * w)
      <3>. HIDE DEF w
      <3>1. n * (4 * w) >= Direct * (4 * w) BY <1>1, <1>6
      <3>. QED BY <1>1, <3>1
    <2>3. data[Direct] \in DOMAIN index BY <1>1, <2>2 DEF Orderly, Format
    <2>4. k < Pc1 /\ k \in Nat BY <1>1, <2>1
    <2>5. Root(n) = data[Direct] /\ Offsets(n) = <<k * Bytes>> BY <2>1, <2>4 DEF Root, Offsets
    <2>6. k % Pc1 = k
      <3>. HIDE DEF k
      <3>1. Pc1 \in Nat /\ Pc1 > 0 BY <1>1
      <3>. QED BY <2>4, <3>1, Division, InBlocks
    <2>7. FileBlock(n) = index[data[Direct]][k] BY <2>1, <2>6 DEF FileBlock, Leaf1
    <2>8. k * Bytes \in Nat /\ (k * Bytes) % Bytes = 0 /\ (k * Bytes) \div Bytes = k
      BY <2>4 DEF Bytes
    <2>9. Points(data[Direct], k * Bytes, FileBlock(n)) BY <1>1, <2>1, <2>3, <2>7, <2>8 DEF Points
    <2>. QED BY <1>1, <1>4, <2>5, <2>9 DEF Leads
  <1>7. CASE n = Direct + w
    <2>. DEFINE a == data[Direct + 1]
    <2>1. ~(n < Direct) /\ ~(n < Direct + Pc1) /\ n < Direct + Pc1 + Pc2 /\ n - Direct - Pc1 = 0
      BY <1>1, <1>2, <1>7
    <2>2. a \in DOMAIN index /\ index[a][0] \in DOMAIN index /\ a \in Nat
      BY <1>1, <1>4, <1>7 DEF Orderly, Format
    <2>3. 0 \div w = 0 /\ 0 % w = 0 BY <1>1
    <2>4. Root(n) = a BY <2>1 DEF Root
    <2>5. ~(n - Direct < Pc1) /\ n - Direct - Pc1 < Pc2 BY <1>1, <1>2, <1>7
    <2>6. Offsets(n) = <<0 * Bytes, 0>> BY <1>1, <2>1, <2>3, <2>5 DEF Offsets
    <2>7. FileBlock(n) = index[index[a][0]][0] BY <1>1, <2>1, <2>3 DEF FileBlock, Leaf1, Leaf2
    <2>8. Offsets(n) = <<0, 0>> BY <2>6 DEF Bytes
    <2>9. 0 % Bytes = 0 /\ 0 \div Bytes = 0 /\ 0 \in 0 .. Pc1 - 1 BY <1>1 DEF Bytes
    <2>10. Points(a, 0, index[a][0]) /\ Points(index[a][0], 0, FileBlock(n))
      BY <2>2, <2>7, <2>9 DEF Points
    <2>. QED BY <2>2, <2>4, <2>8, <2>10 DEF Leads
  <1>. QED BY <1>1, <1>3, <1>5, <1>6, <1>7

\* A step of one thread, while the others make no call.
LEMMA OnlyOne ==
  ASSUME FileInv, NEW t \in Thread, \A u \in Thread \ {t} : pc[u] = "user",
         NEW q \in Steps, pc' = [pc EXCEPT ![t] = q],
         CallsOK', FileTypes', Stage(t)', Delivers(t)', q \in {"user", "loop", "add"} => Fits'
  PROVE  FileInv'
  <1>1. pc'[t] = q /\ \A u \in Thread \ {t} : pc'[u] = "user"
    BY DEF FileInv, FileTypes
  <1>2. OneReads' BY <1>1 DEF OneReads
  <1>3. \A u \in Thread \ {t} : Stage(u)' /\ Delivers(u)' BY <1>1 DEF Stage, Delivers
  <1>4. (\A u \in Thread : Out(u)') => Fits' BY <1>1 DEF Out
  <1>. QED BY <1>2, <1>3, <1>4 DEF FileInv

\* Whoever is in a read is alone in it.
LEMMA Alone ==
  ASSUME FileInv, NEW t \in Thread, pc[t] # "user"
  PROVE  /\ \A u \in Thread \ {t} : pc[u] = "user"
         /\ Out(t) => Fits
  BY DEF FileInv, OneReads, Out

\* The next word of a sector behind the first m of them.
LEMMA BeginsWith ==
  ASSUME NEW s \in Nat, NEW m \in Nat
  PROVE  /\ Begin(s, m) \in Seq(Nat \X Nat) /\ Len(Begin(s, m)) = m
         /\ Append(Begin(s, m), <<s, m>>) = Begin(s, m + 1)
         /\ Begin(s, 0) = <<>>
  <1>. DEFINE b == Begin(s, m)
              a == Append(b, <<s, m>>)
              c == Begin(s, m + 1)
  <1>1. b \in [1 .. m -> Nat \X Nat] BY DEF Begin
  <1>2. b \in Seq(Nat \X Nat) /\ Len(b) = m BY <1>1
  <1>3. \A k \in 1 .. m : b[k] = <<s, k - 1>> BY DEF Begin
  <1>4. c = [k \in 1 .. m + 1 |-> <<s, k - 1>>] BY DEF Begin
  <1>5. <<s, m>> \in Nat \X Nat OBVIOUS
  <1>6. Begin(s, 0) = <<>> BY DEF Begin
  <1>. HIDE DEF b, c
  <1>7. a \in Seq(Nat \X Nat) /\ Len(a) = m + 1 BY <1>2, <1>5
  <1>8. \A k \in 1 .. m + 1 : a[k] = <<s, k - 1>>
    <2>1. \A k \in 1 .. m + 1 : a[k] = IF k = m + 1 THEN <<s, m>> ELSE b[k] BY <1>2
    <2>. QED BY <1>3, <2>1
  <1>9. a = [k \in 1 .. m + 1 |-> a[k]] BY <1>7
  <1>10. a = c BY <1>4, <1>8, <1>9
  <1>. QED BY <1>2, <1>6, <1>10 DEF b, c

\* The pointer that has been read leads on.
LEMMA PointerLeads ==
  ASSUME Orderly, NEW b \in Nat, NEW p, NEW c, Leads(b, p, c), p # <<>>
  PROVE  /\ Pointer(Begin(b, Words), Head(p)) \in Nat
         /\ Leads(Pointer(Begin(b, Words), Head(p)), Tail(p), c)
  <1>. DEFINE w == Begin(b, Words)
  <1>1. ASSUME NEW o, NEW d, Points(b, o, d) PROVE d \in Nat /\ d = Pointer(w, o)
    <2>1. o \div Bytes \in 0 .. Words - 1 /\ Words \in Nat /\ Pc1 = Words
      BY <1>1, WordsOK DEF Points
    <2>3. w[(o \div Bytes) + 1] = <<b, o \div Bytes>>
      <3>. DEFINE x == o \div Bytes
      <3>. HIDE DEF x
      <3>1. x + 1 \in 1 .. Words /\ (x + 1) - 1 = x BY <2>1 DEF x
      <3>2. w[x + 1] = <<b, x>> BY <3>1 DEF Begin
      <3>. QED BY <3>2 DEF x
    <2>4. w[(o \div Bytes) + 1] # Garbage BY <2>3 DEF Orderly, Format
    <2>5. index[b][o \div Bytes] \in Nat BY <1>1 DEF Points, Orderly, Format
    <2>. HIDE DEF w
    <2>. QED BY <1>1, <2>3, <2>4, <2>5 DEF Pointer, Points
  <1>. HIDE DEF w
  <1>2. CASE \E o : p = <<o>> /\ Points(b, o, c)
    <2>1. PICK o : p = <<o>> /\ Points(b, o, c) BY <1>2
    <2>2. Head(p) = o /\ Tail(p) = <<>> BY <2>1
    <2>. QED BY <1>1, <2>1, <2>2 DEF Leads, w
  <1>3. CASE \E o, q, d : p = <<o, q>> /\ Points(b, o, d) /\ Points(d, q, c)
    <2>1. PICK o, q, d : p = <<o, q>> /\ Points(b, o, d) /\ Points(d, q, c) BY <1>3
    <2>2. Head(p) = o /\ Tail(p) = <<q>> BY <2>1
    <2>. QED BY <1>1, <2>1, <2>2 DEF Leads, w
  <1>. QED BY <1>2, <1>3 DEF Leads

\* Nobody reads, and nothing has been read.
LEMMA StartFile == ASSUME Orderly, Init, CallsOK PROVE FileInv
  <1>1. drive = [status |-> "idle", lba |-> <<0, 0>>, sector |-> <<0, 0>>, left |-> 0]
    BY DEF Init, IdeInit, Disk
  <1>2. <<0, 0>> \in Lba BY DEF Lba
  <1>3. FileTypes
    BY <1>1, <1>2 DEF Init, IdeInit, NodeInit, FileTypes, Steps, Nowhere, CallsOK
  <1>4. \A t \in Thread : pc[t] = "user" BY DEF Init
  <1>5. Fits BY <1>1 DEF Init, NodeInit, Fits, Idle
  <1>. QED BY <1>3, <1>4, <1>5 DEF FileInv, OneReads, Stage, Delivers

\* A call begins, with nothing delivered.
LEMMA ReadInv == ASSUME Orderly, FileInv, NEW t \in Thread, Read(t), CallsOK' PROVE FileInv'
  <1>1. PICK a \in Buffers, n \in Lengths :
          /\ check_range(a, n)
          /\ offset <= Size
          /\ call' = [call EXCEPT ![t] = [NoCall EXCEPT !.buffer = a, !.len = n, !.n = n,
                                                        !.offset = offset]]
    BY DEF Read
  <1>2. /\ pc[t] = "user" /\ pc' = [pc EXCEPT ![t] = "loop"]
        /\ drive' = drive /\ asked' = asked /\ taken' = taken /\ cache' = cache
        /\ cache_num' = cache_num /\ path' = path /\ offset' = offset
    BY DEF Read, At, Goes, ideVars, nodeVars
  <1>3. \A u \in Thread \ {t} : pc[u] = "user" BY DEF Read, Turn, At, Orderly
  <1>4. call'[t].got = <<>> /\ call'[t].total_count = 0 /\ call'[t].offset = offset
    BY <1>1 DEF NoCall, FileInv, FileTypes
  <1>5. pc'[t] = "loop" BY <1>2 DEF FileInv, FileTypes
  <1>6. Stage(t)' BY <1>5 DEF Stage
  <1>7. offset \in Nat BY DEF FileInv, CallsOK
  <1>8. Delivers(t)'
    <2>1. <<>> = FileBytes(offset, 0) BY DEF FileBytes
    <2>. QED BY <1>2, <1>4, <1>5, <1>7, <2>1 DEF Delivers, At
  <1>9. FileTypes' BY <1>1, <1>2 DEF FileInv, FileTypes, Steps
  <1>10. Fits' BY <1>2, <1>3 DEF FileInv, Fits, Idle, Out
  <1>. QED BY <1>2, <1>3, <1>6, <1>8, <1>9, <1>10, OnlyOne DEF Steps

\* Who seeks does so between the calls of all.
LEMMA SeekInv == ASSUME Orderly, FileInv, NEW t \in Thread, Seek(t), CallsOK' PROVE FileInv'
  <1>1. /\ pc[t] = "user" /\ pc' = pc /\ call' = call
        /\ drive' = drive /\ asked' = asked /\ taken' = taken /\ cache' = cache
        /\ cache_num' = cache_num /\ path' = path
    BY DEF Seek, At, ideVars, nodeVars
  <1>2. \A u \in Thread : pc[u] = "user" BY <1>1 DEF Seek, Turn, At, Orderly
  <1>3. FileTypes' BY <1>1 DEF FileInv, FileTypes
  <1>4. Fits' BY <1>1, <1>2 DEF FileInv, Fits, Idle, Out
  <1>5. \A u \in Thread : Stage(u)' /\ Delivers(u)' BY <1>1, <1>2 DEF Stage, Delivers
  <1>6. OneReads' BY <1>1 DEF FileInv, OneReads
  <1>. QED BY <1>3, <1>4, <1>5, <1>6 DEF FileInv

\* A call returns, and leaves node and drive in order.
LEMMA AddInv == ASSUME Orderly, FileInv, NEW t \in Thread, Add(t), CallsOK' PROVE FileInv'
  <1>1. /\ pc[t] = "add" /\ pc' = [pc EXCEPT ![t] = "user"]
        /\ call' = [call EXCEPT ![t] = NoCall]
        /\ asked' = [asked EXCEPT ![t] = 0] /\ taken' = [taken EXCEPT ![t] = <<>>]
        /\ drive' = drive /\ cache' = cache /\ cache_num' = cache_num /\ path' = path
    BY DEF Add, At, Goes, nodeVars
  <1>2. (\A u \in Thread \ {t} : pc[u] = "user") /\ Fits BY <1>1, Alone DEF Out
  <1>3. pc'[t] = "user" BY <1>1 DEF FileInv, FileTypes
  <1>4. FileTypes' BY <1>1 DEF FileInv, FileTypes, Steps
  <1>5. Fits' BY <1>1, <1>2 DEF Fits, Idle
  <1>6. Stage(t)' /\ Delivers(t)' BY <1>3 DEF Stage, Delivers
  <1>. QED BY <1>1, <1>2, <1>4, <1>5, <1>6, OnlyOne DEF Steps

\* A read ends with all it asked for, or at the end of the file.
LEMMA EndInv ==
  ASSUME Orderly, FileInv, NEW t \in Thread, Ended(t) \/ Full(t), CallsOK' PROVE FileInv'
  <1>. DEFINE c == call[t]
  <1>1. CallOK(c) /\ offset \in Nat /\ Size \in Nat BY WordsOK DEF FileInv, CallsOK
  <1>2. Takes(c) \in 0 .. c.n BY <1>1, TakesSome DEF Orderly
  <1>3. pc[t] = "loop" BY DEF Ended, Full, At
  <1>4. /\ c.got = FileBytes(offset, c.total_count)
        /\ c.offset = offset + c.total_count
    BY <1>3 DEF FileInv, Delivers
  <1>5. Returns(t, c.total_count)
    <2>1. CASE Ended(t)
      <3>1. ~(ReadResult(c) < 0) BY <1>1, <1>2 DEF ReadResult, CallOK
      <3>. QED BY <2>1, <3>1 DEF Ended
    <2>2. CASE Full(t) BY <2>2 DEF Full
    <2>. QED BY <2>1, <2>2
  <1>6. c.total_count = Least(c.len, Size - offset)
    <2>1. CASE Full(t)
      <3>1. c.n = 0 BY <2>1 DEF Full
      <3>. QED BY <1>1, <1>4, <3>1 DEF CallOK, Least, UserRangeAssumption, Address
    <2>2. CASE Ended(t)
      <3>1. c.n > 0 /\ ReadResult(c) <= 0 BY <2>2 DEF Ended, Ends
      <3>2. c.offset = Size
        <4>1. ASSUME c.offset < Size PROVE FALSE
          <5>1. ReadResult(c) = Takes(c) BY <1>1, <4>1 DEF ReadResult, CallOK
          <5>2. Takes(c) > 0
            <6>1. block_size \in Nat /\ block_size > 0 BY WordsOK
            <6>2. c.offset % block_size < block_size /\ c.offset % block_size \in Nat
              BY <1>1, <6>1, Division DEF CallOK
            <6>. QED BY <1>1, <3>1, <4>1, <6>1, <6>2 DEF Takes, Least, CallOK
          <5>. QED BY <3>1, <5>1, <5>2, <1>2, <1>1 DEF CallOK
        <4>. QED BY <1>1, <4>1 DEF CallOK
      <3>. QED BY <1>1, <1>4, <3>1, <3>2 DEF CallOK, Least
    <2>. QED BY <2>1, <2>2
  <1>7. /\ call' = [call EXCEPT ![t].cnt = c.total_count]
        /\ pc' = [pc EXCEPT ![t] = "add"] /\ offset' = offset
        /\ drive' = drive /\ asked' = asked /\ taken' = taken /\ cache' = cache
        /\ cache_num' = cache_num /\ path' = path
    BY <1>5 DEF Returns, Goes, ideVars, nodeVars
  <1>8. (\A u \in Thread \ {t} : pc[u] = "user") /\ Fits BY <1>3, Alone DEF Out
  <1>9. pc'[t] = "add" BY <1>7 DEF FileInv, FileTypes
  <1>10. FileTypes' BY <1>7 DEF FileInv, FileTypes, Steps
  <1>11. Fits' BY <1>7, <1>8 DEF Fits, Idle
  <1>12. Stage(t)' BY <1>9 DEF Stage
  <1>13. Delivers(t)'
    <2>1. DOMAIN c = DOMAIN NoCall BY <1>1 DEF CallOK
    <2>2. /\ call'[t].got = c.got /\ call'[t].total_count = c.total_count
          /\ call'[t].offset = c.offset /\ call'[t].len = c.len /\ call'[t].cnt = c.total_count
      BY <1>7, <2>1 DEF FileInv, FileTypes, NoCall
    <2>. QED BY <1>4, <1>6, <1>7, <2>2 DEF Delivers
  <1>. QED BY <1>7, <1>8, <1>10, <1>11, <1>12, <1>13, OnlyOne DEF Steps

\* A block is found in the cache, or the way to it begins.
LEMMA LoopInv == ASSUME Orderly, FileInv, NEW t \in Thread, Loop(t), CallsOK' PROVE FileInv'
  <1>. DEFINE c == call[t]
              n == Block(t)
  <1>1. /\ pc[t] = "loop" /\ c.n > 0 /\ ReadResult(c) > 0 /\ ReadBlock(t, n)
        /\ offset' = offset /\ call' = call
    <2>1. CallOK(c) BY DEF FileInv, CallsOK
    <2>2. Takes(c) \in 0 .. c.n BY <2>1, TakesSome DEF Orderly
    <2>. QED BY <2>1, <2>2 DEF Loop, At, Ends, Block, ReadResult, CallOK
  <1>2. (\A u \in Thread \ {t} : pc[u] = "user") /\ Fits BY <1>1, Alone DEF Out
  <1>3. CallOK(c) /\ c.offset \in Nat /\ c.offset < Size
    <2>1. CallOK(c) BY DEF FileInv, CallsOK
    <2>2. c.offset \in Nat /\ c.offset <= Size /\ Size \in Nat BY <2>1, WordsOK DEF CallOK
    <2>3. c.offset # Size BY <1>1, <2>2 DEF ReadResult
    <2>. QED BY <2>1, <2>2, <2>3
  <1>4. n \in Nat /\ n * block_size < Size
    <2>. DEFINE s == block_size
    <2>1. s \in Nat /\ s > 0 /\ Size \in Nat BY WordsOK
    <2>. HIDE DEF s
    <2>2. c.offset \div s \in Nat /\ s * (c.offset \div s) <= c.offset BY <1>3, <2>1, Division
    <2>. QED BY <1>3, <2>1, <2>2 DEF Block, s
  <1>5. Delivers(t)
    BY DEF FileInv
  <1>. HIDE DEF n
  <1>6. CASE n = cache_num
    <2>1. /\ pc' = [pc EXCEPT ![t] = "copy"]
          /\ drive' = drive /\ asked' = asked /\ taken' = taken /\ cache' = cache
          /\ cache_num' = cache_num /\ path' = path
      BY <1>1, <1>6 DEF ReadBlock, Goes, ideVars, nodeVars
    <2>2. pc'[t] = "copy" BY <2>1 DEF FileInv, FileTypes
    <2>3. FileTypes' BY <1>1, <2>1 DEF FileInv, FileTypes, Steps
    <2>4. cache = Content(FileBlock(n)) BY <1>2, <1>4, <1>6 DEF Fits, Nowhere
    <2>5. Stage(t)'
      BY <1>1, <1>2, <1>3, <1>6, <2>1, <2>2, <2>4 DEF Stage, Fits, Idle, Block, n
    <2>6. Delivers(t)' BY <1>1, <1>5, <2>2 DEF Delivers, At
    <2>. QED BY <1>2, <2>1, <2>3, <2>5, <2>6, OnlyOne DEF Steps
  <1>7. CASE n # cache_num
    <2>1. /\ pc' = [pc EXCEPT ![t] = "wait"] /\ path' = [path EXCEPT ![t] = Offsets(n)]
          /\ asked' = [asked EXCEPT ![t] = Root(n)] /\ taken' = [taken EXCEPT ![t] = <<>>]
          /\ drive' = drive /\ cache' = cache /\ cache_num' = n
      BY <1>1, <1>7 DEF ReadBlock, Claims, ReadSector, Goes
    <2>2. pc'[t] = "wait" /\ path'[t] = Offsets(n) /\ asked'[t] = Root(n) /\ taken'[t] = <<>>
      BY <2>1 DEF FileInv, FileTypes
    <2>3. FileTypes' BY <1>1, <1>4, <2>1 DEF FileInv, FileTypes, Steps
    <2>4. Root(n) \in Nat /\ Leads(Root(n), Offsets(n), FileBlock(n)) BY <1>4, WayLeads
    <2>5. Fetching(t)' BY <1>1, <1>3, <2>1, <2>2, <2>4 DEF Fetching, Block, n
    <2>6. Stage(t)' BY <1>2, <2>1, <2>2, <2>5 DEF Stage, Fits, Idle
    <2>7. Delivers(t)' BY <1>1, <1>5, <2>2 DEF Delivers, At
    <2>. QED BY <1>2, <2>1, <2>3, <2>6, <2>7, OnlyOne DEF Steps
  <1>. QED BY <1>6, <1>7

\* An index block has been read.
LEMMA FollowInv == ASSUME Orderly, FileInv, NEW t \in Thread, Follow(t), UNCHANGED <<offset, call>>, CallsOK'
  PROVE FileInv'
  <1>. DEFINE p == Pointer(taken[t], Head(path[t]))
  <1>1. /\ pc[t] = "walk" /\ path[t] # <<>> /\ pc' = [pc EXCEPT ![t] = "wait"]
        /\ asked' = [asked EXCEPT ![t] = p] /\ taken' = [taken EXCEPT ![t] = <<>>]
        /\ path' = [path EXCEPT ![t] = Tail(@)]
        /\ drive' = drive /\ cache' = cache /\ cache_num' = cache_num
        /\ offset' = offset /\ call' = call
    BY DEF Follow, At, ReadSector, Goes
  <1>2. \A u \in Thread \ {t} : pc[u] = "user" BY <1>1, Alone
  <1>3. Fetching(t) /\ Fetched(t, Words) /\ Idle BY <1>1 DEF FileInv, Stage
  <1>4. p \in Nat /\ Leads(p, Tail(path[t]), FileBlock(Block(t)))
    BY <1>1, <1>3, PointerLeads DEF Fetching, Fetched
  <1>5. pc'[t] = "wait" /\ path'[t] = Tail(path[t]) /\ asked'[t] = p /\ taken'[t] = <<>>
    BY <1>1 DEF FileInv, FileTypes
  <1>. HIDE DEF p
  <1>6. FileTypes' BY <1>1 DEF FileInv, FileTypes, Steps
  <1>7. Fetching(t)' BY <1>1, <1>3, <1>4, <1>5 DEF Fetching, Block
  <1>8. Stage(t)' BY <1>1, <1>3, <1>5, <1>7 DEF Stage, Idle
  <1>9. Delivers(t)' BY <1>1, <1>5 DEF FileInv, Delivers, At
  <1>. QED BY <1>1, <1>2, <1>6, <1>8, <1>9, OnlyOne DEF Steps

\* The block has been read.
LEMMA FilledInv == ASSUME Orderly, FileInv, NEW t \in Thread, Filled(t), UNCHANGED <<offset, call>>, CallsOK'
  PROVE FileInv'
  <1>1. /\ pc[t] = "walk" /\ path[t] = <<>> /\ pc' = [pc EXCEPT ![t] = "copy"]
        /\ drive' = drive /\ asked' = asked /\ taken' = taken /\ cache' = cache
        /\ cache_num' = cache_num /\ path' = path
        /\ offset' = offset /\ call' = call
    BY DEF Filled, At, Goes, ideVars, nodeVars
  <1>2. \A u \in Thread \ {t} : pc[u] = "user" BY <1>1, Alone
  <1>3. Fetching(t) /\ Fetched(t, Words) /\ Idle BY <1>1 DEF FileInv, Stage
  <1>4. asked[t] = FileBlock(Block(t)) BY <1>1, <1>3 DEF Fetching, Leads
  <1>5. cache = Content(asked[t])
    BY <1>1, <1>3 DEF Fetched, Content, FileInv, FileTypes
  <1>6. pc'[t] = "copy" BY <1>1 DEF FileInv, FileTypes
  <1>7. FileTypes' BY <1>1 DEF FileInv, FileTypes, Steps
  <1>8. Stage(t)' BY <1>1, <1>3, <1>4, <1>5, <1>6 DEF Stage, Idle, Fetching, Block
  <1>9. Delivers(t)' BY <1>1, <1>6 DEF FileInv, Delivers, At
  <1>. QED BY <1>1, <1>2, <1>7, <1>8, <1>9, OnlyOne DEF Steps

\* The driver's own steps but for the transfer.
LEMMA DrivingInv == ASSUME Orderly, FileInv, NEW t \in Thread, Driving(t), UNCHANGED nodeVars,
         UNCHANGED <<offset, call>>, CallsOK'
  PROVE FileInv'
  <1>1. /\ asked' = asked /\ taken' = taken /\ cache' = cache
        /\ cache_num' = cache_num /\ path' = path
        /\ offset' = offset /\ call' = call
    BY DEF Driving, WaitForDrive, Low, High, Command, Poll, Done, ideVars, nodeVars
  <1>2. pc[t] \in {"wait", "low", "high", "command", "poll", "data"}
    BY DEF Driving, WaitForDrive, Low, High, Command, Poll, Done, At
  <1>3. \A u \in Thread \ {t} : pc[u] = "user" BY <1>2, Alone
  <1>4. Fetching(t) /\ asked[t] \in Nat BY <1>2 DEF FileInv, Stage, Fetching
  <1>5. Fetching(t)' BY <1>1, <1>4 DEF Fetching, Block
  <1>6. ASSUME NEW q \in {"low", "high", "command", "poll", "data", "walk"}, pc' = [pc EXCEPT ![t] = q],
               drive' \in [status : {"idle", "busy", "ready"}, lba : Lba, sector : Lba, left : Nat],
               pc'[t] = q => Stage(t)'
        PROVE  FileInv'
    <2>1. pc'[t] = q BY <1>6 DEF FileInv, FileTypes
    <2>2. FileTypes' BY <1>1, <1>6 DEF FileInv, FileTypes, Steps
    <2>3. Delivers(t)' BY <1>1, <1>2, <2>1 DEF FileInv, Delivers, At
    <2>4. q \in Steps /\ q \notin {"user", "loop", "add"} BY DEF Steps
    <2>. QED BY ONLY <1>3, <1>6, <2>1, <2>2, <2>3, <2>4, CallsOK', FileInv, t \in Thread, OnlyOne
  <1>7. drive \in [status : {"idle", "busy", "ready"}, lba : Lba, sector : Lba, left : Nat]
        /\ Stage(t)
    BY DEF FileInv, FileTypes
  <1>8. Words \in Nat /\ Words > 0 /\ Part \in Nat /\ Part > 0 BY WordsOK
  <1>9. /\ asked[t] % Part \in Nat /\ asked[t] \div Part \in Nat
        /\ (asked[t] % Part) + Part * (asked[t] \div Part) = asked[t]
    <2>. DEFINE a == asked[t]
    <2>1. a \in Nat BY <1>4
    <2>. HIDE DEF a
    <2>2. a \div Part \in Nat /\ a % Part \in Nat /\ a = Part * (a \div Part) + (a % Part)
      BY ONLY <1>8, <2>1, Division
    <2>3. Part * (a \div Part) \in Nat BY <1>8, <2>2
    <2>. QED BY <2>2, <2>3 DEF a
  <1>10. CASE WaitForDrive(t)
    <2>1. pc[t] = "wait" /\ pc' = [pc EXCEPT ![t] = "low"] /\ drive' = drive
      BY <1>10 DEF WaitForDrive, At, Goes, ideVars
    <2>2. pc'[t] = "low" => Stage(t)' BY <1>1, <1>5, <1>7, <2>1 DEF Stage, Idle
    <2>. QED BY <1>6, <1>7, <2>1, <2>2
  <1>11. CASE Low(t)
    <2>1. /\ pc[t] = "low" /\ pc' = [pc EXCEPT ![t] = "high"]
          /\ drive' = [drive EXCEPT !.lba[1] = asked[t] % Part]
      BY <1>11 DEF Low, At, Goes
    <2>2. /\ drive'.status = drive.status /\ drive'.lba[1] = asked[t] % Part
          /\ drive' \in [status : {"idle", "busy", "ready"}, lba : Lba, sector : Lba, left : Nat]
      BY <1>7, <1>9, <2>1 DEF Lba
    <2>3. pc'[t] = "high" => Stage(t)' BY <1>1, <1>5, <1>7, <2>1, <2>2 DEF Stage, Idle
    <2>. QED BY <1>6, <2>1, <2>2, <2>3
  <1>12. CASE High(t)
    <2>1. /\ pc[t] = "high" /\ pc' = [pc EXCEPT ![t] = "command"]
          /\ drive' = [drive EXCEPT !.lba[2] = asked[t] \div Part]
      BY <1>12 DEF High, At, Goes
    <2>2. /\ drive'.status = drive.status /\ drive'.lba[2] = asked[t] \div Part
          /\ drive'.lba[1] = drive.lba[1]
          /\ drive' \in [status : {"idle", "busy", "ready"}, lba : Lba, sector : Lba, left : Nat]
      BY <1>7, <1>9, <2>1 DEF Lba
    <2>3. pc'[t] = "command" => Stage(t)' BY <1>1, <1>5, <1>7, <2>1, <2>2 DEF Stage, Idle
    <2>. QED BY <1>6, <2>1, <2>2, <2>3
  <1>13. CASE Command(t)
    <2>1. /\ pc[t] = "command" /\ pc' = [pc EXCEPT ![t] = "poll"]
          /\ drive' = [status |-> "busy", lba |-> drive.lba, sector |-> drive.lba, left |-> Words]
      BY <1>13 DEF Command, At, Goes, Commanded, Disk
    <2>2. drive' \in [status : {"idle", "busy", "ready"}, lba : Lba, sector : Lba, left : Nat]
      BY <1>7, <1>8, <2>1
    <2>3. Number(drive.lba) = asked[t] BY <1>7, <1>9, <2>1 DEF Number, Stage
    <2>4. taken[t] = <<>> BY <1>7, <2>1 DEF Stage
    <2>5. pc'[t] = "poll" => Stage(t)' BY <1>1, <1>5, <2>1, <2>3, <2>4 DEF Stage, Idle, Number
    <2>. QED BY <1>6, <2>1, <2>2, <2>5
  <1>14. CASE Poll(t)
    <2>1. /\ pc[t] = "poll" /\ pc' = [pc EXCEPT ![t] = "data"] /\ drive' = drive
          /\ drive.status = "ready"
      BY <1>14 DEF Poll, At, Goes, Ready, Data, ideVars
    <2>2. taken[t] = Begin(asked[t], 0) /\ Number(drive.sector) = asked[t] /\ drive.left = Words
      BY <1>4, <1>7, <2>1, BeginsWith DEF Stage
    <2>3. Fetched(t, 0)' BY <1>1, <2>2 DEF Fetched
    <2>4. 0 \in 0 .. Words /\ 0 # Words /\ Words = Words - 0 BY <1>8
    <2>5. pc'[t] = "data" => Stage(t)' BY <1>1, <1>5, <2>1, <2>2, <2>3, <2>4 DEF Stage
    <2>. QED BY <1>6, <1>7, <2>1, <2>5
  <1>15. CASE Done(t)
    <2>1. /\ pc[t] = "data" /\ pc' = [pc EXCEPT ![t] = "walk"] /\ drive' = drive
          /\ ~(Len(taken[t]) < Words)
      BY <1>15 DEF Done, At, Goes, More, ideVars
    <2>2. PICK m \in 0 .. Words :
            /\ Fetched(t, m)
            /\ IF m = Words THEN Idle
               ELSE /\ drive.status = "ready" /\ drive.left = Words - m
                    /\ Number(drive.sector) = asked[t]
      BY <1>7, <2>1 DEF Stage
    <2>3. Len(taken[t]) = m BY <1>4, <2>2, BeginsWith DEF Fetched
    <2>4. m = Words BY <1>8, <2>1, <2>3
    <2>5. Fetched(t, Words)' BY <1>1, <2>2, <2>4 DEF Fetched
    <2>6. pc'[t] = "walk" => Stage(t)' BY <1>5, <2>1, <2>2, <2>4, <2>5 DEF Stage, Idle
    <2>. QED BY <1>6, <1>7, <2>1, <2>6
  <1>. QED BY <1>10, <1>11, <1>12, <1>13, <1>14, <1>15 DEF Driving

\* A word is transferred, and is the next of the sector.
LEMMA LoadInv == ASSUME Orderly, FileInv, NEW t \in Thread, Load(t), UNCHANGED <<offset, call>>, CallsOK'
  PROVE FileInv'
  <1>1. /\ pc[t] = "data" /\ Len(taken[t]) < Words
        /\ taken' = [taken EXCEPT ![t] = Append(@, NextWord(drive))]
        /\ drive' = Left(drive) /\ pc' = pc /\ asked' = asked
        /\ cache' = IF path[t] = <<>>
                    THEN [cache EXCEPT ![Len(taken[t]) + 1] = NextWord(drive)] ELSE cache
        /\ cache_num' = cache_num /\ path' = path /\ offset' = offset /\ call' = call
    BY DEF Load, Transfer, At, More
  <1>2. \A u \in Thread \ {t} : pc[u] = "user" BY <1>1, Alone
  <1>3. Words \in Nat /\ Words > 0 BY WordsOK
  <1>4. Fetching(t) /\ asked[t] \in Nat BY <1>1 DEF FileInv, Stage, Fetching
  <1>5. PICK m \in 0 .. Words :
          /\ Fetched(t, m)
          /\ IF m = Words THEN Idle
             ELSE /\ drive.status = "ready" /\ drive.left = Words - m
                  /\ Number(drive.sector) = asked[t]
    BY <1>1 DEF FileInv, Stage
  <1>6. Len(taken[t]) = m /\ m \in Nat /\ m < Words
    <2>1. m \in Nat /\ m <= Words BY <1>3, <1>5
    <2>2. Len(Begin(asked[t], m)) = m BY <1>4, <2>1, BeginsWith
    <2>3. taken[t] = Begin(asked[t], m) BY <1>5 DEF Fetched
    <2>. QED BY <1>1, <2>1, <2>2, <2>3
  <1>7. drive.status = "ready" /\ drive.left = Words - m /\ Number(drive.sector) = asked[t]
    BY <1>5, <1>6
  <1>8. NextWord(drive) = <<asked[t], m>> BY <1>3, <1>6, <1>7 DEF NextWord
  <1>9. taken'[t] = Begin(asked[t], m + 1)
    BY <1>1, <1>4, <1>5, <1>6, <1>8, BeginsWith DEF Fetched, FileInv, FileTypes
  <1>10. cache' = [k \in 1 .. Words |-> cache'[k]]
    BY <1>1 DEF FileInv, FileTypes
  <1>11. path[t] = <<>> => \A k \in 1 .. m + 1 : cache'[k] = <<asked[t], k - 1>>
    <2>. SUFFICES ASSUME path[t] = <<>>, NEW k \in 1 .. m + 1 PROVE cache'[k] = <<asked[t], k - 1>>
      OBVIOUS
    <2>1. k \in 1 .. Words /\ (k # m + 1 => k \in 1 .. m) BY <1>3, <1>6
    <2>2. cache' = [cache EXCEPT ![m + 1] = <<asked[t], m>>] BY <1>1, <1>6, <1>8
    <2>3. cache'[k] = IF k = m + 1 THEN <<asked[t], m>> ELSE cache[k]
      BY <2>1, <2>2 DEF FileInv, FileTypes
    <2>4. CASE k = m + 1
      <3>1. k - 1 = m BY <1>6, <2>4
      <3>. QED BY <2>3, <2>4, <3>1
    <2>5. CASE k # m + 1 BY <1>5, <2>1, <2>3, <2>5 DEF Fetched
    <2>. QED BY <2>4, <2>5
  <1>12. Fetched(t, m + 1)' BY <1>1, <1>9, <1>11 DEF Fetched
  <1>13. drive \in [status : {"idle", "busy", "ready"}, lba : Lba, sector : Lba, left : Nat]
    BY DEF FileInv, FileTypes
  <1>14. /\ drive' \in [status : {"idle", "busy", "ready"}, lba : Lba, sector : Lba, left : Nat]
         /\ IF m + 1 = Words THEN drive'.status = "idle"
            ELSE /\ drive'.status = "ready" /\ drive'.left = Words - (m + 1)
                 /\ Number(drive'.sector) = asked[t]
    <2>1. CASE m + 1 = Words
      <3>1. drive.left = 1 BY <1>6, <1>7, <2>1
      <3>2. drive' = [drive EXCEPT !.status = "idle", !.left = 0] BY <1>1, <1>7, <3>1 DEF Left
      <3>. QED BY <1>13, <2>1, <3>2
    <2>2. CASE m + 1 # Words
      <3>1. drive.left # 1 /\ drive.left - 1 = Words - (m + 1) /\ drive.left - 1 \in Nat
        BY <1>3, <1>6, <1>7, <2>2
      <3>2. drive' = [drive EXCEPT !.left = @ - 1] BY <1>1, <1>7, <3>1 DEF Left
      <3>3. drive'.status = "ready" /\ drive'.left = drive.left - 1 /\ drive'.sector = drive.sector
        BY <1>7, <1>13, <3>2
      <3>4. drive' \in [status : {"idle", "busy", "ready"}, lba : Lba, sector : Lba, left : Nat]
        BY <1>13, <3>1, <3>2
      <3>. QED BY <1>7, <2>2, <3>1, <3>3, <3>4
    <2>. QED BY <2>1, <2>2
  <1>15. pc' = [pc EXCEPT ![t] = "data"] /\ pc'[t] = "data" BY <1>1 DEF FileInv, FileTypes
  <1>16. FileTypes' BY <1>1, <1>10, <1>14 DEF FileInv, FileTypes
  <1>17. Fetching(t)' BY <1>1, <1>4 DEF Fetching, Block
  <1>18. m + 1 \in 0 .. Words BY <1>3, <1>6
  <1>19. Stage(t)'
    <2>1. (\E k \in 0 .. Words :
             /\ Fetched(t, k)
             /\ IF k = Words THEN Idle
                ELSE /\ drive.status = "ready" /\ drive.left = Words - k
                     /\ Number(drive.sector) = asked[t])'
      BY <1>1, <1>12, <1>14, <1>18 DEF Idle, Number
    <2>. QED BY <1>15, <1>17, <2>1 DEF Stage
  <1>20. Delivers(t)' BY <1>1, <1>15 DEF FileInv, Delivers, At
  <1>. QED BY <1>2, <1>15, <1>16, <1>19, <1>20, OnlyOne DEF Steps

\* What a block has of the call goes to the caller.
LEMMA CopyInv == ASSUME Orderly, FileInv, NEW t \in Thread, Copy(t), CallsOK' PROVE FileInv'
  <1>. DEFINE d == call[t]
              k == Takes(d)
              s == block_size
              got == [i \in 0 .. d.total_count + k - 1 |->
                         IF i < d.total_count THEN d.got[i]
                         ELSE FromOffset(d, i - d.total_count)]
              c == [d EXCEPT !.total_count = @ + k, !.offset = @ + k, !.n = @ - k, !.got = got]
  <1>1. /\ pc[t] = "copy" /\ pc' = [pc EXCEPT ![t] = "loop"] /\ call' = [call EXCEPT ![t] = c]
        /\ drive' = drive /\ asked' = asked /\ taken' = taken /\ cache' = cache
        /\ cache_num' = cache_num /\ path' = path /\ offset' = offset
    BY DEF Copy, At, Goes, ideVars, nodeVars
  <1>2. \A u \in Thread \ {t} : pc[u] = "user" BY <1>1, Alone
  <1>3. /\ d.n > 0 /\ d.offset < Size /\ Idle
        /\ cache_num = Block(t) /\ cache = Content(FileBlock(Block(t)))
        /\ d.got = FileBytes(offset, d.total_count)
        /\ d.offset = offset + d.total_count
    BY <1>1 DEF FileInv, Stage, Delivers
  <1>4. CallOK(d) /\ offset \in Nat /\ s \in Nat /\ s > 0 BY WordsOK DEF FileInv, CallsOK
  <1>5. k \in 0 .. d.n BY <1>4, TakesSome DEF Orderly
  <1>6. k <= s - (d.offset % s)
    <2>1. d.offset % s \in Nat /\ d.offset % s < s BY <1>4, Division DEF CallOK
    <2>2. Size \in Nat BY WordsOK
    <2>. HIDE DEF s
    <2>3. \A x, y \in Int : Least(x, y) <= x BY DEF Least
    <2>4. s - (d.offset % s) \in Int /\ Least(d.n, Size - d.offset) \in Int
      BY <1>4, <2>1, <2>2 DEF Least, CallOK
    <2>. QED BY <2>3, <2>4 DEF Takes, s
  <1>7. ASSUME NEW i \in 0 .. k - 1 PROVE FromOffset(d, i) = FileByte(d.offset + i)
    <2>1. i \in Nat /\ i < s - (d.offset % s) /\ d.offset \in Nat
      <3>1. d.offset % s \in Nat BY <1>4, Division DEF CallOK
      <3>2. d.n \in Nat BY <1>4 DEF CallOK
      <3>. HIDE DEF k, s, d
      <3>. QED BY <1>4, <1>5, <1>6, <3>1, <3>2 DEF CallOK
    <2>2. (d.offset + i) \div s = d.offset \div s /\ (d.offset + i) % s = (d.offset % s) + i
      BY <1>4, <2>1, SameBlock
    <2>. QED BY <1>3, <2>2 DEF FromOffset, FileByte, Block
  <1>8. pc'[t] = "loop" /\ call'[t] = c BY <1>1 DEF FileInv, FileTypes
  <1>9. c.got = got /\ c.total_count = d.total_count + k /\ c.offset = d.offset + k
    BY <1>4 DEF CallOK, NoCall
  <1>10. got = FileBytes(offset, d.total_count + k)
    <2>1. d.total_count \in Nat /\ k \in Nat BY <1>4, <1>5 DEF CallOK
    <2>2. ASSUME NEW i \in 0 .. d.total_count + k - 1 PROVE got[i] = FileByte(offset + i)
      <3>1. CASE i < d.total_count
        <4>1. i \in 0 .. d.total_count - 1 BY <2>1, <3>1
        <4>2. d.got[i] = FileByte(offset + i) BY <1>3, <4>1 DEF FileBytes
        <4>. QED BY <3>1, <4>2
      <3>2. CASE ~(i < d.total_count)
        <4>. DEFINE j == i - d.total_count
        <4>1. j \in 0 .. k - 1 /\ d.offset + j = offset + i
          <5>. HIDE DEF k
          <5>. QED BY <1>3, <1>4, <2>1, <3>2
        <4>2. got[i] = FromOffset(d, j) BY <3>2
        <4>. QED BY <1>7, <4>1, <4>2
      <3>. QED BY <3>1, <3>2
    <2>3. got = [i \in 0 .. d.total_count + k - 1 |-> got[i]] OBVIOUS
    <2>. HIDE DEF got, k, d
    <2>4. d.total_count + k - 1 = (d.total_count + k) - 1 BY <2>1
    <2>5. got = [i \in 0 .. d.total_count + k - 1 |-> FileByte(offset + i)] BY <2>2, <2>3
    <2>. QED BY ONLY <2>4, <2>5 DEF FileBytes
  <1>11. d.offset + k = offset + (d.total_count + k) /\ d.total_count + k \in Nat
    <2>1. d.total_count \in Nat /\ k \in Nat BY <1>4, <1>5 DEF CallOK
    <2>. HIDE DEF k
    <2>. QED BY <1>3, <1>4, <2>1
  <1>. HIDE DEF got, c, k
  <1>12. Delivers(t)'
    <2>1. call'[t].got = FileBytes(offset', call'[t].total_count) BY ONLY <1>1, <1>8, <1>9, <1>10
    <2>2. call'[t].offset = offset' + call'[t].total_count BY ONLY <1>1, <1>8, <1>9, <1>11
    <2>. QED BY <1>1, <1>8, <2>1, <2>2 DEF Delivers, At
  <1>13. Fits' BY <1>1, <1>3 DEF Fits, Idle
  <1>14. Stage(t)' BY <1>8 DEF Stage
  <1>15. FileTypes' BY <1>1 DEF FileInv, FileTypes, Steps
  <1>. QED BY <1>1, <1>2, <1>12, <1>13, <1>14, <1>15, OnlyOne DEF Steps

\* The drive answers who asked it.
LEMMA AnswerInv == ASSUME Orderly, FileInv, Drive, CallsOK' PROVE FileInv'
  <1>1. /\ drive.status = "busy" /\ drive' = [drive EXCEPT !.status = "ready"]
        /\ pc' = pc /\ asked' = asked /\ taken' = taken /\ cache' = cache
        /\ cache_num' = cache_num /\ path' = path /\ offset' = offset /\ call' = call
    BY DEF Drive, Answer, Busy, nodeVars
  <1>2. /\ drive \in [status : {"idle", "busy", "ready"}, lba : Lba, sector : Lba, left : Nat]
        /\ ~Idle
    BY <1>1 DEF FileInv, FileTypes, Idle
  <1>3. /\ drive' \in [status : {"idle", "busy", "ready"}, lba : Lba, sector : Lba, left : Nat]
        /\ drive'.status = "ready" /\ drive'.sector = drive.sector /\ drive'.left = drive.left
    BY <1>1, <1>2
  <1>4. FileTypes' BY <1>1, <1>3 DEF FileInv, FileTypes
  <1>5. \A t \in Thread : Stage(t)'
    <2>. SUFFICES ASSUME NEW t \in Thread PROVE Stage(t)' OBVIOUS
    <2>1. pc[t] \notin {"wait", "low", "high", "command", "data", "walk", "copy"}
      <3>1. Stage(t) BY DEF FileInv
      <3>2. drive.status # "ready" BY <1>1
      <3>. QED BY <1>2, <3>1, <3>2 DEF Stage
    <2>2. pc[t] = "poll" => Fetching(t)' BY <1>1 DEF FileInv, Stage, Fetching, Block
    <2>. QED BY <1>1, <1>3, <2>1, <2>2 DEF FileInv, Stage, Number, Idle
  <1>6. \A t \in Thread : Delivers(t)' BY <1>1 DEF FileInv, Delivers, At
  <1>7. ~\A t \in Thread : Out(t)' BY <1>1, <1>2 DEF FileInv, Fits, Out
  <1>8. OneReads' BY <1>1 DEF FileInv, OneReads
  <1>. QED BY <1>4, <1>5, <1>6, <1>7, <1>8 DEF FileInv

\* When callers take turns and the file is one read_block can read: who reads is
\* alone in node, drive and cache, and is on the way to the block it claimed (ext2.cc:6-64, ide.cc:60-90).
THEOREM FileInvariant == ASSUME Format, InTurns PROVE Spec => []FileInv
  <1>. USE IdeAssumption, NodeAssumption, UserRangeAssumption, FileReadAssumption
       DEF Assumptions
  <1>0. Orderly BY DEF Orderly
  <1>1. Init => FileInv
    <2>. SUFFICES ASSUME Init PROVE FileInv OBVIOUS
    <2>1. \A t \in Thread : call[t] = NoCall BY DEF Init
    <2>2. CallsOK BY <2>1, NoCallOK DEF Init, CallsOK
    <2>. QED BY <1>0, <2>2, StartFile
  <1>2. FileInv /\ [Next]_vars => FileInv'
    <2>. SUFFICES ASSUME FileInv, [Next]_vars PROVE FileInv' OBVIOUS
    <2>1. CallsOK' BY CallsStep DEF FileInv
    <2>2. CASE UNCHANGED vars
      <3>1. /\ drive' = drive /\ pc' = pc /\ asked' = asked /\ taken' = taken /\ cache' = cache
            /\ cache_num' = cache_num /\ path' = path /\ offset' = offset /\ call' = call
        BY <2>2 DEF vars
      <3>2. FileTypes' /\ OneReads' BY <3>1 DEF FileInv, FileTypes, OneReads
      <3>3. \A t \in Thread : Stage(t)'
        BY <3>1 DEF FileInv, Stage, Fetching, Block, Fetched, Idle, Number
      <3>4. \A t \in Thread : Delivers(t)' BY <3>1 DEF FileInv, Delivers, At
      <3>5. (\A t \in Thread : Out(t)') => Fits' BY <3>1 DEF FileInv, Out, Fits, Idle
      <3>. QED BY <2>1, <3>2, <3>3, <3>4, <3>5 DEF FileInv
    <2>3. CASE Drive BY <1>0, <2>1, <2>3, AnswerInv
    <2>4. ASSUME NEW t \in Thread, Read(t) \/ Seek(t) \/ Step(t) PROVE FileInv'
      <3>1. CASE Read(t) BY <1>0, <2>1, <3>1, ReadInv
      <3>2. CASE Seek(t) BY <1>0, <2>1, <3>2, SeekInv
      <3>3. CASE Loop(t) BY <1>0, <2>1, <3>3, LoopInv
      <3>4. CASE Ended(t) \/ Full(t) BY <1>0, <2>1, <3>4, EndInv
      <3>5. CASE Copy(t) BY <1>0, <2>1, <3>5, CopyInv
      <3>6. CASE Add(t) BY <1>0, <2>1, <3>6, AddInv
      <3>7. CASE Below(t)
        <4>1. CASE Follow(t) BY <1>0, <2>1, <3>7, <4>1, FollowInv DEF Below
        <4>2. CASE Load(t) BY <1>0, <2>1, <3>7, <4>2, LoadInv DEF Below
        <4>3. CASE Filled(t) BY <1>0, <2>1, <3>7, <4>3, FilledInv DEF Below
        <4>4. CASE Driving(t) /\ UNCHANGED nodeVars
          BY <1>0, <2>1, <3>7, <4>4, DrivingInv DEF Below
        <4>. QED BY <3>7, <4>1, <4>2, <4>3, <4>4 DEF Below, Walking
      <3>. QED BY <2>4, <3>1, <3>2, <3>3, <3>4, <3>5, <3>6, <3>7 DEF Step
    <2>. QED BY <2>2, <2>3, <2>4 DEF Next
  <1>. QED BY <1>1, <1>2, PTL DEF Spec

\* The bytes a program reads are the file's from the offset on, and as many as there are of
\* those it asked for (block_io.h:46-51).
THEOREM ReadsDeliver == ASSUME Format, InTurns PROVE Spec => []BytesDelivered
  <1>1. FileInv => BytesDelivered
    BY DEF FileInv, Delivers, FileBytes, BytesDelivered, CallsOK, CallOK
  <1>. QED BY <1>1, FileInvariant, PTL

\* A read leaves the cache with the block it is said to have, and no word in the drive
\* (ext2.cc:10, ide.cc:84).
THEOREM ReadsLeaveOrder == ASSUME Format, InTurns PROVE Spec => []LeftInOrder
  <1>1. FileInv => LeftInOrder BY DEF FileInv, Fits, Idle, LeftInOrder
  <1>. QED BY <1>1, FileInvariant, PTL
=============================================================================
