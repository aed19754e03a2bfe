-------------------------------- MODULE Node --------------------------------
(***************************************************************************)
(* Reading the blocks of a file (Node::read_block, src/kernel/ext2.cc).    *)
(* The i-node names the first blocks of the file and the roots of three    *)
(* trees of index blocks, one, two and three levels deep; the node keeps   *)
(* the block it read last, and reads it in place.  Every ide->read_all on  *)
(* the way goes through the driver (module Ide), where the thread yields.  *)
(* A block of the file system is one sector here.                          *)
(*                                                                         *)
(* index[b] are the pointers in an index block b of the disk.  Four bytes  *)
(* read at a place that is not a pointer's are Junk.                       *)
(***************************************************************************)
EXTENDS Ide

CONSTANTS Direct,      \* blocks the i-node names itself (12)
          data,        \* the i-node's block numbers: Direct of them and three roots
          index,       \* the index blocks
          Junk         \* a sector without a pointer

Bytes == 4                     \* sizeof(uint32_t)
block_size == Words * Bytes
Pc1 == Words                   \* block_size / sizeof(uint32_t)
Pc2 == Pc1 * Pc1

ASSUME NodeAssumption ==
    /\ Direct \in Nat
    /\ DOMAIN data = 0 .. Direct + 2
    /\ \A b \in DOMAIN index : DOMAIN index[b] = 0 .. Pc1 - 1

VARIABLES cache,     \* the words the node keeps
          cache_num, \* the number, in the file, of the block they are said to be
          path       \* path[t]: the byte offsets t still has to follow

nodeVars == <<cache, cache_num, path>>

Nowhere == -1   \* ~0

\* The pointer at a byte offset of an index block, as it was read from the disk.
Pointer(words, o) ==
    LET b == words[o \div Bytes + 1][1]
        k == words[o \div Bytes + 1][2]
    IN  IF words[o \div Bytes + 1] # Garbage /\ b \in DOMAIN index /\ o % Bytes = 0
        THEN index[b][k] ELSE Junk

\* The root for block n, and the offsets on the way from it.
Root(n) ==
    IF n < Direct THEN data[n]
    ELSE IF n < Direct + Pc1 THEN data[Direct]
    ELSE IF n < Direct + Pc1 + Pc2 THEN data[Direct + 1]
    ELSE data[Direct + 2]

Offsets(n) ==
    LET single == n - Direct
        double == single - Pc1
        treble == double - Pc2
    IN  IF n < Direct THEN <<>>
        ELSE IF single < Pc1 THEN <<single * Bytes>>
        ELSE IF double < Pc2 THEN <<(double \div Pc1) * Bytes, double % Pc1>>
        ELSE <<(treble \div Pc2) * Bytes, (treble % Pc2) \div Pc1, treble % Pc1>>

\* What cache_num is set to; the block it names is not in the cache yet.
Claims(n) == n

\* read_block of block n: the cache is asked first.
ReadBlock(t, n) ==
    IF n = cache_num
    THEN /\ Goes(t, "copy")
         /\ UNCHANGED <<ideVars, nodeVars>>
    ELSE /\ cache_num' = Claims(n)
         /\ path' = [path EXCEPT ![t] = Offsets(n)]
         /\ ReadSector(t, Root(n))
         /\ UNCHANGED cache

\* A pointer has been read, and the block it names is next.
Follow(t) ==
    /\ At(t, "walk")
    /\ path[t] # <<>>
    /\ ReadSector(t, Pointer(taken[t], Head(path[t])))
    /\ path' = [path EXCEPT ![t] = Tail(@)]
    /\ UNCHANGED <<cache, cache_num>>

\* A word comes from the disk, into the cache when it is one of the block itself.
Load(t) ==
    /\ Transfer(t)
    /\ cache' = IF path[t] = <<>>
                THEN [cache EXCEPT ![Len(taken[t]) + 1] = NextWord(drive)] ELSE cache
    /\ UNCHANGED <<cache_num, path>>

\* The block is in the cache.
Filled(t) ==
    /\ At(t, "walk")
    /\ path[t] = <<>>
    /\ Goes(t, "copy")
    /\ UNCHANGED <<ideVars, nodeVars>>

NodeInit ==
    /\ cache = [k \in 1 .. Words |-> Garbage]
    /\ cache_num = Nowhere
    /\ path = [t \in Thread |-> <<>>]

Walking(t) == Follow(t) \/ Load(t) \/ Filled(t) \/ (Driving(t) /\ UNCHANGED nodeVars)

-----------------------------------------------------------------------------
\* Block n of the file, read from the format: the leaves of the trees in their order, each
\* level of index blocks choosing among Pc1 subtrees of equal size.
Leaf1(b, n) == index[b][n % Pc1]
Leaf2(b, n) == Leaf1(index[b][(n \div Pc1) % Pc1], n)
Leaf3(b, n) == Leaf2(index[b][(n \div Pc2) % Pc1], n)
FileBlock(n) ==
    IF n < Direct THEN data[n]
    ELSE IF n < Direct + Pc1 THEN Leaf1(data[Direct], n - Direct)
    ELSE IF n < Direct + Pc1 + Pc2 THEN Leaf2(data[Direct + 1], n - Direct - Pc1)
    ELSE Leaf3(data[Direct + 2], n - Direct - Pc1 - Pc2)
=============================================================================
