------------------------------ MODULE UserHeap ------------------------------
(***************************************************************************)
(* malloc, free and realloc of the user programs (sbin/heap.c) on the heap *)
(* of module Heap.  They take no lock, return where the kernel's panic,    *)
(* and have every call the code provides for: realloc of 0 and to 0, free  *)
(* of 0, of what malloc(0) returned, and of a block that is available.     *)
(* A pointer is the index of the int it points to; `array`, which malloc   *)
(* returns for 0 bytes, is index 0, and Null is the pointer 0.             *)
(*                                                                         *)
(* realloc of `array` is left out: it looks for a header before the first  *)
(* int of the heap, which free does not.                                   *)
(***************************************************************************)
EXTENDS Heap

Null == -1
IsTaken(h, i) == h.array[i] < 0

\* heap_init, which crt0 calls before main.
heap_init == Formatted /\ user = TRUE

\* A block for `bytes`; Null when there is no room.
Room(bytes) ==
    LET i == FirstFit(heap, Ints(bytes)) IN IF i = 0 THEN Null ELSE i + 1

\* malloc: for 0 bytes, and when there is no room, the heap is left alone.
UserMalloc(bytes) ==
    IF bytes = 0 \/ Room(bytes) = Null THEN UNCHANGED vars
    ELSE /\ Become(Carve(heap, Room(bytes) - 1, Ints(bytes)))
         /\ held' = Give(Room(bytes), bytes)

\* free.
UserFree(p) ==
    IF p \in {Null, 0} \/ ~IsTaken(heap, p - 1) THEN UNCHANGED vars
    ELSE Become(Release(heap, p - 1)) /\ held' = Without(p)

\* memcpy into the new block at q of the n words asked for, or of the old block's size.
Copy(h, p, q, n) ==
    LET m == Min({n, Size(h, p - 1)})
    IN  [h EXCEPT !.array = [i \in Index |-> IF i \in q .. q + m - 1 THEN h.array[p + i - q]
                                             ELSE h.array[i]]]

\* Mutant: the old block is let go before its words are copied.
MovedLate(p, q, bytes) ==
    Copy(Release(Carve(heap, q - 1, Ints(bytes)), p - 1), p, q, Words(bytes))

\* A block of `bytes` at q with what was at p, which is let go.  It copies up to size(idx) * 4
\* bytes, two ints more than the block has for its owner.
Moved(p, q, bytes) ==
    Release(Copy(Carve(heap, q - 1, Ints(bytes)), p, q, Words(bytes)), p - 1)

\* realloc; without room for the new block the old one is let go all the same.
Realloc(p, bytes) ==
    LET q    == Room(bytes)
        rest == DOMAIN held \ {p}
    IN  IF p = Null THEN UserMalloc(bytes)
        ELSE IF bytes = 0 \/ q = Null THEN UserFree(p)
        ELSE IF ~IsTaken(heap, p - 1) THEN UNCHANGED vars
        ELSE /\ Become(Moved(p, q, bytes))
             /\ held' = [x \in rest \cup {q} |-> IF x = q THEN Words(bytes) ELSE held[x]]

\* What a program may let go: a block of its own, nothing, or a block that is available.
Freeable ==
    DOMAIN held \cup {Null, 0} \cup {i + 1 : i \in {FreeList(heap)[k] : k \in DOMAIN FreeList(heap)}}

UserNext ==
    /\ user
    /\ \/ \E bytes \in Bytes \cup {0} : UserMalloc(bytes)
       \/ \E p \in Freeable : UserFree(p)
       \/ \E p \in Freeable \ {0}, bytes \in Bytes \cup {0} : Realloc(p, bytes)

HeapsSpec == (heap_init \/ Init) /\ [][Next \/ UserNext]_vars
=============================================================================
