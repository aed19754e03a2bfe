-------------------------------- MODULE Heap --------------------------------
(***************************************************************************)
(* The kernel's allocator (src/kernel/heap.cc) and the one of its user     *)
(* programs (sbin/heap.c); `user` says which of the two a behaviour is of. *)
(* The heap is one array of ints cut into blocks; the first and last int   *)
(* of a block hold its size, positive when the block is available and      *)
(* negative when it is taken, and an available block holds the links of    *)
(* the list of available blocks in its second and third int.  free merges  *)
(* a block with its neighbours.  The kernel's malloc takes the best of the *)
(* first CountDown blocks that fit and runs, as free does, with theLock    *)
(* held; a program is one thread, its malloc takes the first block that    *)
(* fits, and it has realloc: module UserHeap has its calls.  So every call *)
(* is one step.  What is not visible in the array is who owns which block: *)
(* `held` remembers it, and owners write what they like in their words.    *)
(*                                                                         *)
(* Requests are below 2^32 - 3 bytes: above it malloc's (bytes + 3) wraps. *)
(* malloc(0), which returns `array`, and free of it or of 0 touch nothing. *)
(***************************************************************************)
EXTENDS Integers, Sequences, FiniteSetsExt

CONSTANTS HeapLen,    \* len: the ints of the heap
          CountDown,  \* how many fitting blocks the kernel's malloc compares
          Bytes,      \* the sizes owners ask for
          Data        \* what owners write

ASSUME HeapAssumption ==
    /\ HeapLen \in Nat /\ HeapLen >= 8
    /\ CountDown \in Nat \ {0}
    /\ Bytes \subseteq Nat \ {0}
    /\ Data \subseteq Int

VARIABLES array,      \* the ints
          avail,      \* the header of the first available block, 0 when there is none
          held,       \* held[p]: the words an owner asked for at p
          user        \* this is the heap of a user program, not the kernel's

vars == <<array, avail, held, user>>

Index == 0 .. HeapLen - 1
heap == [array |-> array, avail |-> avail]

-----------------------------------------------------------------------------
(* Blocks and the list of available blocks, in a heap h.                    *)

Size(h, i) == IF h.array[i] < 0 THEN -h.array[i] ELSE h.array[i]
HeaderFromFooter(h, i) == i - Size(h, i) + 1
FooterFromHeader(h, i) == i + Size(h, i) - 1
Left(h, i) == HeaderFromFooter(h, i - 1)
Right(h, i) == i + Size(h, i)
NextOf(h, i) == h.array[i + 1]
PrevOf(h, i) == h.array[i + 2]
SetNext(h, i, x) == [h EXCEPT !.array[i + 1] = x]
SetPrev(h, i, x) == [h EXCEPT !.array[i + 2] = x]
IsAvail(h, i) == h.array[i] > 0

\* A remove that forgets the link back of the next block.
RemoveForward(h, i) ==
    IF PrevOf(h, i) = 0 THEN [h EXCEPT !.avail = NextOf(h, i)]
    ELSE SetNext(h, PrevOf(h, i), NextOf(h, i))

\* remove: unlink the available block at i.
Remove(h, i) ==
    LET before == PrevOf(h, i)
        after  == NextOf(h, i)
        cut    == IF before = 0 THEN [h EXCEPT !.avail = after]
                  ELSE SetNext(h, before, after)
    IN  IF after = 0 THEN cut ELSE SetPrev(cut, after, before)

\* Header and footer of a block of n ints at i.
Tag(h, i, n, v) == [h EXCEPT !.array[i] = v, !.array[i + n - 1] = v]

MakeTaken(h, i, n) == Tag(h, i, n, -n)

\* makeAvail: the block goes to the head of the list.
MakeAvail(h, i, n) ==
    LET linked == SetPrev(SetNext(Tag(h, i, n, n), i, h.avail), i, 0)
    IN  [(IF h.avail = 0 THEN linked ELSE SetPrev(linked, h.avail, i)) EXCEPT !.avail = i]

\* The headers on the list, in its order; at most HeapLen \div 4 blocks fit.
Follow(h, s) ==
    LET next == IF s = <<>> THEN h.avail ELSE NextOf(h, s[Len(s)])
    IN  IF next = 0 THEN s ELSE Append(s, next)
FreeList(h) ==
    LET chain[n \in 0 .. HeapLen \div 4] == IF n = 0 THEN <<>> ELSE Follow(h, chain[n - 1])
    IN  chain[HeapLen \div 4]

-----------------------------------------------------------------------------
(* malloc and free.                                                         *)

Words(bytes) == (bytes + 3) \div 4
Ints(bytes) == Max({4, Words(bytes) + 2})

\* Where on the list blocks with n ints are.
Fitting(h, n) == {k \in DOMAIN FreeList(h) : Size(h, FreeList(h)[k]) >= n}

\* The kernel's malloc compares up to CountDown of them and takes the smallest, the first if
\* several are; the user's takes the first.  0: there is none.
BestFit(h, n) ==
    LET list == FreeList(h)
        fits == Fitting(h, n)
        seen == {k \in fits : Cardinality({j \in fits : j <= k}) <= CountDown}
        Better(j, k) == Size(h, list[j]) < Size(h, list[k])
                        \/ (Size(h, list[j]) = Size(h, list[k]) /\ j <= k)
    IN  IF fits = {} THEN 0
        ELSE list[CHOOSE j \in seen : \A k \in seen : Better(j, k)]
FirstFit(h, n) ==
    LET fits == Fitting(h, n) IN IF fits = {} THEN 0 ELSE FreeList(h)[Min(fits)]
Best(h, n) == IF user THEN FirstFit(h, n) ELSE BestFit(h, n)

\* The heap with n ints of the available block at i taken, the rest available again.
Carve(h, i, n) ==
    LET extra == Size(h, i) - n
        out   == Remove(h, i)
    IN  IF extra >= 4 THEN MakeAvail(MakeTaken(out, i, n), i + n, extra)
        ELSE MakeTaken(out, i, Size(h, i))

\* A free that merges only to the right.
ReleaseRight(h, i) ==
    LET r   == Right(h, i)
        out == IF IsAvail(h, r) THEN Remove(h, r) ELSE h
    IN  MakeAvail(out, i, (IF IsAvail(h, r) THEN Right(h, r) ELSE r) - i)

\* The heap with the taken block at i available, one block with those next to it.
Release(h, i) ==
    LET l     == Left(h, i)
        r     == Right(h, i)
        below == IF IsAvail(h, l) THEN Remove(h, l) ELSE h
        both  == IF IsAvail(h, r) THEN Remove(below, r) ELSE below
        start == IF IsAvail(h, l) THEN l ELSE i
        end   == IF IsAvail(h, r) THEN Right(h, r) ELSE r
    IN  MakeAvail(both, start, end - start)

Become(h) == array' = h.array /\ avail' = h.avail /\ user' = user

Owned(p) == p .. p + held[p] - 1

\* The words of p are given to an owner, and let go.
Give(p, bytes) == [q \in DOMAIN held \cup {p} |-> IF q = p THEN Words(bytes) ELSE held[q]]
Without(p) == [q \in DOMAIN held \ {p} |-> held[q]]

\* malloc and operator new, which panics when there is no room.
Malloc(bytes) ==
    LET i == Best(heap, Ints(bytes))
    IN  /\ i # 0
        /\ Become(Carve(heap, i, Ints(bytes)))
        /\ held' = Give(i + 1, bytes)

\* free and operator delete.
Free(p) ==
    /\ p \in DOMAIN held
    /\ Become(Release(heap, p - 1))
    /\ held' = Without(p)

\* An owner fills its words.
Write(p, x) ==
    /\ p \in DOMAIN held
    /\ array' = [i \in Index |-> IF i \in Owned(p) THEN x ELSE array[i]]
    /\ UNCHANGED <<avail, held, user>>

\* heapInit: an end block, one available block and an end block.
Formatted ==
    LET raw    == [array |-> [i \in Index |-> 0], avail |-> 0]
        middle == MakeAvail(MakeTaken(raw, 0, 2), 2, HeapLen - 4)
        h      == MakeTaken(middle, HeapLen - 2, 2)
    IN  /\ array = h.array
        /\ avail = h.avail
        /\ held = <<>>

Init == Formatted /\ user = FALSE

Next ==
    \/ ~user /\ \E bytes \in Bytes : Malloc(bytes)
    \/ ~user /\ \E p \in Index : Free(p)
    \/ \E p \in Index, x \in Data : Write(p, x)

Spec == Init /\ [][Next]_vars

-----------------------------------------------------------------------------
(* Properties.                                                              *)

\* The headers reached from the first block by right() (heap.cc:65).
Blocks ==
    LET from[i \in 0 .. HeapLen] ==
            IF i = HeapLen \/ Right(heap, i) \notin i + 2 .. HeapLen THEN {i}
            ELSE {i} \cup from[Right(heap, i)]
    IN  from[0]

\* Walking right() from the first block reaches exactly the end of the array, and every
\* block on the way has its size in its footer (what sanity, heap.cc:37, would check of
\* the one block it is given), so left() and right() of any block are blocks.
BoundaryTags ==
    /\ HeapLen \in Blocks
    /\ \A i \in Blocks \ {HeapLen} : array[FooterFromHeader(heap, i)] = array[i]

\* The taken blocks are the two ends and the blocks that are held, and a held block has the
\* room that was asked for, whatever malloc split and free merged.
HeldAreTaken ==
    /\ {i \in Blocks \ {HeapLen} : ~IsAvail(heap, i)}
           = {0, HeapLen - 2} \cup {p - 1 : p \in DOMAIN held}
    /\ \A p \in DOMAIN held : held[p] <= Size(heap, p - 1) - 2

\* The list has every available block once, and its prev links are its next links reversed
\* (so remove, heap.cc:85, may unlink from the middle).
FreeListExact ==
    LET list == FreeList(heap)
    IN  /\ {list[k] : k \in DOMAIN list} = {i \in Blocks \ {HeapLen} : IsAvail(heap, i)}
        /\ \A k \in DOMAIN list : PrevOf(heap, list[k]) = IF k = 1 THEN 0 ELSE list[k - 1]

\* At every moment the blocks and the list describe the same heap as the owners do.
WellFormed == BoundaryTags /\ HeldAreTaken /\ FreeListExact

\* malloc fails only when no run of ints outside the taken blocks has the room: free leaves
\* no two available blocks side by side (heap.cc:210-219), and the search of heap.cc:158
\* misses no block by stopping early.
Ranges == {i \in Blocks \ {HeapLen} : ~IsAvail(heap, i)}
NoFalseFailure ==
    LET taken == UNION {i .. FooterFromHeader(heap, i) : i \in Ranges}
    IN  \A n \in {Ints(b) : b \in Bytes} :
            (\E i \in Index : i + n <= HeapLen /\ i .. i + n - 1 \cap taken = {})
                => Best(heap, n) # 0

\* The heap is an allocator: live blocks are apart and only their owners change their words.
Alloc == INSTANCE Allocator WITH
    Address <- Index,
    Amounts <- {Words(b) : b \in Bytes},
    live <- held,
    word <- [a \in UNION {Owned(p) : p \in DOMAIN held} |-> array[a]]
AllocatorSpec == Alloc!Spec
=============================================================================
