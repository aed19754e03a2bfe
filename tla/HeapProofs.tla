------------------------------ MODULE HeapProofs ------------------------------
(***************************************************************************)
(* Both heaps, of any length, with requests of any size: the tags and the  *)
(* list of available blocks always describe the blocks the owners have,    *)
(* malloc fails only for want of room, and the heap is an Allocator.       *)
(*                                                                         *)
(* The array is seen as cut at the headers B (Tiled), and the list as      *)
(* links both ways with a rank that falls along them (Linked): a block can *)
(* then leave the list in the middle without another rank changing.        *)
(***************************************************************************)
EXTENDS UserHeap, FiniteSetTheorems, TLAPS

-----------------------------------------------------------------------------
(* Numbers.                                                                 *)

\* A set of natural numbers that is not empty has a least.
LEMMA LeastNat ==
    ASSUME NEW T, T \subseteq Nat, T # {}
    PROVE  \E n \in T : \A m \in T : n <= m
  <1> DEFINE R == {ss \in Nat \X Nat : ss[1] < ss[2]}
  <1>1. IsWellFoundedOn(R, Nat)
    BY NatLessThanWellFounded DEF OpToRel
  <1> HIDE DEF R
  <1>2. PICK n \in T : \A m \in T : ~ (<<m, n>> \in R)
    BY <1>1, WFMin
  <1>3. \A m \in T : ~(m < n)
    BY <1>2 DEF R
  <1> QED
    BY <1>3

\* Induction over the natural numbers, of the set of those that have the property.
LEMMA SetInduction ==
    ASSUME NEW S, 0 \in S, \A n \in Nat : n \in S => n + 1 \in S
    PROVE  Nat \subseteq S
  <1>1. SUFFICES ASSUME Nat \ S # {} PROVE FALSE
    OBVIOUS
  <1>2. PICK n \in Nat \ S : \A m \in Nat \ S : n <= m
    BY <1>1, LeastNat
  <1>3. n # 0 /\ n - 1 \in Nat /\ n - 1 \in S
    BY <1>2
  <1> QED
    BY <1>2, <1>3

\* A bounded set of natural numbers that is not empty has a greatest.
LEMMA GreatestNat ==
    ASSUME NEW N \in Nat, NEW T, T \subseteq 0 .. N, T # {}
    PROVE  \E n \in T : \A m \in T : m <= n
  <1> DEFINE U == {N - t : t \in T}
  <1>1. U \subseteq Nat /\ U # {}
    <2>1. ASSUME NEW t \in T PROVE N - t \in Nat
      OBVIOUS
    <2>2. PICK t \in T : TRUE
      OBVIOUS
    <2>3. N - t \in U
      OBVIOUS
    <2> QED
      BY <2>1, <2>3
  <1>2. PICK u \in U : \A m \in U : u <= m
    BY ONLY <1>1, LeastNat
  <1>3. PICK n \in T : u = N - n
    BY <1>2
  <1>4. ASSUME NEW m \in T PROVE m <= n
    <2>1. N - m \in U
      OBVIOUS
    <2>2. u <= N - m
      BY <1>2, <2>1
    <2> QED
      BY <1>3, <2>2
  <1> QED
    BY <1>4

-----------------------------------------------------------------------------
(* The invariant.                                                           *)

\* The length of the block at i, and where the next one begins.
Len4(a, i) == IF a[i] < 0 THEN -a[i] ELSE a[i]
End(a, i) == i + Len4(a, i)

\* One block: tags at both ends, room for links when it is available, and no other header in it.
Block(a, B, i) ==
    /\ a[i] # 0
    /\ Len4(a, i) >= 2 /\ (a[i] > 0 => Len4(a, i) >= 4)
    /\ End(a, i) \in B
    /\ a[End(a, i) - 1] = a[i]
    /\ \A j \in B : j <= i \/ j >= End(a, i)

\* The array is a sequence of blocks.  B are their headers, and the end of the array.
Heads(B) == B \ {HeapLen}
Tiled(a, B) ==
    /\ a \in [Index -> Int]
    /\ B \subseteq 0 .. HeapLen /\ 0 \in B /\ HeapLen \in B
    /\ \A i \in Heads(B) : Block(a, B, i)

Avails(a, B) == {i \in Heads(B) : a[i] > 0}
Takens(a, B) == {i \in Heads(B) : a[i] < 0}

\* The blocks of A are on the list that begins at head, once: the links of any of them lead
\* to it from both sides, and on the way rank falls.
Linked(a, head, A, rank, top) ==
    /\ top \in Nat /\ rank \in [Index -> Nat] /\ \A i \in A : rank[i] < top
    /\ IF A = {} THEN head = 0 ELSE head \in A
    /\ \A i \in A :
           /\ a[i + 1] = 0 \/ (a[i + 1] \in A /\ a[a[i + 1] + 2] = i /\ rank[a[i + 1]] < rank[i])
           /\ IF i = head THEN a[i + 2] = 0 ELSE a[i + 2] \in A /\ a[a[i + 2] + 1] = i

IsHeap(h) ==
    /\ h = [array |-> h.array, avail |-> h.avail]
    /\ h.array \in [Index -> Int] /\ h.avail \in Int

\* A heap with the blocks of T taken, besides the two at the ends.
Ends == {0, HeapLen - 2}
Shaped(h, T, B, rank, top) ==
    /\ IsHeap(h)
    /\ Tiled(h.array, B)
    /\ Takens(h.array, B) = Ends \cup T /\ T \cap Ends = {}
    /\ \A i \in T : Len4(h.array, i) >= 4
    /\ \A i \in Avails(h.array, B) : End(h.array, i) \notin Avails(h.array, B)
    /\ Linked(h.array, h.avail, Avails(h.array, B), rank, top)
Shape(h, T) == \E B, rank, top : Shaped(h, T, B, rank, top)

\* Owners have the words between the tags of taken blocks.
Lent(a, f) ==
    /\ f \in [DOMAIN f -> Nat] /\ DOMAIN f \subseteq Index \ {0}
    /\ \A p \in DOMAIN f : f[p] <= Len4(a, p - 1) - 2

\* The blocks of the owners are the taken ones.
Blockheads(f) == {p - 1 : p \in DOMAIN f}
Owning(h, f) == Shape(h, Blockheads(f)) /\ Lent(h.array, f)

HeapInv == user \in BOOLEAN /\ Owning(heap, held)

-----------------------------------------------------------------------------
(* Blocks.                                                                  *)

\* Lengths and ends are numbers, and a block is in the array.
LEMMA BlockNumbers ==
    ASSUME NEW a, NEW B, Tiled(a, B), NEW i \in Heads(B)
    PROVE  /\ i \in Nat /\ i \in Index /\ a[i] \in Int /\ Len4(a, i) \in Nat /\ End(a, i) \in Nat
           /\ End(a, i) \in B /\ End(a, i) <= HeapLen /\ End(a, i) = i + Len4(a, i)
           /\ Len4(a, i) >= 2 /\ a[i] # 0 /\ (a[i] > 0 => Len4(a, i) >= 4)
           /\ a[End(a, i) - 1] = a[i]
           /\ a[i] > 0 => Len4(a, i) = a[i]
           /\ a[i] < 0 => Len4(a, i) = -a[i]
  <1>1. Block(a, B, i) /\ i \in 0 .. HeapLen /\ i # HeapLen /\ a \in [Index -> Int]
    BY DEF Tiled, Heads
  <1>2. i \in Index /\ i \in Nat /\ a[i] \in Int
    BY <1>1, HeapAssumption DEF Index
  <1>3. Len4(a, i) \in Nat /\ (a[i] > 0 => Len4(a, i) = a[i]) /\ (a[i] < 0 => Len4(a, i) = -a[i])
    BY <1>2 DEF Len4
  <1>4. End(a, i) \in B /\ B \subseteq 0 .. HeapLen
    BY <1>1 DEF Block, Tiled
  <1> QED
    BY <1>1, <1>2, <1>3, <1>4, HeapAssumption DEF Block, End

\* Of two blocks one ends before the other begins.
LEMMA Disjoint ==
    ASSUME NEW a, NEW B, Tiled(a, B), NEW i \in Heads(B), NEW j \in B, i # j
    PROVE  End(a, i) <= j \/ (j < i /\ (j # HeapLen => End(a, j) <= i))
  <1>1. j \in Nat /\ i \in Nat /\ i < HeapLen
    BY HeapAssumption DEF Tiled, Heads
  <1>2. j <= i \/ j >= End(a, i)
    BY DEF Tiled, Block
  <1>3. j # HeapLen => i <= j \/ i >= End(a, j)
    BY DEF Tiled, Block, Heads
  <1>4. End(a, i) \in Nat /\ (j # HeapLen => End(a, j) \in Nat)
    BY BlockNumbers DEF Heads
  <1> QED
    BY <1>1, <1>2, <1>3, <1>4, HeapAssumption

\* Every int is in a block.
LEMMA Covered ==
    ASSUME NEW a, NEW B, Tiled(a, B), NEW k \in Index
    PROVE  \E i \in Heads(B) : i <= k /\ k < End(a, i)
  <1> DEFINE S == {j \in B : j <= k}
  <1>1. k \in Nat /\ k < HeapLen /\ B \subseteq Nat
    BY HeapAssumption DEF Index, Tiled
  <1>2. S \subseteq 0 .. k /\ S # {}
    <2>1. 0 \in S
      BY <1>1 DEF Tiled
    <2>2. ASSUME NEW j \in S PROVE j \in 0 .. k
      BY <1>1, <2>2
    <2> QED
      BY <2>1, <2>2
  <1>3. PICK i \in S : \A m \in S : m <= i
    BY ONLY <1>1, <1>2, GreatestNat
  <1>4. i \in Heads(B)
    BY <1>1, HeapAssumption DEF Heads
  <1>5. End(a, i) \in B /\ End(a, i) \in Nat /\ End(a, i) > i
    BY <1>4, BlockNumbers
  <1>6. ~(End(a, i) <= k)
    BY <1>1, <1>3, <1>5
  <1> QED
    BY <1>1, <1>4, <1>5, <1>6

\* left() of a header is the header of the block that ends there.
LEMMA LeftBlock ==
    ASSUME NEW h, NEW B, Tiled(h.array, B), NEW i \in B, i # 0
    PROVE  /\ Left(h, i) \in Heads(B) /\ End(h.array, Left(h, i)) = i /\ Left(h, i) < i
           /\ \A j \in Heads(B) : End(h.array, j) = i => j = Left(h, i)
  <1> DEFINE a == h.array
  <1>1. i \in Nat /\ i - 1 \in Index /\ i <= HeapLen
    BY HeapAssumption DEF Tiled, Index
  <1>2. PICK l \in Heads(B) : l <= i - 1 /\ i - 1 < End(a, l)
    BY <1>1, Covered
  <1>3. l # i /\ l \in Nat /\ End(a, l) \in Nat /\ a[End(a, l) - 1] = a[l] /\ End(a, l) = l + Len4(a, l)
    BY <1>1, <1>2, BlockNumbers
  <1>4. End(a, l) = i
    BY <1>1, <1>2, <1>3, Disjoint
  <1>5. Size(h, i - 1) = Len4(a, l)
    BY <1>3, <1>4 DEF Size, Len4
  <1>6. Left(h, i) = l
    BY <1>1, <1>3, <1>4, <1>5, BlockNumbers DEF Left, HeaderFromFooter
  <1>7. ASSUME NEW j \in Heads(B), End(a, j) = i PROVE j = l
    <2>1. j \in Nat /\ j < i
      BY <1>7, BlockNumbers
    <2>2. CASE j # l
      BY <1>3, <1>4, <1>7, <2>1, <2>2, Disjoint, BlockNumbers DEF Heads
    <2> QED
      BY <2>2
  <1> QED
    <2>1. l < i
      BY ONLY <1>1, <1>2, <1>3
    <2> HIDE DEF a
    <2>2. \A j \in Heads(B) : End(a, j) = i => j = l
      BY ONLY <1>7
    <2> QED
      BY ONLY <1>2, <1>4, <1>6, <2>1, <2>2 DEF a

\* Between the headers s and e the array is cut anew, at C, and nothing else changes in a tag.
LEMMA Retile ==
    ASSUME NEW a, NEW B, Tiled(a, B), NEW b \in [Index -> Int],
           NEW s \in Heads(B), NEW e \in B, s < e, NEW C, C \subseteq s .. e, s \in C, e \in C,
           \A k \in Heads(B) : k < s \/ k >= e => b[k] = a[k] /\ b[End(a, k) - 1] = a[k],
           \A j \in C \ {e} : Block(b, C, j)
    PROVE  Tiled(b, {j \in B : j <= s \/ j >= e} \cup C)
  <1> DEFINE D == {j \in B : j <= s \/ j >= e} \cup C
  <1>1. B \subseteq 0 .. HeapLen /\ 0 \in B /\ HeapLen \in B /\ s \in Nat /\ e \in Nat /\ e <= HeapLen
        /\ HeapLen \in Nat
    BY HeapAssumption DEF Tiled, Heads
  <1>2. D \subseteq 0 .. HeapLen /\ 0 \in D /\ HeapLen \in D
    <2>1. ASSUME NEW j \in C PROVE j \in 0 .. HeapLen
      BY <1>1
    <2>2. 0 <= s /\ HeapLen >= e
      BY <1>1
    <2> QED
      BY <1>1, <2>1, <2>2
  <1>3. ASSUME NEW i \in C \ {e} PROVE Block(b, D, i)
    <2>1. Block(b, C, i) /\ i \in Nat /\ s <= i /\ i < e
      BY <1>1
    <2>2. End(b, i) \in C /\ End(b, i) <= e /\ End(b, i) \in Nat
      <3>1. End(b, i) \in s .. e
        BY <2>1 DEF Block
      <3> QED
        BY <2>1, <3>1, <1>1 DEF Block
    <2>3. ASSUME NEW j \in D PROVE j <= i \/ j >= End(b, i)
      <3>1. CASE j \in C
        BY <2>1, <3>1 DEF Block
      <3>2. CASE j \in B /\ (j <= s \/ j >= e)
        <4>1. j \in Nat /\ End(b, i) \in Nat
          BY <1>1, <2>2, <3>2
        <4> QED
          BY <1>1, <2>1, <2>2, <3>2, <4>1
      <3> QED
        BY <3>1, <3>2
    <2> QED
      BY <2>1, <2>2, <2>3 DEF Block
  <1>4. ASSUME NEW i \in Heads(B), i < s \/ i >= e PROVE Block(b, D, i)
    <2>1. b[i] = a[i] /\ b[End(a, i) - 1] = a[i] /\ Block(a, B, i)
      BY <1>4 DEF Tiled
    <2>2. Len4(b, i) = Len4(a, i) /\ End(b, i) = End(a, i)
      BY <2>1 DEF Len4, End
    <2>3. i \in Nat /\ End(a, i) \in Nat /\ End(a, i) \in B /\ End(a, i) > i
      BY BlockNumbers
    <2>4. i < s => End(a, i) <= s
      BY <2>1, <2>3, <1>1 DEF Block, Heads
    <2>5. End(a, i) \in D
      BY <2>3, <2>4, <1>1, <1>4
    <2>6. ASSUME NEW j \in D PROVE j <= i \/ j >= End(a, i)
      <3>1. CASE j \in C
        <4>1. j \in Nat /\ s <= j /\ j <= e
          BY <1>1, <3>1
        <4> QED
          BY <1>1, <1>4, <2>3, <2>4, <4>1
      <3>2. CASE j \in B
        BY <2>1, <3>2 DEF Block
      <3> QED
        BY <3>1, <3>2
    <2> QED
      BY <2>1, <2>2, <2>5, <2>6 DEF Block
  <1>5. ASSUME NEW i \in Heads(D) PROVE Block(b, D, i)
    <2>1. CASE i \in C \ {e}
      BY <1>3, <2>1
    <2>2. CASE i \notin C \ {e}
      <3>1. i \in Heads(B) /\ i \in Nat
        BY <1>1, <2>2 DEF Heads
      <3>2. i < s \/ i >= e
        BY <1>1, <2>2, <3>1 DEF Heads
      <3> QED
        BY <1>4, <3>1, <3>2
    <2> QED
      BY <2>1, <2>2
  <1> HIDE DEF D
  <1>6. Tiled(b, D)
    BY <1>2, <1>5 DEF Tiled
  <1> QED
    BY <1>6 DEF D

-----------------------------------------------------------------------------
(* The list.                                                                *)

\* Blocks with room for their tags and links.
Spread(A) ==
    /\ \A i \in A : i \in Nat /\ i > 0 /\ i + 3 < HeapLen
    /\ \A i, j \in A : i < j => i + 4 <= j

\* They and their links are in the array.
LEMMA SpreadIndex ==
    ASSUME NEW A, Spread(A), NEW i \in A
    PROVE  i \in Nat /\ i # 0 /\ i + 2 < HeapLen /\ i \in Index /\ i + 1 \in Index /\ i + 2 \in Index
  <1>1. i \in Nat /\ i > 0 /\ i + 3 < HeapLen /\ HeapLen \in Nat
    BY HeapAssumption DEF Spread
  <1> QED
    BY ONLY <1>1 DEF Index

\* Available blocks are.
LEMMA AvailsSpread ==
    ASSUME NEW a, NEW B, Tiled(a, B), 0 \in Takens(a, B)
    PROVE  Spread(Avails(a, B))
  <1>1. ASSUME NEW i \in Avails(a, B) PROVE i \in Nat /\ i > 0 /\ i + 3 < HeapLen
    <2>1. i \in Heads(B) /\ a[i] > 0
      BY DEF Avails
    <2>2. i # 0
      BY <2>1, BlockNumbers DEF Takens
    <2> QED
      BY <2>1, <2>2, BlockNumbers, HeapAssumption
  <1>2. ASSUME NEW i \in Avails(a, B), NEW j \in Avails(a, B), i < j PROVE i + 4 <= j
    <2>1. i \in Heads(B) /\ a[i] > 0 /\ j \in Heads(B)
      BY DEF Avails
    <2>2. i \in Nat /\ j \in Nat /\ End(a, i) = i + Len4(a, i) /\ Len4(a, i) \in Nat /\ Len4(a, i) >= 4
      BY <2>1, BlockNumbers
    <2>3. End(a, i) <= j
      BY <1>2, <2>1, <2>2, Disjoint DEF Heads
    <2> QED
      BY <2>2, <2>3
  <1> QED
    BY <1>1, <1>2 DEF Spread

\* The ints with the links of the blocks of A.
Links(A) == {i + 1 : i \in A} \cup {i + 2 : i \in A}

\* What happens to other ints is nothing to the list.
LEMMA LinkedSame ==
    ASSUME NEW A, Spread(A), NEW a, NEW head, NEW rank, NEW top, Linked(a, head, A, rank, top),
           NEW b, \A k \in Links(A) : b[k] = a[k]
    PROVE  Linked(b, head, A, rank, top)
  <1>1. \A i \in A : b[i + 1] = a[i + 1] /\ b[i + 2] = a[i + 2]
    BY DEF Links
  <1> QED
    BY <1>1 DEF Linked

\* setNext and setPrev write one int.
LEMMA SetLinks ==
    ASSUME NEW h, IsHeap(h), NEW i \in Nat, i + 2 < HeapLen, NEW x \in Int
    PROVE  /\ SetNext(h, i, x) = [array |-> [h.array EXCEPT ![i + 1] = x], avail |-> h.avail]
           /\ SetPrev(h, i, x) = [array |-> [h.array EXCEPT ![i + 2] = x], avail |-> h.avail]
           /\ IsHeap(SetNext(h, i, x)) /\ IsHeap(SetPrev(h, i, x))
           /\ i + 1 \in Index /\ i + 2 \in Index
  <1>1. i + 1 \in Index /\ i + 2 \in Index
    BY HeapAssumption DEF Index
  <1>2. /\ SetNext(h, i, x) = [array |-> [h.array EXCEPT ![i + 1] = x], avail |-> h.avail]
        /\ SetPrev(h, i, x) = [array |-> [h.array EXCEPT ![i + 2] = x], avail |-> h.avail]
    BY DEF IsHeap, SetNext, SetPrev
  <1>3. [h.array EXCEPT ![i + 1] = x] \in [Index -> Int] /\ [h.array EXCEPT ![i + 2] = x] \in [Index -> Int]
    BY <1>1 DEF IsHeap
  <1> QED
    BY <1>1, <1>2, <1>3 DEF IsHeap

\* Whoever is not first on the list has one before it.
LEMMA FirstLeads ==
    ASSUME NEW A, Spread(A), NEW a, NEW head, NEW rank, NEW top, Linked(a, head, A, rank, top),
           NEW i \in A, i = head, a[i + 1] = 0
    PROVE  A = {i}
  <1>1. SUFFICES ASSUME A \ {i} # {} PROVE FALSE
    OBVIOUS
  <1> DEFINE R == {rank[j] : j \in A \ {i}}
  <1>2. R \subseteq 0 .. top /\ R # {} /\ top \in Nat
    <2>1. ASSUME NEW j \in A PROVE rank[j] \in 0 .. top
      <3>1. j \in Index /\ rank \in [Index -> Nat] /\ top \in Nat /\ rank[j] < top
        BY SpreadIndex DEF Linked
      <3> QED
        BY <3>1
    <2>2. PICK j \in A \ {i} : TRUE
      BY <1>1
    <2> QED
      BY <2>1, <2>2 DEF Linked
  <1>3. PICK r \in R : \A m \in R : m <= r
    BY ONLY <1>2, GreatestNat
  <1>4. PICK j \in A \ {i} : r = rank[j]
    BY <1>3
  <1>5. a[j + 2] \in A /\ a[a[j + 2] + 1] = j
    BY <1>4 DEF Linked
  <1>6. j # 0 /\ j \in Nat
    BY <1>4 DEF Spread
  <1>7. a[j + 2] # i /\ rank[j] < rank[a[j + 2]]
    BY <1>5, <1>6 DEF Linked
  <1>8. rank[a[j + 2]] \in R
    BY <1>5, <1>7
  <1>9. rank[a[j + 2]] <= rank[j] /\ rank[j] \in Nat /\ rank[a[j + 2]] \in Nat
    BY <1>2, <1>3, <1>4, <1>8
  <1> QED
    BY ONLY <1>7, <1>9

\* The neighbours of a block on the list.
LEMMA Neighbours ==
    ASSUME NEW A, Spread(A), NEW a, NEW head, NEW rank, NEW top, Linked(a, head, A, rank, top),
           NEW i \in A, NEW n, n = a[i + 1], NEW p, p = a[i + 2]
    PROVE  /\ n # 0 => n \in A \ {i} /\ a[n + 2] = i /\ n # head /\ rank[n] < rank[i]
           /\ p # 0 => p \in A \ {i} /\ a[p + 1] = i /\ i # head /\ rank[i] < rank[p]
           /\ p = 0 <=> i = head
           /\ \A j \in A \ {i} : a[j + 1] = i => j = p
           /\ \A j \in A \ {i} : a[j + 2] = i => j = n
           /\ n # p \/ (n = 0 /\ p = 0)
  <1>0. /\ rank \in [Index -> Nat] /\ A \subseteq Index /\ 0 \notin A
        /\ \A j \in A : rank[j] \in Nat
    BY SpreadIndex DEF Linked
  <1>1. n # 0 => n \in A /\ a[n + 2] = i /\ rank[n] < rank[i]
    BY DEF Linked
  <1>2. p = 0 <=> i = head
    BY <1>0 DEF Linked
  <1>3. p # 0 => p \in A /\ a[p + 1] = i
    BY <1>2 DEF Linked
  <1>4. p # 0 => rank[i] < rank[p]
    BY <1>0, <1>3 DEF Linked
  <1>5. n # 0 => n # i /\ n # head
    BY <1>0, <1>1 DEF Linked
  <1>6. p # 0 => p # i
    BY <1>0, <1>4
  <1>7. ASSUME NEW j \in A \ {i}, a[j + 1] = i PROVE j = p
    BY <1>0, <1>7 DEF Linked
  <1>8. ASSUME NEW j \in A \ {i}, a[j + 2] = i PROVE j = n
    BY <1>0, <1>8 DEF Linked
  <1>9. n # p \/ (n = 0 /\ p = 0)
    BY <1>0, <1>1, <1>3, <1>4
  <1> QED
    BY <1>1, <1>2, <1>3, <1>4, <1>5, <1>6, <1>7, <1>8, <1>9

\* What remove writes.
LEMMA RemoveWrites ==
    ASSUME NEW h, IsHeap(h), NEW A, Spread(A), NEW rank, NEW top,
           Linked(h.array, h.avail, A, rank, top),
           NEW i \in A
    PROVE  LET n == h.array[i + 1]
               p == h.array[i + 2]
               g == Remove(h, i)
           IN  /\ IsHeap(g)
               /\ g.avail = (IF p = 0 THEN n ELSE h.avail)
               /\ \A k \in Index : g.array[k] = (IF p # 0 /\ k = p + 1 THEN n
                                                ELSE IF n # 0 /\ k = n + 2 THEN p ELSE h.array[k])
  <1> SUFFICES ASSUME NEW n, n = h.array[i + 1], NEW p, p = h.array[i + 2], NEW g, g = Remove(h, i)
               PROVE  /\ IsHeap(g)
                      /\ g.avail = (IF p = 0 THEN n ELSE h.avail)
                      /\ \A k \in Index : g.array[k] = (IF p # 0 /\ k = p + 1 THEN n
                                                       ELSE IF n # 0 /\ k = n + 2 THEN p ELSE h.array[k])
    OBVIOUS
  <1>1. /\ n # 0 => n \in A \ {i}
        /\ p # 0 => p \in A \ {i}
        /\ n # p \/ (n = 0 /\ p = 0)
    <2>1. \A q, m : q = h.array[i + 2] /\ m = h.array[i + 1] =>
             /\ m # 0 => m \in A \ {i}
             /\ q # 0 => q \in A \ {i}
             /\ m # q \/ (m = 0 /\ q = 0)
      BY Neighbours
    <2> QED
      BY <2>1
  <1>2. i \in Nat /\ i + 1 \in Index /\ i + 2 \in Index /\ n \in Int /\ p \in Int
    BY SpreadIndex DEF IsHeap
  <1>3. /\ n # 0 => n \in Nat /\ n + 2 < HeapLen
        /\ p # 0 => p \in Nat /\ p + 2 < HeapLen
        /\ n # 0 /\ p # 0 => n + 2 # p + 1
    BY <1>1, SpreadIndex DEF Spread
  <1> DEFINE cut == IF p = 0 THEN [h EXCEPT !.avail = n] ELSE SetNext(h, p, n)
  <1>4. g = IF n = 0 THEN cut ELSE SetPrev(cut, n, p)
    BY DEF Remove, PrevOf, NextOf
  <1>5. /\ IsHeap(cut) /\ cut.avail = (IF p = 0 THEN n ELSE h.avail)
        /\ \A k \in Index : cut.array[k] = IF p # 0 /\ k = p + 1 THEN n ELSE h.array[k]
    <2>1. CASE p = 0
      <3>1. cut = [array |-> h.array, avail |-> n]
        BY <2>1 DEF IsHeap
      <3> QED
        BY <1>2, <2>1, <3>1 DEF IsHeap
    <2>2. CASE p # 0
      <3>1. /\ SetNext(h, p, n) = [array |-> [h.array EXCEPT ![p + 1] = n], avail |-> h.avail]
            /\ IsHeap(SetNext(h, p, n)) /\ p + 1 \in Index
        BY ONLY <1>2, <1>3, <2>2, SetLinks, IsHeap(h), HeapAssumption
      <3>2. h.array \in [Index -> Int]
        BY DEF IsHeap
      <3> QED
        BY ONLY <2>2, <3>1, <3>2
    <2> QED
      BY <2>1, <2>2
  <1> HIDE DEF cut
  <1>6. CASE n = 0
    BY <1>4, <1>5, <1>6
  <1>7. CASE n # 0
    <2>1. /\ g = [array |-> [cut.array EXCEPT ![n + 2] = p], avail |-> cut.avail]
          /\ IsHeap(g) /\ n + 2 \in Index
      BY ONLY <1>2, <1>3, <1>4, <1>5, <1>7, SetLinks, HeapAssumption
    <2>2. cut.array \in [Index -> Int]
      BY <1>5 DEF IsHeap
    <2>3. ASSUME NEW k \in Index
          PROVE g.array[k] = IF p # 0 /\ k = p + 1 THEN n ELSE IF k = n + 2 THEN p ELSE h.array[k]
      <3>1. g.array[k] = IF k = n + 2 THEN p ELSE cut.array[k]
        BY ONLY <2>1, <2>2
      <3> QED
        BY ONLY <1>3, <1>5, <1>7, <3>1
    <2> QED
      BY <1>5, <1>7, <2>1, <2>3
  <1> QED
    BY <1>6, <1>7

\* remove takes a block off the list and leaves the others on it, and writes nothing but links
\* of these.
LEMMA RemoveLinked ==
    ASSUME NEW h, IsHeap(h), NEW A, Spread(A), NEW rank, NEW top,
           Linked(h.array, h.avail, A, rank, top), NEW i \in A
    PROVE  /\ IsHeap(Remove(h, i))
           /\ Linked(Remove(h, i).array, Remove(h, i).avail, A \ {i}, rank, top)
           /\ \A k \in Index : k \notin Links(A \ {i}) => Remove(h, i).array[k] = h.array[k]
  <1> SUFFICES ASSUME NEW g, g = Remove(h, i)
               PROVE  /\ IsHeap(g) /\ Linked(g.array, g.avail, A \ {i}, rank, top)
                      /\ \A k \in Index : k \notin Links(A \ {i}) => g.array[k] = h.array[k]
    OBVIOUS
  <1> DEFINE a == h.array
             n == a[i + 1]
             p == a[i + 2]
             b == g.array
             D == A \ {i}
  <1>1. /\ n # 0 => n \in D /\ a[n + 2] = i /\ n # h.avail /\ rank[n] < rank[i]
        /\ p # 0 => p \in D /\ a[p + 1] = i /\ i # h.avail /\ rank[i] < rank[p]
        /\ p = 0 <=> i = h.avail
        /\ \A j \in D : a[j + 1] = i => j = p
        /\ \A j \in D : a[j + 2] = i => j = n
        /\ n # p \/ (n = 0 /\ p = 0)
    BY Neighbours
  <1>2. /\ IsHeap(g)
        /\ g.avail = (IF p = 0 THEN n ELSE h.avail)
        /\ \A k \in Index : b[k] = (IF p # 0 /\ k = p + 1 THEN n ELSE IF n # 0 /\ k = n + 2 THEN p ELSE a[k])
    <2>1. /\ IsHeap(Remove(h, i))
          /\ Remove(h, i).avail = (IF h.array[i + 2] = 0 THEN h.array[i + 1] ELSE h.avail)
          /\ \A k \in Index : Remove(h, i).array[k] =
                (IF h.array[i + 2] # 0 /\ k = h.array[i + 2] + 1 THEN h.array[i + 1]
                 ELSE IF h.array[i + 1] # 0 /\ k = h.array[i + 1] + 2 THEN h.array[i + 2] ELSE h.array[k])
      BY ONLY IsHeap(h), Spread(A), Linked(h.array, h.avail, A, rank, top), i \in A, RemoveWrites
    <2> QED
      BY ONLY <2>1, g = Remove(h, i)
  <1>3. \A j \in A : j \in Nat /\ j # 0 /\ j \in Index /\ j + 1 \in Index /\ j + 2 \in Index
    BY SpreadIndex
  <1>4. \A j, k \in A : j # k => j + 1 # k + 2 /\ j + 2 # k + 1
    BY <1>3 DEF Spread
  <1>5. top \in Nat /\ rank \in [Index -> Nat] /\ \A j \in A : rank[j] < top
    BY DEF Linked
  <1>6. \A j \in A : a[j + 1] = 0 \/ (a[j + 1] \in A /\ a[a[j + 1] + 2] = j /\ rank[a[j + 1]] < rank[j])
    BY DEF Linked
  <1>7. \A j \in A : IF j = h.avail THEN a[j + 2] = 0 ELSE a[j + 2] \in A /\ a[a[j + 2] + 1] = j
    BY DEF Linked
  <1>7a. h.avail \in A
    BY DEF Linked
  <1>8. A = {i} => p = 0 /\ n = 0
    BY <1>1
  <1>9. p = 0 /\ n = 0 => A = {i}
    <2>1. i = h.avail /\ a[i + 1] = 0 => A = {i}
      BY FirstLeads
    <2> QED
      BY <1>1, <2>1
  <1> HIDE DEF a, b, n, p
  <1>10. ASSUME NEW k \in Index, k \notin Links(D) PROVE b[k] = a[k]
    <2>1. p # 0 => k # p + 1
      BY <1>1, <1>10 DEF Links
    <2>2. n # 0 => k # n + 2
      BY <1>1, <1>10 DEF Links
    <2> QED
      BY <1>2, <2>1, <2>2
  <1>11. ASSUME NEW j \in D
         PROVE  /\ b[j + 1] = IF j = p THEN n ELSE a[j + 1]
                /\ b[j + 2] = IF j = n THEN p ELSE a[j + 2]
    <2>1. j \in Nat /\ j # 0 /\ j + 1 \in Index /\ j + 2 \in Index
      BY <1>3
    <2>2. (p # 0 => p \in Nat) /\ (n # 0 => n \in Nat)
      BY <1>1, <1>3
    <2>3. n # 0 => j + 1 # n + 2
      BY <1>1, <1>4, <2>1, <2>2
    <2>4. p # 0 => j + 2 # p + 1
      BY <1>1, <1>4, <2>1, <2>2
    <2>5. p # 0 => (j + 1 = p + 1 <=> j = p)
      BY <2>1, <2>2
    <2>6. n # 0 => (j + 2 = n + 2 <=> j = n)
      BY <2>1, <2>2
    <2> QED
      BY <1>2, <2>1, <2>3, <2>4, <2>5, <2>6
  <1>12. IF D = {} THEN g.avail = 0 ELSE g.avail \in D
    <2>1. D = {} <=> A = {i}
      OBVIOUS
    <2> QED
      BY <1>1, <1>2, <1>7a, <1>8, <1>9, <2>1
  <1>13. ASSUME NEW j \in D
         PROVE b[j + 1] = 0 \/ (b[j + 1] \in D /\ b[b[j + 1] + 2] = j /\ rank[b[j + 1]] < rank[j])
    <2>1. CASE j = p
      <3>1. b[j + 1] = n
        BY <1>11, <2>1
      <3>2. j # 0 /\ j # n
        BY <1>1, <1>3, <2>1
      <3>3. ASSUME n # 0 PROVE n \in D /\ b[n + 2] = p /\ rank[n] < rank[p]
        <4>1. rank[n] \in Nat /\ rank[i] \in Nat /\ rank[p] \in Nat
          BY <1>1, <1>3, <1>5, <2>1, <3>2, <3>3
        <4> QED
          BY <1>1, <1>11, <2>1, <3>2, <3>3, <4>1
      <3> QED
        BY <2>1, <3>1, <3>3
    <2>2. CASE j # p
      <3>1. b[j + 1] = a[j + 1] /\ a[j + 1] # i
        BY <1>1, <1>11, <2>2
      <3>2. ASSUME a[j + 1] # 0
            PROVE a[j + 1] \in D /\ b[a[j + 1] + 2] = j /\ rank[a[j + 1]] < rank[j]
        <4>1. a[j + 1] \in D /\ a[a[j + 1] + 2] = j /\ rank[a[j + 1]] < rank[j]
          BY <1>6, <3>1, <3>2
        <4>2. a[j + 1] # n
          BY <1>1, <1>3, <4>1
        <4> QED
          BY <1>11, <4>1, <4>2
      <3> QED
        BY <3>1, <3>2
    <2> QED
      BY <2>1, <2>2
  <1>14. ASSUME NEW j \in D
         PROVE IF j = g.avail THEN b[j + 2] = 0 ELSE b[j + 2] \in D /\ b[b[j + 2] + 1] = j
    <2>1. CASE j = n
      <3>1. b[j + 2] = p /\ j # 0 /\ j # h.avail
        BY <1>1, <1>3, <1>11, <2>1
      <3>2. CASE p = 0
        BY <1>2, <2>1, <3>1, <3>2
      <3>3. CASE p # 0
        <4>1. p \in D /\ b[p + 1] = n
          BY <1>1, <1>11, <3>3
        <4> QED
          BY <1>2, <2>1, <3>1, <3>3, <4>1
      <3> QED
        BY <3>2, <3>3
    <2>2. CASE j # n
      <3>1. b[j + 2] = a[j + 2] /\ a[j + 2] # i
        BY <1>1, <1>11, <2>2
      <3>2. CASE j = h.avail
        <4>1. a[j + 2] = 0 /\ p # 0
          BY <1>1, <1>7, <3>2
        <4> QED
          BY <1>2, <3>1, <3>2, <4>1
      <3>3. CASE j # h.avail
        <4>1. a[j + 2] \in D /\ a[a[j + 2] + 1] = j
          BY <1>7, <3>1, <3>3
        <4>2. a[j + 2] # p
          BY <1>1, <1>3, <4>1
        <4>3. b[a[j + 2] + 1] = j
          BY <1>11, <4>1, <4>2
        <4>4. j # g.avail
          BY <1>2, <2>2, <3>3
        <4> QED
          BY <3>1, <4>1, <4>3, <4>4
      <3> QED
        BY <3>2, <3>3
    <2> QED
      BY <2>1, <2>2
  <1>15. Linked(b, g.avail, D, rank, top)
    BY <1>5, <1>12, <1>13, <1>14 DEF Linked
  <1> QED
    BY <1>2, <1>10, <1>15 DEF a, b

\* Tags are two ints.
LEMMA TagWrites ==
    ASSUME NEW h, IsHeap(h), NEW i \in Nat, NEW n \in Nat, n >= 2, i + n <= HeapLen, NEW v \in Int
    PROVE  /\ IsHeap(Tag(h, i, n, v)) /\ Tag(h, i, n, v).avail = h.avail
           /\ i \in Index /\ i + n - 1 \in Index
           /\ \A k \in Index : Tag(h, i, n, v).array[k] = IF k = i \/ k = i + n - 1 THEN v ELSE h.array[k]
  <1> SUFFICES ASSUME NEW g, g = Tag(h, i, n, v)
               PROVE  /\ IsHeap(g) /\ g.avail = h.avail /\ i \in Index /\ i + n - 1 \in Index
                      /\ \A k \in Index : g.array[k] = IF k = i \/ k = i + n - 1 THEN v ELSE h.array[k]
    OBVIOUS
  <1>1. i \in Index /\ i + n - 1 \in Index
    BY HeapAssumption DEF Index
  <1>2. g = [array |-> [h.array EXCEPT ![i] = v, ![i + n - 1] = v], avail |-> h.avail]
    BY DEF IsHeap, Tag
  <1>3. [h.array EXCEPT ![i] = v, ![i + n - 1] = v] \in [Index -> Int]
    BY <1>1 DEF IsHeap
  <1>4. ASSUME NEW k \in Index PROVE g.array[k] = IF k = i \/ k = i + n - 1 THEN v ELSE h.array[k]
    BY <1>1, <1>2 DEF IsHeap
  <1> QED
    BY <1>1, <1>2, <1>3, <1>4 DEF IsHeap

\* g is h with a block of n ints at i on the list besides those of A.
Pushed(h, g, A, i, n) ==
    /\ IsHeap(g)
    /\ \E r, t : Linked(g.array, g.avail, A \cup {i}, r, t)
    /\ g.array[i] = n /\ g.array[i + n - 1] = n
    /\ \A k \in Index : k \notin {i, i + n - 1} \cup Links(A \cup {i}) => g.array[k] = h.array[k]

\* makeAvail tags a block and puts it before the others on the list.
LEMMA MakeAvailLinked ==
    ASSUME NEW h, IsHeap(h), NEW A, NEW rank, NEW top, Linked(h.array, h.avail, A, rank, top),
           NEW i \in Nat, i \notin A, Spread(A \cup {i}),
           NEW n \in Nat, n >= 4, i + n <= HeapLen,
           i \notin Links(A), i + n - 1 \notin Links(A)
    PROVE  Pushed(h, MakeAvail(h, i, n), A, i, n)
  <1> SUFFICES ASSUME NEW g, g = MakeAvail(h, i, n) PROVE Pushed(h, g, A, i, n)
    OBVIOUS
  <1> DEFINE x == Tag(h, i, n, n)
             y == SetNext(x, i, h.avail)
             z == SetPrev(y, i, 0)
             w == IF h.avail = 0 THEN z ELSE SetPrev(z, h.avail, i)
             a == h.array
             b == g.array
             f == h.avail
  <1>0. HeapLen \in Nat /\ i # 0 /\ i \in Index /\ i + 1 \in Index /\ i + 2 \in Index /\ i + 2 < HeapLen
    BY SpreadIndex, HeapAssumption
  <1>1. /\ IsHeap(x) /\ x.avail = f /\ i + n - 1 \in Index
        /\ \A k \in Index : x.array[k] = IF k = i \/ k = i + n - 1 THEN n ELSE a[k]
    <2>1. PICK v \in Int : v = n
      OBVIOUS
    <2>2. n >= 2
      OBVIOUS
    <2>3. /\ IsHeap(Tag(h, i, n, v)) /\ Tag(h, i, n, v).avail = h.avail /\ i + n - 1 \in Index
          /\ \A k \in Index : Tag(h, i, n, v).array[k] = IF k = i \/ k = i + n - 1 THEN v ELSE h.array[k]
      BY <2>2, TagWrites
    <2> QED
      BY ONLY <2>1, <2>3
  <1>2. f \in Int
    BY DEF IsHeap
  <1> HIDE DEF x
  <1>3. /\ IsHeap(y) /\ y = [array |-> [x.array EXCEPT ![i + 1] = f], avail |-> f]
    <2>1. IsHeap(x) /\ x.avail = f /\ f \in Int /\ i \in Nat /\ i + 2 < HeapLen
      BY <1>0, <1>1, <1>2
    <2>2. SetNext(x, i, f) = [array |-> [x.array EXCEPT ![i + 1] = f], avail |-> x.avail]
      BY ONLY <2>1, SetLinks
    <2>3. IsHeap(SetNext(x, i, f))
      BY ONLY <2>1, SetLinks
    <2> QED
      BY ONLY <2>1, <2>2, <2>3
  <1> HIDE DEF y
  <1>4. /\ IsHeap(z) /\ z = [array |-> [y.array EXCEPT ![i + 2] = 0], avail |-> f]
    <2>1. y.avail = f
      BY <1>3
    <2>2. IsHeap(y) /\ 0 \in Int /\ i \in Nat /\ i + 2 < HeapLen
      BY <1>0, <1>3
    <2>3. SetPrev(y, i, 0) = [array |-> [y.array EXCEPT ![i + 2] = 0], avail |-> y.avail]
      BY ONLY <2>2, SetLinks
    <2>4. IsHeap(SetPrev(y, i, 0))
      BY ONLY <2>2, SetLinks
    <2> QED
      BY ONLY <2>1, <2>3, <2>4
  <1> HIDE DEF z
  <1>5. IF A = {} THEN f = 0 ELSE f \in A /\ f # 0 /\ f \in Nat /\ f + 2 < HeapLen
    <2>1. IF A = {} THEN f = 0 ELSE f \in A
      BY DEF Linked
    <2>2. ASSUME f \in A PROVE f # 0 /\ f \in Nat /\ f + 2 < HeapLen
      BY <2>2, SpreadIndex
    <2> QED
      BY <2>1, <2>2
  <1>6. /\ IsHeap(w) /\ w.avail = f
        /\ f # 0 => w.array = [z.array EXCEPT ![f + 2] = i]
        /\ f = 0 => w.array = z.array
    <2>1. CASE f = 0
      BY <1>4, <2>1
    <2>2. CASE f # 0
      <3>1. f \in Nat /\ f + 2 < HeapLen /\ i \in Int /\ IsHeap(z) /\ z.avail = f
        BY <1>4, <1>5, <2>2
      <3>2. SetPrev(z, f, i) = [array |-> [z.array EXCEPT ![f + 2] = i], avail |-> z.avail]
            /\ IsHeap(SetPrev(z, f, i))
        BY ONLY <3>1, SetLinks
      <3> QED
        BY ONLY <2>2, <3>1, <3>2
    <2> QED
      BY <2>1, <2>2
  <1>7. g = [w EXCEPT !.avail = i]
    BY DEF MakeAvail, x, y, z
  <1> HIDE DEF w
  <1>8. IsHeap(g) /\ g.avail = i /\ b = w.array
    BY <1>6, <1>7 DEF IsHeap
  <1> HIDE DEF a, b, f
  <1>9. ASSUME NEW k \in Index
        PROVE b[k] = IF f # 0 /\ k = f + 2 THEN i ELSE IF k = i + 2 THEN 0 ELSE IF k = i + 1 THEN f
                     ELSE IF k = i \/ k = i + n - 1 THEN n ELSE a[k]
    <2>1. x.array[k] = IF k = i \/ k = i + n - 1 THEN n ELSE a[k]
      BY <1>1
    <2>2. y.array[k] = IF k = i + 1 THEN f ELSE x.array[k]
      BY <1>1, <1>3 DEF IsHeap
    <2>3. z.array[k] = IF k = i + 2 THEN 0 ELSE y.array[k]
      BY <1>3, <1>4 DEF IsHeap
    <2>4. w.array[k] = IF f # 0 /\ k = f + 2 THEN i ELSE z.array[k]
      BY <1>4, <1>6 DEF IsHeap
    <2> QED
      BY <1>8, <2>1, <2>2, <2>3, <2>4
  <1>10. \A j \in A : /\ j \in Nat /\ j # 0 /\ j \in Index /\ j + 1 \in Index /\ j + 2 \in Index
                      /\ j + 1 # i /\ j + 2 # i /\ j + 1 # i + n - 1 /\ j + 2 # i + n - 1
                      /\ j # i /\ j + 1 # i + 2 /\ j + 2 # i + 1
    <2>1. ASSUME NEW j \in A
          PROVE /\ j \in Nat /\ j # 0 /\ j \in Index /\ j + 1 \in Index /\ j + 2 \in Index
                /\ j + 4 <= i \/ i + 4 <= j
      <3>1. j \in A \cup {i} /\ i \in A \cup {i} /\ j # i
        OBVIOUS
      <3> QED
        BY <3>1, SpreadIndex DEF Spread
    <2>2. ASSUME NEW j \in A PROVE j + 1 # i /\ j + 2 # i /\ j + 1 # i + n - 1 /\ j + 2 # i + n - 1
      BY DEF Links
    <2> QED
      BY <2>1, <2>2
  <1>11. ASSUME NEW j \in A
         PROVE b[j + 1] = a[j + 1] /\ b[j + 2] = IF j = f THEN i ELSE a[j + 2]
    <2>1. f # 0 => j + 1 # f + 2
      <3>1. ASSUME f # 0 PROVE j + 1 # f + 2
        <4>1. f \in A \cup {i} /\ j \in A \cup {i} /\ f \in Nat /\ j \in Nat
          BY <1>5, <1>10, <3>1
        <4>2. f < j => f + 4 <= j
          BY <4>1 DEF Spread
        <4> QED
          BY <4>1, <4>2
      <3> QED
        BY <3>1
    <2>2. j \in Nat /\ j # 0 /\ (f # 0 => f \in Nat)
      BY <1>5, <1>10
    <2>3. b[j + 1] = a[j + 1]
      BY <1>0, <1>9, <1>10, <2>1, <2>2
    <2>4. b[j + 2] = IF j = f THEN i ELSE a[j + 2]
      BY <1>0, <1>9, <1>10, <2>2
    <2> QED
      BY <2>3, <2>4
  <1>12. b[i + 1] = f /\ b[i + 2] = 0
    <2>1. f # 0 => i + 1 # f + 2 /\ i + 2 # f + 2
      BY <1>5, <1>10
    <2> QED
      BY <1>0, <1>9, <2>1
  <1>13. b[i] = n /\ b[i + n - 1] = n
    <2>1. f # 0 => i # f + 2 /\ i + n - 1 # f + 2
      BY <1>5, <1>10
    <2> QED
      BY <1>0, <1>1, <1>9, <2>1
  <1>14. ASSUME NEW k \in Index, k \notin {i, i + n - 1} \cup Links(A \cup {i}) PROVE b[k] = a[k]
    <2>1. f # 0 => k # f + 2
      BY <1>5, <1>14 DEF Links
    <2> QED
      BY <1>9, <1>14, <2>1 DEF Links
  <1> DEFINE r == [rank EXCEPT ![i] = top]
             D == A \cup {i}
  <1>15. Linked(b, i, D, r, top + 1)
    <2>0. /\ top \in Nat /\ rank \in [Index -> Nat] /\ \A j \in A : rank[j] < top
          /\ \A j \in A :
                /\ a[j + 1] = 0 \/ (a[j + 1] \in A /\ a[a[j + 1] + 2] = j /\ rank[a[j + 1]] < rank[j])
                /\ IF j = f THEN a[j + 2] = 0 ELSE a[j + 2] \in A /\ a[a[j + 2] + 1] = j
      BY DEF Linked, a, f
    <2>1. r \in [Index -> Nat] /\ r[i] = top /\ (\A j \in A : r[j] = rank[j] /\ rank[j] \in Nat)
      BY <1>0, <1>10, <2>0
    <2>2. \A j \in D : r[j] < top + 1
      BY <2>0, <2>1
    <2>3. ASSUME NEW j \in A
          PROVE /\ b[j + 1] = 0 \/ (b[j + 1] \in D /\ b[b[j + 1] + 2] = j /\ r[b[j + 1]] < r[j])
                /\ b[j + 2] \in D /\ b[b[j + 2] + 1] = j
      <3>1. ASSUME a[j + 1] # 0 PROVE a[j + 1] \in A /\ b[a[j + 1] + 2] = j /\ r[a[j + 1]] < r[j]
        <4>1. a[j + 1] \in A /\ a[a[j + 1] + 2] = j /\ rank[a[j + 1]] < rank[j] /\ j # 0
          BY <1>10, <2>0, <3>1
        <4>2. a[j + 1] # f
          BY <2>0, <4>1
        <4> QED
          BY <1>11, <2>1, <4>1, <4>2
      <3>2. CASE j = f
        BY <1>11, <1>12, <3>1, <3>2
      <3>3. CASE j # f
        <4>1. a[j + 2] \in A /\ a[a[j + 2] + 1] = j
          BY <2>0, <3>3
        <4> QED
          BY <1>11, <3>1, <3>3, <4>1
      <3> QED
        BY <3>2, <3>3
    <2>4. b[i + 1] = 0 \/ (b[i + 1] \in D /\ b[b[i + 1] + 2] = i /\ r[b[i + 1]] < r[i])
      <3>1. CASE A = {}
        BY <1>5, <1>12, <3>1
      <3>2. CASE A # {}
        BY <1>5, <1>11, <1>12, <2>0, <2>1, <3>2
      <3> QED
        BY <3>1, <3>2
    <2>5. i \in D /\ D # {} /\ top + 1 \in Nat
      BY <2>0
    <2> HIDE DEF r
    <2>6. ASSUME NEW j \in D
          PROVE /\ b[j + 1] = 0 \/ (b[j + 1] \in D /\ b[b[j + 1] + 2] = j /\ r[b[j + 1]] < r[j])
                /\ IF j = i THEN b[j + 2] = 0 ELSE b[j + 2] \in D /\ b[b[j + 2] + 1] = j
      <3>1. CASE j = i
        BY <1>12, <2>4, <3>1
      <3>2. CASE j # i
        BY <2>3, <3>2
      <3> QED
        BY <3>1, <3>2
    <2> HIDE DEF D
    <2> QED
      BY <2>1, <2>2, <2>5, <2>6 DEF Linked
  <1> QED
    BY <1>8, <1>13, <1>14, <1>15 DEF a, b, Pushed

-----------------------------------------------------------------------------
(* malloc's carving and free's merging keep the shape.                      *)

\* A block of B other than i has no int of i's.
LEMMA Outside ==
    ASSUME NEW a, NEW B, Tiled(a, B), NEW i \in Heads(B), NEW j \in Heads(B), i # j,
           NEW m \in Int, j <= m, m < End(a, j)
    PROVE  m < i \/ m >= End(a, i)
  <1>1. End(a, i) \in Nat /\ End(a, j) \in Nat /\ i \in Nat /\ j \in Nat
    BY BlockNumbers
  <1>2. End(a, i) <= j \/ End(a, j) <= i
    BY Disjoint DEF Heads
  <1> QED
    BY <1>1, <1>2

\* Links are inside of available blocks.
LEMMA LinkInside ==
    ASSUME NEW a, NEW B, Tiled(a, B), NEW x \in Links(Avails(a, B))
    PROVE  \E j \in Avails(a, B) : j \in Heads(B) /\ x \in Int /\ j < x /\ x < End(a, j) - 1
  <1>1. PICK j \in Avails(a, B) : x = j + 1 \/ x = j + 2
    BY DEF Links
  <1>2. j \in Heads(B) /\ a[j] > 0
    BY DEF Avails
  <1>3. j \in Nat /\ Len4(a, j) \in Nat /\ Len4(a, j) >= 4 /\ End(a, j) = j + Len4(a, j)
    BY <1>2, BlockNumbers
  <1> QED
    BY <1>1, <1>2, <1>3

\* So they are no tags, and not in taken blocks.
LEMMA NoLink ==
    ASSUME NEW a, NEW B, Tiled(a, B), NEW k \in Heads(B)
    PROVE  /\ k \notin Links(Avails(a, B)) /\ End(a, k) - 1 \notin Links(Avails(a, B))
           /\ a[k] < 0 => \A m \in Int : k <= m /\ m < End(a, k) => m \notin Links(Avails(a, B))
  <1>0. k \in Nat /\ End(a, k) \in Nat /\ k < End(a, k) /\ a[k] \in Int
    BY BlockNumbers
  <1>1. ASSUME NEW m \in Int, k <= m, m < End(a, k), m \in Links(Avails(a, B))
        PROVE a[k] > 0 /\ k < m /\ m < End(a, k) - 1
    <2>1. PICK j \in Avails(a, B) : j \in Heads(B) /\ j < m /\ m < End(a, j) - 1
      BY <1>1, LinkInside
    <2>2. j \in Nat /\ End(a, j) \in Nat
      BY <2>1, BlockNumbers
    <2>3. j = k
      <3>1. CASE j # k
        <4>1. m < j \/ m >= End(a, j)
          BY <1>1, <2>1, <3>1, Outside
        <4> QED
          BY <1>1, <2>1, <2>2, <4>1
      <3> QED
        BY <3>1
    <2> QED
      BY <2>1, <2>3 DEF Avails
  <1>2. k \notin Links(Avails(a, B))
    BY <1>0, <1>1
  <1>3. End(a, k) - 1 \notin Links(Avails(a, B))
    <2>1. k <= End(a, k) - 1 /\ End(a, k) - 1 < End(a, k) /\ End(a, k) - 1 \in Int
      BY <1>0
    <2> QED
      BY <1>0, <1>1, <2>1
  <1>4. ASSUME a[k] < 0, NEW m \in Int, k <= m, m < End(a, k) PROVE m \notin Links(Avails(a, B))
    BY <1>0, <1>1, <1>4
  <1> QED
    BY <1>2, <1>3, <1>4

\* Fewer blocks have fewer links.
LEMMA LinksSubset == ASSUME NEW A, NEW D, D \subseteq A PROVE Links(D) \subseteq Links(A)
  BY DEF Links

\* g is h with the blocks of D on the list, of those of A.
Unlinked(h, g, A, D, rank, top) ==
    /\ IsHeap(g) /\ Linked(g.array, g.avail, D, rank, top)
    /\ \A k \in Index : k \notin Links(A) => g.array[k] = h.array[k]

\* A block leaves the list if it is on it.
LEMMA MaybeRemoved ==
    ASSUME NEW h, IsHeap(h), NEW A, Spread(A), NEW rank, NEW top,
           Linked(h.array, h.avail, A, rank, top),
           NEW i
    PROVE  Unlinked(h, IF i \in A THEN Remove(h, i) ELSE h, A, A \ {i}, rank, top)
  <1> SUFFICES ASSUME NEW g, g = IF i \in A THEN Remove(h, i) ELSE h
               PROVE  Unlinked(h, g, A, A \ {i}, rank, top)
    OBVIOUS
  <1>1. CASE i \in A
    <2>1. /\ IsHeap(g) /\ Linked(g.array, g.avail, A \ {i}, rank, top)
          /\ \A k \in Index : k \notin Links(A \ {i}) => g.array[k] = h.array[k]
      <3>1. g = Remove(h, i) /\ i \in A
        BY <1>1
      <3> QED
        <4>1. /\ IsHeap(Remove(h, i))
              /\ Linked(Remove(h, i).array, Remove(h, i).avail, A \ {i}, rank, top)
              /\ \A k \in Index : k \notin Links(A \ {i}) => Remove(h, i).array[k] = h.array[k]
          BY <3>1, RemoveLinked
        <4> QED
          BY ONLY <3>1, <4>1
    <2>2. Links(A \ {i}) \subseteq Links(A)
      BY LinksSubset
    <2> QED
      BY <2>1, <2>2 DEF Unlinked
  <1>2. CASE i \notin A
    <2>1. A \ {i} = A /\ g = h
      BY <1>2
    <2> QED
      BY <2>1 DEF Unlinked
  <1> QED
    BY <1>1, <1>2

\* What a shape says, with the list as a set with room.
LEMMA ShapeFacts ==
    ASSUME NEW h, NEW T, NEW B, NEW rank, NEW top, Shaped(h, T, B, rank, top)
    PROVE  /\ IsHeap(h) /\ Tiled(h.array, B) /\ Spread(Avails(h.array, B))
           /\ Linked(h.array, h.avail, Avails(h.array, B), rank, top)
           /\ Avails(h.array, B) \subseteq Heads(B) /\ T \subseteq Heads(B) /\ Ends \subseteq Heads(B)
           /\ Takens(h.array, B) = Ends \cup T
           /\ \A i \in Heads(B) : i \in Avails(h.array, B) <=> i \notin Takens(h.array, B)
           /\ \A i \in T : i \notin Ends /\ h.array[i] < 0 /\ Len4(h.array, i) >= 4
           /\ \A i \in Avails(h.array, B) : End(h.array, i) \notin Avails(h.array, B)
           /\ \A i \in Heads(B) \ {HeapLen - 2} : End(h.array, i) \in Heads(B)
  <1>1. IsHeap(h) /\ Tiled(h.array, B) /\ Linked(h.array, h.avail, Avails(h.array, B), rank, top)
    BY DEF Shaped
  <1>2. Takens(h.array, B) = Ends \cup T /\ T \cap Ends = {}
        /\ (\A i \in Avails(h.array, B) : End(h.array, i) \notin Avails(h.array, B))
        /\ \A i \in T : Len4(h.array, i) >= 4
    BY DEF Shaped
  <1>3. Spread(Avails(h.array, B))
    BY <1>1, <1>2, AvailsSpread DEF Ends
  <1>4. ASSUME NEW i \in Heads(B) PROVE i \in Avails(h.array, B) <=> i \notin Takens(h.array, B)
    <2>1. h.array[i] \in Int /\ h.array[i] # 0
      BY <1>1, BlockNumbers
    <2> QED
      BY <2>1 DEF Avails, Takens
  <1>5. ASSUME NEW i \in Heads(B) \ {HeapLen - 2} PROVE End(h.array, i) \in Heads(B)
    <2>1. HeapLen - 2 \in Heads(B) /\ HeapLen \in Nat
      BY <1>2, HeapAssumption DEF Takens, Ends
    <2>2. End(h.array, HeapLen - 2) > HeapLen - 1 /\ End(h.array, i) \in B
          /\ End(h.array, HeapLen - 2) \in Nat /\ End(h.array, HeapLen - 2) <= HeapLen /\ i \in Nat
      BY <1>1, <2>1, BlockNumbers
    <2>3. End(h.array, i) # HeapLen
      <3>1. End(h.array, i) <= HeapLen - 2 \/ End(h.array, HeapLen - 2) <= i
        BY <1>1, <2>1, Disjoint DEF Heads
      <3>2. i < HeapLen
        BY <1>1, <2>1, <2>2 DEF Tiled, Heads
      <3> QED
        BY <2>1, <2>2, <3>1, <3>2
    <2> QED
      BY <2>2, <2>3 DEF Heads
  <1> QED
    BY <1>1, <1>2, <1>3, <1>4, <1>5 DEF Avails, Takens

\* The tags of a block are outside of any other.
LEMMA TagsOutside ==
    ASSUME NEW a, NEW B, Tiled(a, B), NEW s \in Heads(B), NEW e \in B, s < e,
           NEW k \in Heads(B), k < s \/ k >= e
    PROVE  /\ k < s \/ k >= e
           /\ End(a, k) - 1 < s \/ End(a, k) - 1 >= e
           /\ k \in Index /\ End(a, k) - 1 \in Index
  <1>1. /\ k \in Nat /\ End(a, k) \in Nat /\ k < End(a, k) /\ End(a, k) <= HeapLen
        /\ k \in Index /\ s \in Nat /\ e \in Nat /\ HeapLen \in Nat
    <2>1. HeapLen \in Nat /\ e \in 0 .. HeapLen
      BY HeapAssumption DEF Tiled
    <2> QED
      BY <2>1, BlockNumbers
  <1>2. s <= k \/ s >= End(a, k)
    BY DEF Tiled, Block, Heads
  <1>3. End(a, k) - 1 \in Index
    BY <1>1 DEF Index
  <1> QED
    BY <1>1, <1>2, <1>3

\* What h has in the blocks of S, tags included, g has.
Kept(h, g, S) == \A j \in S : \A m \in j .. End(h.array, j) - 1 : g.array[m] = h.array[m]

\* g is h with n ints at i, or some more, taken, and the blocks of T left alone.
Took(h, g, T, i, n) == Shape(g, T \cup {i}) /\ n <= Len4(g.array, i) /\ Kept(h, g, T)

\* The available block at i becomes a taken one, which may leave some of it available.
LEMMA CarvedWhole ==
    ASSUME NEW h, NEW T, NEW B, NEW rank, NEW top, Shaped(h, T, B, rank, top),
           NEW i \in Avails(h.array, B)
    PROVE  Took(h, MakeTaken(Remove(h, i), i, Len4(h.array, i)), T, i, Len4(h.array, i))
  <1> SUFFICES ASSUME NEW g, g = MakeTaken(Remove(h, i), i, Len4(h.array, i))
               PROVE  Took(h, g, T, i, Len4(h.array, i))
    OBVIOUS
  <1> DEFINE a == h.array
             b == g.array
             A == Avails(a, B)
             n == Len4(a, i)
             e == End(a, i)
  <1>1. /\ IsHeap(h) /\ Tiled(a, B) /\ Spread(A) /\ Linked(a, h.avail, A, rank, top)
        /\ A \subseteq Heads(B) /\ T \subseteq Heads(B) /\ Takens(a, B) = Ends \cup T
        /\ \A j \in Heads(B) : j \in A <=> j \notin Takens(a, B)
        /\ \A j \in T : j \notin Ends /\ a[j] < 0 /\ Len4(a, j) >= 4
        /\ \A j \in A : End(a, j) \notin A
    BY ShapeFacts
  <1>2. /\ i \in Nat /\ i \in Index /\ n \in Nat /\ n >= 4 /\ e \in B /\ e = i + n /\ e <= HeapLen /\ e \in Nat
        /\ i \in Heads(B) /\ a[i] = n
    BY <1>1, BlockNumbers DEF Avails
  <1> HIDE DEF a, A, n, e, b
  <1>3. PICK out : /\ out = Remove(h, i) /\ IsHeap(out) /\ Linked(out.array, out.avail, A \ {i}, rank, top)
                   /\ \A k \in Index : k \notin Links(A \ {i}) => out.array[k] = a[k]
    <2>1. i \in A
      BY DEF A, a
    <2> QED
      <3>1. /\ IsHeap(Remove(h, i))
            /\ Linked(Remove(h, i).array, Remove(h, i).avail, A \ {i}, rank, top)
            /\ \A k \in Index : k \notin Links(A \ {i}) => Remove(h, i).array[k] = a[k]
        BY <1>1, <2>1, RemoveLinked DEF a
      <3> QED
        BY ONLY <3>1
  <1>4. /\ IsHeap(g) /\ g.avail = out.avail /\ e - 1 \in Index
        /\ \A k \in Index : b[k] = IF k = i \/ k = e - 1 THEN -n ELSE out.array[k]
    <2>1. g = Tag(out, i, n, -n) /\ n >= 2 /\ i + n <= HeapLen /\ -n \in Int /\ i + n - 1 = e - 1
      BY <1>2, <1>3 DEF MakeTaken, a, n
    <2>2. /\ IsHeap(Tag(out, i, n, -n)) /\ Tag(out, i, n, -n).avail = out.avail /\ i + n - 1 \in Index
          /\ \A k \in Index : Tag(out, i, n, -n).array[k] = IF k = i \/ k = i + n - 1 THEN -n ELSE out.array[k]
      BY ONLY <1>2, <1>3, <2>1, TagWrites
    <2> QED
      BY ONLY <2>1, <2>2 DEF b
  <1>5. Links(A \ {i}) \subseteq Links(A)
    BY LinksSubset
  <1>6. i \notin Links(A) /\ e - 1 \notin Links(A)
    BY <1>1, <1>2, NoLink DEF a, A, e
  <1>7. ASSUME NEW k \in Index, k # i, k # e - 1, k \notin Links(A) PROVE b[k] = a[k]
    BY <1>3, <1>4, <1>5, <1>7
  <1>8. b[i] = -n /\ b[e - 1] = -n
    BY <1>2, <1>4
  <1>9. Linked(b, g.avail, A \ {i}, rank, top)
    <2>1. Spread(A \ {i})
      BY <1>1 DEF Spread
    <2>2. ASSUME NEW k \in Links(A \ {i}) PROVE b[k] = out.array[k]
      <3>1. k \in Index
        BY <2>1, SpreadIndex DEF Links
      <3> QED
        BY <1>4, <1>5, <1>6, <3>1
    <2> QED
      BY <1>3, <1>4, <2>1, <2>2, LinkedSame
  <1>10. ASSUME NEW k \in Heads(B), k # i PROVE b[k] = a[k] /\ b[End(a, k) - 1] = a[k]
    <2>1. k < i \/ k >= e
      BY <1>1, <1>2, <1>10, BlockNumbers, Disjoint DEF Heads, a, e
    <2>2. /\ k \in Index /\ End(a, k) - 1 \in Index /\ i < e
          /\ End(a, k) - 1 < i \/ End(a, k) - 1 >= e
      BY <1>1, <1>2, <2>1, TagsOutside
    <2>3. k \notin Links(A) /\ End(a, k) - 1 \notin Links(A) /\ a[End(a, k) - 1] = a[k]
      BY <1>1, NoLink, BlockNumbers DEF A
    <2>4. k \in Nat /\ End(a, k) \in Nat
      BY <1>1, BlockNumbers
    <2> QED
      BY <1>2, <1>7, <1>10, <2>1, <2>2, <2>3, <2>4
  <1>11. Len4(b, i) = n /\ End(b, i) = e
    BY <1>2, <1>8 DEF Len4, End
  <1>12. Tiled(b, B)
    <2>1. Block(b, {i, e}, i)
      BY <1>2, <1>8, <1>11 DEF Block
    <2>2. {j \in B : j <= i \/ j >= e} \cup {i, e} = B
      BY <1>1, <1>2 DEF Tiled, Block, Heads, e
    <2>3. b \in [Index -> Int]
      BY <1>4 DEF IsHeap, b
    <2>4. \A k \in Heads(B) : k < i \/ k >= e => b[k] = a[k] /\ b[End(a, k) - 1] = a[k]
      BY <1>2, <1>10
    <2>5. {i, e} \subseteq i .. e /\ i < e /\ \A j \in {i, e} \ {e} : Block(b, {i, e}, j)
      BY <1>2, <2>1
    <2>6. Tiled(b, {j \in B : j <= i \/ j >= e} \cup {i, e})
      BY ONLY <1>1, <1>2, <2>3, <2>4, <2>5, Retile, i \in {i, e}, e \in {i, e}
    <2> QED
      BY <2>2, <2>6
  <1>13. ASSUME NEW k \in Heads(B), k # i PROVE Len4(b, k) = Len4(a, k) /\ End(b, k) = End(a, k)
    BY <1>10, <1>13 DEF Len4, End
  <1>14. Avails(b, B) = A \ {i}
    <2>1. ASSUME NEW k \in Heads(B) PROVE b[k] > 0 <=> a[k] > 0 /\ k # i
      BY <1>2, <1>8, <1>10
    <2> QED
      BY ONLY <1>1, <2>1 DEF Avails, A
  <1>15. Takens(b, B) = Takens(a, B) \cup {i}
    <2>1. ASSUME NEW k \in Heads(B) PROVE b[k] < 0 <=> a[k] < 0 \/ k = i
      BY <1>2, <1>8, <1>10
    <2> QED
      BY ONLY <1>2, <2>1 DEF Takens
  <1>16. i \notin Ends /\ i \in Heads(B)
    <2>1. i \in A
      BY DEF A, a
    <2> QED
      BY <1>1, <1>2, <2>1
  <1>17. \A j \in T \cup {i} : Len4(b, j) >= 4 /\ j \notin Ends
    BY <1>1, <1>2, <1>11, <1>13, <1>16
  <1>18. \A j \in A \ {i} : End(b, j) \notin A \ {i}
    BY <1>1, <1>13
  <1>19. Shaped(g, T \cup {i}, B, rank, top)
    <2>1. Takens(b, B) = Ends \cup (T \cup {i}) /\ (T \cup {i}) \cap Ends = {}
      BY <1>1, <1>15, <1>17
    <2> QED
      BY ONLY <1>4, <1>9, <1>12, <1>14, <1>17, <1>18, <2>1 DEF Shaped, b
  <1>20. ASSUME NEW j \in T, NEW m \in j .. End(a, j) - 1 PROVE b[m] = a[m]
    <2>1. j \in Heads(B) /\ a[j] < 0 /\ j # i
      BY <1>1, <1>2 DEF Avails, A
    <2>2. j \in Nat /\ End(a, j) \in Nat /\ End(a, j) <= HeapLen
      BY <1>1, <2>1, BlockNumbers
    <2>3. m \in Int /\ j <= m /\ m < End(a, j) /\ m \in Index
      BY <2>2, HeapAssumption DEF Index
    <2>4. m \notin Links(A)
      BY <1>1, <2>1, <2>3, NoLink DEF A
    <2>5. m < i \/ m >= e
      BY <1>1, <1>2, <2>1, <2>3, Outside DEF e
    <2> QED
      BY <1>2, <1>7, <2>3, <2>4, <2>5
  <1> QED
    BY <1>2, <1>11, <1>19, <1>20 DEF a, b, n, Took, Shape, Kept

\* Or what is over becomes a block.
LEMMA CarvedSplit ==
    ASSUME NEW h, NEW T, NEW B, NEW rank, NEW top, Shaped(h, T, B, rank, top),
           NEW i \in Avails(h.array, B), NEW n \in Nat, n >= 4, NEW extra, extra >= 4,
           extra = Len4(h.array, i) - n
    PROVE  Took(h, MakeAvail(MakeTaken(Remove(h, i), i, n), i + n, extra), T, i, n)
  <1> SUFFICES ASSUME NEW g, g = MakeAvail(MakeTaken(Remove(h, i), i, n), i + n, extra)
               PROVE  Took(h, g, T, i, n)
    OBVIOUS
  <1> DEFINE a == h.array
             b == g.array
             A == Avails(a, B)
             e == End(a, i)
             o == i + n
             D == (A \ {i}) \cup {o}
  <1>1. /\ IsHeap(h) /\ Tiled(a, B) /\ Spread(A) /\ Linked(a, h.avail, A, rank, top)
        /\ A \subseteq Heads(B) /\ T \subseteq Heads(B) /\ Takens(a, B) = Ends \cup T
        /\ \A j \in Heads(B) : j \in A <=> j \notin Takens(a, B)
        /\ \A j \in T : j \notin Ends /\ a[j] < 0 /\ Len4(a, j) >= 4
        /\ \A j \in A : End(a, j) \notin A
    BY ShapeFacts
  <1>2. /\ i \in Nat /\ i \in Index /\ Len4(a, i) \in Nat /\ e \in B /\ e = i + Len4(a, i) /\ e <= HeapLen
        /\ e \in Nat /\ i \in Heads(B) /\ a[i] > 0 /\ i > 0
    BY <1>1, BlockNumbers, SpreadIndex DEF Avails
  <1>3. /\ extra \in Nat /\ e = o + extra /\ o \in Nat /\ i + 4 <= o /\ o + 4 <= e /\ o < HeapLen
        /\ HeapLen \in Nat
    BY <1>2, HeapAssumption
  <1> HIDE DEF a, A, e, b, o
  <1>4. PICK out : /\ out = Remove(h, i) /\ IsHeap(out) /\ Linked(out.array, out.avail, A \ {i}, rank, top)
                   /\ \A k \in Index : k \notin Links(A \ {i}) => out.array[k] = a[k]
    <2>1. i \in A
      BY DEF A, a
    <2> QED
      <3>1. /\ IsHeap(Remove(h, i))
            /\ Linked(Remove(h, i).array, Remove(h, i).avail, A \ {i}, rank, top)
            /\ \A k \in Index : k \notin Links(A \ {i}) => Remove(h, i).array[k] = a[k]
        BY <1>1, <2>1, RemoveLinked DEF a
      <3> QED
        BY ONLY <3>1
  <1>5. PICK x : /\ x = MakeTaken(out, i, n) /\ IsHeap(x) /\ x.avail = out.avail /\ o - 1 \in Index
                 /\ \A k \in Index : x.array[k] = IF k = i \/ k = o - 1 THEN -n ELSE out.array[k]
    <2>1. n >= 2 /\ i + n <= HeapLen /\ -n \in Int /\ i + n - 1 = o - 1
      BY <1>2, <1>3 DEF o
    <2>2. PICK v \in Int : v = -n
      BY <2>1
    <2>3. /\ IsHeap(Tag(out, i, n, v)) /\ Tag(out, i, n, v).avail = out.avail /\ i + n - 1 \in Index
          /\ \A k \in Index : Tag(out, i, n, v).array[k] = IF k = i \/ k = i + n - 1 THEN v ELSE out.array[k]
      <3>1. IsHeap(out) /\ i \in Nat /\ n \in Nat /\ n >= 2 /\ i + n <= HeapLen /\ v \in Int
        BY <1>2, <1>4, <2>1
      <3> QED
        BY ONLY <3>1, TagWrites
    <2> QED
      BY ONLY <2>1, <2>2, <2>3 DEF MakeTaken
  <1>6. /\ Links(A \ {i}) \subseteq Links(A) /\ Spread(A \ {i})
        /\ \A k \in Links(A \ {i}) : k \in Index
    <2>1. Spread(A \ {i})
      BY <1>1 DEF Spread
    <2> QED
      BY <2>1, LinksSubset, SpreadIndex DEF Links
  <1>7. ASSUME NEW m \in Int, i <= m, m < e PROVE m \notin Links(A \ {i})
    <2>1. ASSUME NEW j \in A \ {i}, m = j + 1 \/ m = j + 2 PROVE FALSE
      <3>1. j \in Heads(B) /\ a[j] > 0 /\ j # i
        BY <2>1 DEF A, Avails
      <3>2. j \in Nat /\ End(a, j) = j + Len4(a, j) /\ Len4(a, j) \in Nat /\ Len4(a, j) >= 4
        BY <1>1, <3>1, BlockNumbers
      <3>3. j <= m /\ m < End(a, j)
        BY <2>1, <3>2
      <3>4. m < i \/ m >= e
        BY <1>1, <1>2, <3>1, <3>3, Outside DEF e
      <3> QED
        BY <1>2, <1>7, <3>4
    <2> QED
      BY <2>1 DEF Links
  <1>8. Linked(x.array, x.avail, A \ {i}, rank, top)
    <2>1. ASSUME NEW k \in Links(A \ {i}) PROVE x.array[k] = out.array[k]
      <3>1. i \in Int /\ i <= i /\ i < e /\ o - 1 \in Int /\ i <= o - 1 /\ o - 1 < e
        BY <1>2, <1>3
      <3>2. i \notin Links(A \ {i}) /\ o - 1 \notin Links(A \ {i})
        BY ONLY <1>7, <3>1
      <3> QED
        BY <1>5, <1>6, <3>2
    <2>2. Linked(x.array, out.avail, A \ {i}, rank, top)
      BY ONLY <1>4, <1>6, <2>1, LinkedSame
    <2> QED
      BY ONLY <1>5, <2>2
  <1>9. o \notin B /\ o \notin A
    BY <1>1, <1>2, <1>3 DEF Tiled, Block, Heads, e
  <1>10. Spread(D)
    <2>1. \A j \in A : j \in Nat /\ j # 0
      BY <1>1, SpreadIndex
    <2>2. ASSUME NEW j \in A \ {i} PROVE j < o => j + 4 <= o
      <3>1. j \in Heads(B) /\ j \in Nat
        BY <1>1, <2>1
      <3>2. j < i => j + 4 <= i
        BY <1>1 DEF Spread, A, a
      <3>3. i < j => e <= j
        BY <1>1, <1>2, <3>1, BlockNumbers DEF Tiled, Block, Heads, e
      <3> QED
        BY <1>2, <1>3, <2>2, <3>1, <3>2, <3>3
    <2>3. ASSUME NEW j \in A \ {i}, o < j PROVE o + 4 <= j
      <3>1. j \in Heads(B) /\ j \in Nat
        BY <1>1, <2>1
      <3>2. e <= j
        BY <1>1, <1>2, <1>3, <2>3, <3>1, BlockNumbers DEF Tiled, Block, Heads, e
      <3> QED
        BY <1>2, <1>3, <3>1, <3>2
    <2>4. o > 0 /\ o + 3 < HeapLen
      BY <1>2, <1>3
    <2>5. Spread(A \ {i})
      BY <1>6
    <2> QED
      BY ONLY <1>3, <2>2, <2>3, <2>4, <2>5 DEF Spread
  <1>11. /\ IsHeap(g)
         /\ \E r, t : Linked(b, g.avail, D, r, t)
         /\ b[o] = extra /\ b[e - 1] = extra
         /\ \A k \in Index : k \notin {o, e - 1} \cup Links(D) => b[k] = x.array[k]
    <2>1. o \in Int /\ i <= o /\ o < e /\ e - 1 \in Int /\ i <= e - 1 /\ e - 1 < e
      BY <1>2, <1>3
    <2>2. o \notin Links(A \ {i}) /\ e - 1 \notin Links(A \ {i})
      BY ONLY <1>7, <2>1
    <2>3. o \notin A \ {i} /\ o + extra - 1 = e - 1 /\ o + extra <= HeapLen
      BY <1>2, <1>3, <1>9
    <2>4. g = MakeAvail(x, o, extra)
      BY <1>4, <1>5 DEF o
    <2>5. o + extra - 1 \notin Links(A \ {i})
      BY <2>2, <2>3
    <2>6. /\ IsHeap(x) /\ Linked(x.array, x.avail, A \ {i}, rank, top) /\ o \in Nat /\ o \notin A \ {i}
          /\ Spread((A \ {i}) \cup {o}) /\ extra \in Nat /\ extra >= 4 /\ o + extra <= HeapLen
          /\ o \notin Links(A \ {i}) /\ o + extra - 1 \notin Links(A \ {i})
      BY <1>3, <1>5, <1>8, <1>10, <2>2, <2>3, <2>5
    <2>7. Pushed(x, MakeAvail(x, o, extra), A \ {i}, o, extra)
      BY ONLY <2>6, MakeAvailLinked
    <2> QED
      BY ONLY <2>3, <2>4, <2>7 DEF b, Pushed
  <1>12. Links(D) = Links(A \ {i}) \cup {o + 1, o + 2}
    BY DEF Links
  <1>13. ASSUME NEW k \in Index, k < i \/ k >= e, k \notin Links(A) PROVE b[k] = a[k]
    <2>1. k \in Nat
      BY <1>3 DEF Index
    <2>2. k \notin {o, e - 1, o + 1, o + 2, i, o - 1}
      BY <1>2, <1>3, <1>13, <2>1
    <2>3. k \notin Links(D) /\ k \notin Links(A \ {i})
      BY <1>6, <1>12, <1>13, <2>2
    <2> QED
      BY <1>4, <1>5, <1>11, <2>2, <2>3
  <1>14. b[i] = -n /\ b[o - 1] = -n
    <2>1. i \in Int /\ i <= i /\ i < e /\ o - 1 \in Int /\ i <= o - 1 /\ o - 1 < e
      BY <1>2, <1>3
    <2>2. i \notin Links(A \ {i}) /\ o - 1 \notin Links(A \ {i})
      BY ONLY <1>7, <2>1
    <2>3. i \notin {o, e - 1, o + 1, o + 2} /\ o - 1 \notin {o, e - 1, o + 1, o + 2}
      BY <1>2, <1>3
    <2>4. b[i] = x.array[i] /\ b[o - 1] = x.array[o - 1]
      BY <1>2, <1>5, <1>11, <1>12, <2>2, <2>3
    <2> QED
      BY <1>2, <1>5, <2>4
  <1>15. Len4(b, i) = n /\ End(b, i) = o /\ Len4(b, o) = extra /\ End(b, o) = e
    <2>1. ~(extra < 0) /\ -n < 0 /\ -(-n) = n
      BY <1>3
    <2> QED
      BY <1>3, <1>11, <1>14, <2>1 DEF Len4, End, o
  <1>16. ASSUME NEW k \in Heads(B), k # i
         PROVE b[k] = a[k] /\ b[End(a, k) - 1] = a[k] /\ Len4(b, k) = Len4(a, k) /\ End(b, k) = End(a, k)
    <2>1. k < i \/ k >= e
      BY <1>1, <1>2, <1>16, BlockNumbers, Disjoint DEF Heads, a, e
    <2>2. /\ k \in Index /\ End(a, k) - 1 \in Index /\ i < e
          /\ End(a, k) - 1 < i \/ End(a, k) - 1 >= e
      BY <1>1, <1>2, <1>3, <2>1, TagsOutside
    <2>3. k \notin Links(A) /\ End(a, k) - 1 \notin Links(A) /\ a[End(a, k) - 1] = a[k]
      BY <1>1, NoLink, BlockNumbers DEF A
    <2>4. b[k] = a[k] /\ b[End(a, k) - 1] = a[k]
      BY <1>13, <2>1, <2>2, <2>3
    <2> QED
      BY <2>4 DEF Len4, End
  <1> DEFINE E == B \cup {o}
  <1>17. Tiled(b, E)
    <2>1. Block(b, {i, o, e}, i)
      BY <1>2, <1>3, <1>14, <1>15 DEF Block
    <2>2. Block(b, {i, o, e}, o)
      BY <1>2, <1>3, <1>11, <1>15 DEF Block
    <2>3. {j \in B : j <= i \/ j >= e} \cup {i, o, e} = B \cup {o}
      BY <1>1, <1>2 DEF Tiled, Block, Heads, e
    <2>4. b \in [Index -> Int]
      BY <1>11 DEF IsHeap, b
    <2>5. \A k \in Heads(B) : k < i \/ k >= e => b[k] = a[k] /\ b[End(a, k) - 1] = a[k]
      BY <1>2, <1>3, <1>16
    <2>6. {i, o, e} \subseteq i .. e /\ i < e
      BY <1>2, <1>3
    <2>7. \A j \in {i, o, e} \ {e} : Block(b, {i, o, e}, j)
      BY <2>1, <2>2
    <2>8. Tiled(b, {j \in B : j <= i \/ j >= e} \cup {i, o, e})
      BY ONLY <1>1, <1>2, <2>4, <2>5, <2>6, <2>7, Retile, i \in {i, o, e}, e \in {i, o, e}
    <2> QED
      BY <2>3, <2>8
  <1>18. Heads(E) = Heads(B) \cup {o}
    BY <1>3 DEF Heads
  <1>19. Avails(b, E) = D
    <2>1. ASSUME NEW k \in Heads(B) PROVE b[k] > 0 <=> a[k] > 0 /\ k # i
      BY <1>2, <1>3, <1>14, <1>16
    <2>2. b[o] > 0 /\ o \notin Heads(B)
      BY <1>3, <1>9, <1>11 DEF Heads
    <2> QED
      BY ONLY <1>1, <1>18, <2>1, <2>2 DEF Avails, A
  <1>20. Takens(b, E) = Takens(a, B) \cup {i}
    <2>1. ASSUME NEW k \in Heads(B) PROVE b[k] < 0 <=> a[k] < 0 \/ k = i
      BY <1>2, <1>3, <1>14, <1>16
    <2>2. ~(b[o] < 0)
      BY <1>3, <1>11
    <2> QED
      BY ONLY <1>2, <1>18, <2>1, <2>2 DEF Takens
  <1>21. i \notin Ends /\ i \in A
    <2>1. i \in A
      BY DEF A, a
    <2> QED
      BY <1>1, <1>2, <2>1
  <1>22. \A j \in T \cup {i} : Len4(b, j) >= 4 /\ j \notin Ends
    BY <1>1, <1>2, <1>15, <1>16, <1>21
  <1>23. \A j \in D : End(b, j) \notin D
    <2>1. e \notin A /\ e # o
      BY <1>1, <1>3, <1>21 DEF e
    <2>2. ASSUME NEW j \in A \ {i} PROVE End(b, j) \notin D
      <3>1. j \in Heads(B) /\ End(a, j) \in B /\ End(a, j) \notin A
        BY <1>1, BlockNumbers
      <3> QED
        BY <1>9, <1>16, <3>1
    <2> QED
      BY <1>15, <2>1, <2>2
  <1> HIDE DEF D, E
  <1>24. Shape(g, T \cup {i})
    <2>1. Takens(b, E) = Ends \cup (T \cup {i}) /\ (T \cup {i}) \cap Ends = {}
      BY <1>1, <1>20, <1>22
    <2>2. PICK r, t : Linked(b, g.avail, D, r, t)
      BY <1>11
    <2>3. Shaped(g, T \cup {i}, E, r, t)
      BY ONLY <1>11, <1>17, <1>19, <1>22, <1>23, <2>1, <2>2 DEF Shaped, b
    <2> QED
      BY ONLY <2>3 DEF Shape
  <1>25. ASSUME NEW j \in T, NEW m \in j .. End(a, j) - 1 PROVE b[m] = a[m]
    <2>1. j \in Heads(B) /\ a[j] < 0 /\ j # i
      BY <1>1, <1>21
    <2>2. j \in Nat /\ End(a, j) \in Nat /\ End(a, j) <= HeapLen
      BY <1>1, <2>1, BlockNumbers
    <2>3. m \in Int /\ j <= m /\ m < End(a, j) /\ m \in Index
      BY <1>3, <2>2 DEF Index
    <2>4. m \notin Links(A)
      BY <1>1, <2>1, <2>3, NoLink DEF A
    <2>5. m < i \/ m >= e
      BY <1>1, <1>2, <2>1, <2>3, Outside DEF e
    <2> QED
      BY <1>13, <2>3, <2>4, <2>5
  <1> QED
    BY <1>15, <1>24, <1>25 DEF a, b, Took, Kept

\* malloc takes the block at i, which is long enough.
LEMMA Carved ==
    ASSUME NEW h, NEW T, NEW B, NEW rank, NEW top, Shaped(h, T, B, rank, top),
           NEW i \in Avails(h.array, B), NEW n \in Nat, n >= 4, n <= Len4(h.array, i)
    PROVE  Took(h, Carve(h, i, n), T, i, n)
  <1>1. i \in Heads(B) /\ Tiled(h.array, B)
    BY DEF Avails, Shaped
  <1>2. Size(h, i) = Len4(h.array, i) /\ Len4(h.array, i) \in Nat
    BY <1>1, BlockNumbers DEF Size, Len4
  <1>3. PICK extra : extra = Len4(h.array, i) - n
    OBVIOUS
  <1>4. CASE extra >= 4
    <2>1. Carve(h, i, n) = MakeAvail(MakeTaken(Remove(h, i), i, n), i + n, extra)
      BY <1>2, <1>3, <1>4 DEF Carve
    <2>2. Took(h, MakeAvail(MakeTaken(Remove(h, i), i, n), i + n, extra), T, i, n)
      BY <1>3, <1>4, CarvedSplit
    <2> QED
      BY <2>1, <2>2
  <1>5. CASE ~(extra >= 4)
    <2>1. Carve(h, i, n) = MakeTaken(Remove(h, i), i, Len4(h.array, i))
      BY <1>2, <1>3, <1>5 DEF Carve
    <2>2. Took(h, Carve(h, i, n), T, i, Len4(h.array, i))
      BY <2>1, CarvedWhole
    <2>3. PICK f : f = Carve(h, i, n)
      OBVIOUS
    <2>4. Len4(h.array, i) <= Len4(f.array, i) /\ Shape(f, T \cup {i}) /\ Kept(h, f, T)
      BY <2>2, <2>3 DEF Took
    <2>5. Len4(f.array, i) \in Int
      <3>1. PICK E, r, t : Shaped(f, T \cup {i}, E, r, t)
        BY <2>4 DEF Shape
      <3>2. i \in Heads(E) /\ Tiled(f.array, E)
        BY <3>1, ShapeFacts
      <3> QED
        BY <3>2, BlockNumbers
    <2> QED
      BY <1>2, <2>3, <2>4, <2>5 DEF Took
  <1> QED
    BY <1>4, <1>5

\* free merges the block at i with its neighbours, and leaves the other taken blocks alone.
LEMMA ReleasedShaped ==
    ASSUME NEW h, NEW T, NEW B, NEW rank, NEW top, Shaped(h, T, B, rank, top), NEW i \in T
    PROVE  Shape(Release(h, i), T \ {i}) /\ Kept(h, Release(h, i), T \ {i})
  <1> SUFFICES ASSUME NEW g, g = Release(h, i) PROVE Shape(g, T \ {i}) /\ Kept(h, g, T \ {i})
    OBVIOUS
  <1> DEFINE a == h.array
             b == g.array
             A == Avails(a, B)
             l == Left(h, i)
             r == End(a, i)
             s == IF l \in A THEN l ELSE i
             e == IF r \in A THEN End(a, r) ELSE r
             D == A \ {l, r}
  <1>1. /\ IsHeap(h) /\ Tiled(a, B) /\ Spread(A) /\ Linked(a, h.avail, A, rank, top)
        /\ A \subseteq Heads(B) /\ T \subseteq Heads(B) /\ Takens(a, B) = Ends \cup T
        /\ \A j \in Heads(B) : j \in A <=> j \notin Takens(a, B)
        /\ \A j \in T : j \notin Ends /\ a[j] < 0 /\ Len4(a, j) >= 4
        /\ \A j \in A : End(a, j) \notin A
        /\ \A j \in Heads(B) \ {HeapLen - 2} : End(a, j) \in Heads(B)
    BY ShapeFacts
  <1>2. /\ i \in Heads(B) /\ i \in Nat /\ i # 0 /\ i # HeapLen - 2 /\ i \notin A /\ a[i] < 0
        /\ Len4(a, i) \in Nat /\ Len4(a, i) >= 4 /\ r = i + Len4(a, i) /\ r \in Nat /\ r \in Heads(B)
    <2>1. i \in Heads(B) /\ i \notin Ends /\ a[i] < 0 /\ Len4(a, i) >= 4
      BY <1>1
    <2>2. i \notin A
      BY <1>1
    <2> QED
      BY <1>1, <2>1, <2>2, BlockNumbers DEF Ends
  <1>3. /\ l \in Heads(B) /\ End(a, l) = i /\ l < i /\ l \in Nat
        /\ \A j \in Heads(B) : End(a, j) = i => j = l
    <2>1. i \in B
      BY <1>2 DEF Heads
    <2>2. /\ l \in Heads(B) /\ End(a, l) = i /\ l < i
          /\ \A j \in Heads(B) : End(a, j) = i => j = l
      BY <1>1, <1>2, <2>1, LeftBlock
    <2> QED
      BY <1>1, <2>2, BlockNumbers
  <1>4. IsAvail(h, l) <=> l \in A
    BY <1>3 DEF IsAvail, Avails
  <1>5. IsAvail(h, r) <=> r \in A
    BY <1>2 DEF IsAvail, Avails
  <1>6. Right(h, i) = r /\ (r \in A => Right(h, r) = End(a, r))
    BY <1>2 DEF Right, Size, End, Len4
  <1>7. /\ r \in A => End(a, r) \in Nat /\ End(a, r) > r /\ End(a, r) \in B /\ End(a, r) <= HeapLen
        /\ r \in B /\ r <= HeapLen /\ HeapLen \in Nat
    BY <1>1, <1>2, BlockNumbers, HeapAssumption DEF Heads
  <1> HIDE DEF a, b, A, l, r
  <1>8. /\ s \in Nat /\ e \in Nat /\ s <= i /\ r <= e /\ e <= HeapLen /\ s + 4 <= e /\ e \in B /\ s \in Heads(B)
        /\ s \in {l, i} /\ e \in {r, End(a, r)}
    BY <1>2, <1>3, <1>7
  <1> HIDE DEF s, e
  <1>9. PICK below : /\ below = (IF IsAvail(h, l) THEN Remove(h, l) ELSE h)
                     /\ IsHeap(below) /\ Linked(below.array, below.avail, A \ {l}, rank, top)
                     /\ \A k \in Index : k \notin Links(A) => below.array[k] = a[k]
    <2>1. PICK f : f = IF l \in A THEN Remove(h, l) ELSE h
      OBVIOUS
    <2>2. Unlinked(h, IF l \in A THEN Remove(h, l) ELSE h, A, A \ {l}, rank, top)
      BY <1>1, MaybeRemoved DEF a
    <2> QED
      BY <1>4, <2>1, <2>2 DEF Unlinked, a
  <1>10. PICK both : /\ both = (IF IsAvail(h, r) THEN Remove(below, r) ELSE below)
                     /\ IsHeap(both) /\ Linked(both.array, both.avail, D, rank, top)
                     /\ \A k \in Index : k \notin Links(A) => both.array[k] = a[k]
    <2>1. PICK f : f = IF r \in A \ {l} THEN Remove(below, r) ELSE below
      OBVIOUS
    <2>2. Spread(A \ {l}) /\ Links(A \ {l}) \subseteq Links(A)
      BY <1>1, LinksSubset DEF Spread
    <2>3. Unlinked(below, IF r \in A \ {l} THEN Remove(below, r) ELSE below, A \ {l}, (A \ {l}) \ {r}, rank, top)
      BY <1>9, <2>2, MaybeRemoved
    <2>4. (A \ {l}) \ {r} = D /\ (r \in A \ {l} <=> IsAvail(h, r))
      BY <1>2, <1>3, <1>5
    <2> QED
      BY <1>9, <2>1, <2>2, <2>3, <2>4 DEF Unlinked
  <1>11. g = MakeAvail(both, s, e - s)
    BY <1>4, <1>5, <1>6, <1>9, <1>10 DEF Release, s, e, l
  <1>12. \A j \in B : j < s \/ j >= e \/ (j = l /\ s = l) \/ j = i \/ (j = r /\ e # r)
    <2>1. ASSUME NEW j \in B, s <= j, j < e PROVE (j = l /\ s = l) \/ j = i \/ (j = r /\ e # r)
      <3>1. j \in Nat
        BY <1>1 DEF Tiled
      <3>2. j <= l \/ j >= i
        BY <1>1, <1>3 DEF Tiled, Block
      <3>3. j <= i \/ j >= r
        BY <1>1, <1>2 DEF Tiled, Block, r
      <3>4. r \in A => j <= r \/ j >= End(a, r)
        BY <1>1, <1>2 DEF Tiled, Block
      <3>5. CASE j <= l
        BY <1>2, <1>3, <1>8, <2>1, <3>1, <3>5 DEF s
      <3>6. CASE j >= i /\ j <= i
        BY <1>2, <3>1, <3>6
      <3>7. CASE j >= r
        BY <1>2, <1>7, <2>1, <3>1, <3>4, <3>7 DEF e
      <3> QED
        BY <3>2, <3>3, <3>5, <3>6, <3>7
    <2>2. \A j \in B : j \in Nat
      BY <1>1 DEF Tiled
    <2> QED
      BY <1>8, <2>1, <2>2
  <1>13. \A j \in D : j \in Heads(B) /\ j \in Nat /\ (j < s \/ j >= e) /\ j # s
    <2>1. ASSUME NEW j \in D PROVE j \in Heads(B) /\ j \in Nat /\ (j < s \/ j >= e) /\ j # s
      <3>1. j \in A /\ j # l /\ j # r /\ j # i /\ j \in Heads(B) /\ j \in B
        BY <1>1, <1>2 DEF Heads
      <3>2. j < s \/ j >= e
        BY ONLY <1>12, <3>1
      <3> QED
        BY <1>1, <1>8, <3>1, <3>2, BlockNumbers
    <2> QED
      BY <2>1
  <1>14. Links(D) \subseteq Links(A) /\ s \notin Links(A) /\ e - 1 \notin Links(A)
    <2>1. e - 1 = End(a, i) - 1 \/ (r \in Heads(B) /\ e - 1 = End(a, r) - 1)
      BY <1>2 DEF e, r
    <2> QED
      BY <1>1, <1>2, <1>8, <2>1, NoLink, LinksSubset DEF A
  <1>15. Spread(D \cup {s})
    <2>1. Spread(D)
      BY <1>1 DEF Spread
    <2>2. s > 0
      <3>1. l \in A => l > 0
        BY <1>1 DEF Spread
      <3> QED
        BY <1>2, <3>1 DEF s
    <2>3. s + 3 < HeapLen
      BY <1>7, <1>8
    <2>4. ASSUME NEW j \in D PROVE (j < s => j + 4 <= s) /\ (s < j => s + 4 <= j)
      <3>1. j \in Heads(B) /\ j \in Nat /\ (j < s \/ j >= e) /\ j \in A
        BY <1>13
      <3>2. End(a, j) \in Nat /\ End(a, j) >= j + 4
        BY <1>1, <3>1, BlockNumbers DEF A, Avails
      <3>3. j < s => End(a, j) <= s
        BY <1>1, <1>8, <3>1, <3>2, Disjoint DEF Heads
      <3> QED
        BY <1>8, <3>1, <3>2, <3>3
    <2> QED
      BY ONLY <1>8, <2>1, <2>2, <2>3, <2>4 DEF Spread
  <1>16. Pushed(both, g, D, s, e - s)
    <2>1. PICK n \in Nat : n = e - s
      BY <1>8
    <2>2. /\ IsHeap(both) /\ Linked(both.array, both.avail, D, rank, top) /\ s \in Nat /\ s \notin D
          /\ Spread(D \cup {s}) /\ n \in Nat /\ n >= 4 /\ s + n <= HeapLen
          /\ s \notin Links(D) /\ s + n - 1 \notin Links(D)
      <3>1. s + n - 1 = e - 1 /\ n >= 4 /\ s + n <= HeapLen
        BY <1>7, <1>8, <2>1
      <3> QED
        BY <1>8, <1>10, <1>13, <1>14, <1>15, <3>1
    <2>3. Pushed(both, MakeAvail(both, s, n), D, s, n)
      BY ONLY <2>2, MakeAvailLinked
    <2> QED
      BY <1>11, <2>1, <2>3
  <1>17. /\ IsHeap(g) /\ (\E q, t : Linked(b, g.avail, D \cup {s}, q, t))
         /\ b[s] = e - s /\ b[e - 1] = e - s
         /\ \A k \in Index : k \notin {s, e - 1} \cup Links(D \cup {s}) => b[k] = both.array[k]
    <2>1. s + (e - s) - 1 = e - 1
      BY <1>8
    <2> QED
      BY <1>16, <2>1 DEF Pushed, b
  <1>18. ASSUME NEW k \in Index, k < s \/ k >= e, k \notin Links(A) PROVE b[k] = a[k]
    <2>1. k \in Nat
      BY <1>7 DEF Index
    <2>2. k \notin {s, e - 1, s + 1, s + 2}
      BY <1>8, <1>18, <2>1
    <2>3. Links(D \cup {s}) = Links(D) \cup {s + 1, s + 2}
      BY DEF Links
    <2>4. k \notin {s, e - 1} \cup Links(D \cup {s})
      BY <1>14, <1>18, <2>2, <2>3
    <2> QED
      BY <1>10, <1>17, <1>18, <2>4
  <1>19. ASSUME NEW k \in Heads(B), k < s \/ k >= e
         PROVE b[k] = a[k] /\ b[End(a, k) - 1] = a[k] /\ Len4(b, k) = Len4(a, k) /\ End(b, k) = End(a, k)
    <2>1. /\ k \in Index /\ End(a, k) - 1 \in Index
          /\ End(a, k) - 1 < s \/ End(a, k) - 1 >= e
      <3>1. s < e
        BY <1>8
      <3> QED
        BY <1>1, <1>8, <1>19, <3>1, TagsOutside
    <2>2. k \notin Links(A) /\ End(a, k) - 1 \notin Links(A) /\ a[End(a, k) - 1] = a[k]
      BY <1>1, NoLink, BlockNumbers DEF A
    <2>3. b[k] = a[k] /\ b[End(a, k) - 1] = a[k]
      BY <1>18, <1>19, <2>1, <2>2
    <2> QED
      BY <2>3 DEF Len4, End
  <1>20. b[s] > 0 /\ Len4(b, s) = e - s /\ End(b, s) = e
    BY <1>8, <1>17 DEF Len4, End
  <1> DEFINE E == {j \in B : j <= s \/ j >= e} \cup {s, e}
  <1>21. Tiled(b, E)
    <2>1. Block(b, {s, e}, s)
      BY <1>8, <1>17, <1>20 DEF Block
    <2>2. b \in [Index -> Int]
      BY <1>17 DEF IsHeap, b
    <2>3. \A k \in Heads(B) : k < s \/ k >= e => b[k] = a[k] /\ b[End(a, k) - 1] = a[k]
      BY <1>19
    <2>4. {s, e} \subseteq s .. e /\ s < e /\ (\A j \in {s, e} \ {e} : Block(b, {s, e}, j))
      BY <1>8, <2>1
    <2> QED
      BY ONLY <1>1, <1>8, <2>2, <2>3, <2>4, Retile, s \in {s, e}, e \in {s, e}
  <1>22. \A j \in Heads(E) : j = s \/ (j \in Heads(B) /\ (j < s \/ j >= e))
    <2>1. \A j \in B : j \in Nat
      BY <1>1 DEF Tiled
    <2> QED
      BY <1>8, <2>1 DEF Heads
  <1>23. \A j \in Heads(B) : j < s \/ j >= e => j \in Heads(E) /\ j # s
    <2>1. \A j \in Heads(B) : j \in Nat
      BY <1>1, BlockNumbers
    <2> QED
      BY <1>8, <2>1 DEF Heads
  <1>24. s \in Heads(E)
    BY <1>8 DEF Heads
  <1> HIDE DEF E
  <1>25. Avails(b, E) = D \cup {s}
    <2>1. ASSUME NEW j \in Avails(b, E), j # s PROVE j \in D
      <3>1. j \in Heads(B) /\ (j < s \/ j >= e) /\ b[j] > 0
        BY <1>22, <2>1 DEF Avails
      <3>2. j \in A
        BY <1>19, <3>1 DEF A, Avails
      <3>3. j # l
        BY <1>2, <1>3, <1>8, <3>1, <3>2 DEF s
      <3>4. j # r
        BY <1>2, <1>3, <1>7, <1>8, <3>1, <3>2 DEF e
      <3> QED
        BY <3>2, <3>3, <3>4
    <2>2. ASSUME NEW j \in D PROVE j \in Avails(b, E)
      <3>1. j \in Heads(B) /\ (j < s \/ j >= e) /\ a[j] > 0
        BY <1>13 DEF A, Avails
      <3> QED
        BY <1>19, <1>23, <3>1 DEF Avails
    <2>3. s \in Avails(b, E)
      BY <1>20, <1>24 DEF Avails
    <2> QED
      BY <2>1, <2>2, <2>3
  <1>26. Takens(b, E) = Takens(a, B) \ {i}
    <2>1. ASSUME NEW j \in Takens(b, E) PROVE j \in Takens(a, B) \ {i}
      <3>1. j \in Heads(E) /\ b[j] < 0 /\ j # s
        BY <1>8, <1>17, <1>20 DEF Takens
      <3>2. j \in Heads(B) /\ (j < s \/ j >= e)
        BY <1>22, <3>1
      <3>3. j # i
        BY <1>2, <1>8, <3>2
      <3> QED
        BY <1>19, <3>1, <3>2, <3>3 DEF Takens
    <2>2. ASSUME NEW j \in Takens(a, B), j # i PROVE j \in Takens(b, E)
      <3>1. j \in Heads(B) /\ a[j] < 0 /\ j \notin A /\ j \in B
        BY <1>1, <2>2 DEF Takens, Heads
      <3>2. j < s \/ j >= e
        <4>1. ~(j = l /\ s = l)
          BY <1>2, <1>3, <3>1 DEF s
        <4>2. ~(j = r /\ e # r)
          BY <3>1 DEF e
        <4> QED
          BY ONLY <1>12, <2>2, <3>1, <4>1, <4>2
      <3> QED
        BY <1>19, <1>23, <3>1, <3>2 DEF Takens
    <2> QED
      BY <2>1, <2>2
  <1>27. \A j \in T \ {i} : Len4(b, j) >= 4 /\ j \notin Ends
    <2>1. ASSUME NEW j \in T \ {i} PROVE Len4(b, j) >= 4 /\ j \notin Ends
      <3>1. j \in Takens(b, E) /\ j \in Heads(B) /\ a[j] < 0
        BY <1>1, <1>26
      <3>2. j # s
        BY <1>8, <1>20, <1>17, <3>1 DEF Takens
      <3>3. j < s \/ j >= e
        BY <1>22, <3>1, <3>2 DEF Takens
      <3> QED
        BY <1>1, <1>19, <3>1, <3>3
    <2> QED
      BY <2>1
  <1>28. \A j \in D \cup {s} : End(b, j) \notin D \cup {s}
    <2>1. e \notin D /\ e # s
      <3>1. r \in A => End(a, r) \notin A
        BY <1>1
      <3> QED
        BY <1>8, <3>1 DEF e
    <2>2. ASSUME NEW j \in D PROVE End(b, j) \notin D \cup {s}
      <3>1. j \in Heads(B) /\ End(b, j) = End(a, j) /\ j \in A /\ j # l
        BY <1>13, <1>19
      <3>2. End(a, j) \notin A
        BY <1>1, <3>1
      <3>3. End(a, j) # s
        BY <1>3, <3>1, <3>2 DEF s
      <3> QED
        BY <3>1, <3>2, <3>3
    <2> QED
      BY <1>20, <2>1, <2>2
  <1>29. Shape(g, T \ {i})
    <2>1. Takens(b, E) = Ends \cup (T \ {i}) /\ (T \ {i}) \cap Ends = {}
      BY <1>1, <1>26, <1>27
    <2>2. PICK q, t : Linked(b, g.avail, D \cup {s}, q, t)
      BY <1>17
    <2>3. \A j \in T \ {i} : Len4(b, j) >= 4
      BY <1>27
    <2>4. Shaped(g, T \ {i}, E, q, t)
      BY ONLY <1>17, <1>21, <1>25, <1>28, <2>1, <2>2, <2>3 DEF Shaped, b
    <2> QED
      BY ONLY <2>4 DEF Shape
  <1>30. ASSUME NEW j \in T \ {i}, NEW m \in j .. End(a, j) - 1 PROVE b[m] = a[m]
    <2>1. j \in Heads(B) /\ a[j] < 0 /\ j \in Takens(b, E)
      BY <1>1, <1>26
    <2>2. j \in Nat /\ End(a, j) \in Nat /\ End(a, j) <= HeapLen
      BY <1>1, <2>1, BlockNumbers
    <2>3. m \in Int /\ j <= m /\ m < End(a, j) /\ m \in Index
      BY <1>7, <2>2 DEF Index
    <2>4. m \notin Links(A)
      BY <1>1, <2>1, <2>3, NoLink DEF A
    <2>5. j # s
      BY <1>8, <1>20, <1>17, <2>1 DEF Takens
    <2>6. j < s \/ j >= e
      BY <1>22, <2>1, <2>5 DEF Takens
    <2>7. j < s => End(a, j) <= s
      BY <1>1, <1>8, <2>1, <2>2, Disjoint DEF Heads
    <2>8. m < s \/ m >= e
      BY <1>8, <2>2, <2>3, <2>6, <2>7
    <2> QED
      BY <1>18, <2>3, <2>4, <2>8
  <1>31. Kept(h, g, T \ {i})
    BY <1>30 DEF Kept, a, b
  <1> QED
    BY <1>29, <1>31

-----------------------------------------------------------------------------
(* The list as a sequence.                                                  *)

\* f is the first of the lists FreeList builds, up to the N-th.
IsChain(f, h, N) == f = [n \in 0 .. N |-> IF n = 0 THEN <<>> ELSE Follow(h, f[n - 1])]

\* There are such lists, so FreeList is the last of them.
LEMMA ChainExists == \A h, N : N \in Nat => \E f : IsChain(f, h, N)
  <1> SUFFICES ASSUME NEW h PROVE \A N \in Nat : \E f : IsChain(f, h, N)
    OBVIOUS
  <1> DEFINE S == {N \in Nat : \E f : IsChain(f, h, N)}
  <1>1. 0 \in S
    <2>1. IsChain([n \in 0 .. 0 |-> <<>>], h, 0)
      BY DEF IsChain
    <2> QED
      BY <2>1
  <1>2. ASSUME NEW N \in Nat, N \in S PROVE N + 1 \in S
    <2>1. PICK f : IsChain(f, h, N)
      BY <1>2
    <2> DEFINE g == [n \in 0 .. N + 1 |-> IF n = N + 1 THEN Follow(h, f[N]) ELSE f[n]]
    <2>2. ASSUME NEW n \in 0 .. N + 1 PROVE g[n] = IF n = 0 THEN <<>> ELSE Follow(h, g[n - 1])
      <3>1. CASE n = N + 1
        <4>1. n # 0 /\ n - 1 = N /\ N \in 0 .. N + 1 /\ N # N + 1
          BY <3>1
        <4>2. g[n - 1] = f[N] /\ g[n] = Follow(h, f[N])
          BY <3>1, <4>1
        <4> QED
          BY ONLY <4>1, <4>2
      <3>2. CASE n # N + 1
        <4>1. n \in 0 .. N /\ g[n] = f[n]
          BY <3>2
        <4>2. f[n] = IF n = 0 THEN <<>> ELSE Follow(h, f[n - 1])
          BY <2>1, <4>1 DEF IsChain
        <4>3. CASE n # 0
          <5>1. n - 1 \in 0 .. N + 1 /\ n - 1 # N + 1
            BY <4>1, <4>3
          <5>2. g[n - 1] = f[n - 1]
            BY <5>1
          <5> QED
            BY ONLY <4>1, <4>2, <4>3, <5>2
        <4> QED
          BY ONLY <4>1, <4>2, <4>3
      <3> QED
        BY <3>1, <3>2
    <2>3. IsChain(g, h, N + 1)
      <3>1. g = [n \in 0 .. N + 1 |-> g[n]]
        OBVIOUS
      <3> HIDE DEF g
      <3> QED
        BY ONLY <2>2, <3>1 DEF IsChain
    <2> QED
      BY <2>3
  <1> HIDE DEF S
  <1>3. Nat \subseteq S
    BY <1>1, <1>2, SetInduction
  <1> QED
    BY <1>3 DEF S

\* FreeList is the last of HeapLen \div 4 + 1 lists, of which each follows the one before.
LEMMA FreeListIs ==
    ASSUME NEW h
    PROVE  \E f : IsChain(f, h, HeapLen \div 4) /\ FreeList(h) = f[HeapLen \div 4]
  <1> DEFINE chain == CHOOSE f : f = [n \in 0 .. HeapLen \div 4 |-> IF n = 0 THEN <<>> ELSE Follow(h, f[n - 1])]
  <1>1. HeapLen \div 4 \in Nat
    BY HeapAssumption
  <1>2. PICK f : IsChain(f, h, HeapLen \div 4)
    BY <1>1, ChainExists
  <1>3. chain = [n \in 0 .. HeapLen \div 4 |-> IF n = 0 THEN <<>> ELSE Follow(h, chain[n - 1])]
    BY <1>2 DEF IsChain
  <1>4. FreeList(h) = chain[HeapLen \div 4]
    BY DEF FreeList
  <1> HIDE DEF chain
  <1> QED
    BY <1>3, <1>4 DEF IsChain

\* s is the beginning of the list, in its order.
Listed(h, A, rank, s) ==
    /\ s \in Seq(A)
    /\ s # <<>> => s[1] = h.avail
    /\ \A k \in 1 .. Len(s) : h.array[s[k] + 2] = IF k = 1 THEN 0 ELSE s[k - 1]
    /\ \A k \in 1 .. Len(s) : k # Len(s) => h.array[s[k] + 1] = s[k + 1]
    /\ \A j, k \in 1 .. Len(s) : j < k => rank[s[k]] < rank[s[j]]

\* No block comes after those of s.
Over(h, s) == IF s = <<>> THEN h.avail = 0 ELSE h.array[s[Len(s)] + 1] = 0

\* s has all of A.
Complete(s, A) == \A x \in A : \E k \in 1 .. Len(s) : s[k] = x

\* What Follow makes of the beginning of the list is one too.
LEMMA FollowListed ==
    ASSUME NEW h, NEW A, Spread(A), NEW rank, NEW top, Linked(h.array, h.avail, A, rank, top),
           NEW s, Listed(h, A, rank, s)
    PROVE  /\ Listed(h, A, rank, Follow(h, s))
           /\ Follow(h, s) = s \/ Len(Follow(h, s)) = Len(s) + 1
           /\ Follow(h, s) = s => Over(h, s)
  <1>1. PICK n : n = IF s = <<>> THEN h.avail ELSE h.array[s[Len(s)] + 1]
    OBVIOUS
  <1>2. Follow(h, s) = IF n = 0 THEN s ELSE Append(s, n)
    BY <1>1 DEF Follow, NextOf
  <1>3. CASE n = 0
    BY <1>1, <1>2, <1>3 DEF Over
  <1>4. CASE n # 0
    <2>1. s \in Seq(A) /\ Len(s) \in Nat /\ (s # <<>> => Len(s) \in 1 .. Len(s) /\ s[Len(s)] \in A)
      BY DEF Listed
    <2>2. n \in A
      BY <1>1, <1>4, <2>1 DEF Linked
    <2>3. PICK t : t = Append(s, n)
      OBVIOUS
    <2>4. /\ t \in Seq(A) /\ Len(t) = Len(s) + 1 /\ t[Len(s) + 1] = n
          /\ \A k \in 1 .. Len(s) : t[k] = s[k]
      BY <2>1, <2>2, <2>3
    <2>5. \A j \in A : rank[j] \in Nat
      <3>1. \A j \in A : j \in Index
        BY SpreadIndex
      <3> QED
        BY <3>1 DEF Linked
    <2>6. t[1] = h.avail
      <3>1. CASE s = <<>>
        BY <1>1, <2>1, <2>4, <3>1
      <3>2. CASE s # <<>>
        <4>1. 1 \in 1 .. Len(s)
          BY <2>1, <3>2
        <4> QED
          BY <2>4, <4>1, <3>2 DEF Listed
      <3> QED
        BY <3>1, <3>2
    <2>7. s # <<>> => h.array[n + 2] = s[Len(s)] /\ rank[n] < rank[s[Len(s)]]
      BY <1>1, <1>4, <2>1 DEF Linked
    <2>8. s = <<>> => h.array[n + 2] = 0
      BY <1>1, <2>2 DEF Linked
    <2>9. ASSUME NEW k \in 1 .. Len(t) PROVE h.array[t[k] + 2] = IF k = 1 THEN 0 ELSE t[k - 1]
      <3>1. CASE k = Len(s) + 1
        <4>1. CASE s = <<>>
          BY <2>4, <2>8, <3>1, <4>1
        <4>2. CASE s # <<>>
          <5>1. k # 1 /\ k - 1 = Len(s) /\ t[k - 1] = s[Len(s)] /\ t[k] = n
            BY <2>1, <2>4, <3>1, <4>2
          <5> QED
            BY <2>7, <4>2, <5>1
        <4> QED
          BY <4>1, <4>2
      <3>2. CASE k \in 1 .. Len(s)
        <4>1. h.array[s[k] + 2] = IF k = 1 THEN 0 ELSE s[k - 1]
          BY <3>2 DEF Listed
        <4>2. k # 1 => k - 1 \in 1 .. Len(s)
          BY <2>1, <3>2
        <4> QED
          BY <2>4, <3>2, <4>1, <4>2
      <3> QED
        BY <2>1, <2>4, <3>1, <3>2
    <2>10. ASSUME NEW k \in 1 .. Len(t), k # Len(t) PROVE h.array[t[k] + 1] = t[k + 1]
      <3>1. k \in 1 .. Len(s)
        BY <2>1, <2>4, <2>10
      <3>2. CASE k = Len(s)
        <4>1. s # <<>> /\ t[k] = s[Len(s)] /\ t[k + 1] = n
          BY <2>1, <2>4, <3>1, <3>2
        <4> QED
          BY <1>1, <4>1
      <3>3. CASE k # Len(s)
        <4>1. k + 1 \in 1 .. Len(s) /\ h.array[s[k] + 1] = s[k + 1]
          <5>1. h.array[s[k] + 1] = s[k + 1]
            BY <3>1, <3>3 DEF Listed
          <5> QED
            BY <2>1, <3>1, <3>3, <5>1
        <4> QED
          BY <2>4, <3>1, <4>1
      <3> QED
        BY <3>2, <3>3
    <2>11. ASSUME NEW j \in 1 .. Len(t), NEW k \in 1 .. Len(t), j < k PROVE rank[t[k]] < rank[t[j]]
      <3>1. j \in 1 .. Len(s) /\ t[j] = s[j]
        BY <2>1, <2>4, <2>11
      <3>2. CASE k \in 1 .. Len(s)
        BY <2>4, <2>11, <3>1, <3>2 DEF Listed
      <3>3. CASE k = Len(s) + 1
        <4>1. s # <<>> /\ t[k] = n /\ Len(s) \in 1 .. Len(s) /\ s[j] \in A /\ j \in Nat
          BY <2>1, <2>4, <3>1, <3>3
        <4>2. j # Len(s) => rank[s[Len(s)]] < rank[s[j]]
          <5>1. j # Len(s) => j < Len(s)
            BY <2>1, <3>1
          <5> QED
            BY <3>1, <4>1, <5>1 DEF Listed
        <4>3. rank[n] \in Nat /\ rank[s[j]] \in Nat /\ rank[s[Len(s)]] \in Nat
          BY <2>1, <2>2, <2>5, <4>1
        <4> QED
          BY <2>7, <3>1, <4>1, <4>2, <4>3
      <3> QED
        BY <2>1, <2>4, <3>2, <3>3
    <2>12. Listed(h, A, rank, t)
      BY <2>4, <2>6, <2>9, <2>10, <2>11 DEF Listed
    <2>13. t # s
      BY <2>1, <2>4
    <2> QED
      BY <1>2, <1>4, <2>3, <2>4, <2>12, <2>13
  <1> QED
    BY <1>3, <1>4

\* A list that goes no further has every block.
LEMMA ListedAll ==
    ASSUME NEW h, NEW A, Spread(A), NEW rank, NEW top, Linked(h.array, h.avail, A, rank, top),
           NEW s, Listed(h, A, rank, s),
           Over(h, s)
    PROVE  Complete(s, A)
  <1> DEFINE On == {s[k] : k \in 1 .. Len(s)}
             a == h.array
  <1>1. SUFFICES ASSUME A \ On # {} PROVE FALSE
    BY DEF Complete
  <1>2. \A x \in A : x \in Index /\ x # 0 /\ rank[x] \in Nat /\ rank[x] < top
    <2>1. ASSUME NEW x \in A PROVE x \in Index /\ x # 0
      BY SpreadIndex
    <2> QED
      BY <2>1 DEF Linked
  <1>3. s \in Seq(A) /\ Len(s) \in Nat /\ (s # <<>> => 1 \in 1 .. Len(s) /\ Len(s) \in 1 .. Len(s))
    BY DEF Listed
  <1> DEFINE R == {rank[x] : x \in A \ On}
  <1>4. R \subseteq 0 .. top /\ R # {} /\ top \in Nat
    <2>1. top \in Nat
      BY DEF Linked
    <2>2. ASSUME NEW x \in A \ On PROVE rank[x] \in 0 .. top
      BY <1>2, <2>1
    <2> HIDE DEF On
    <2> QED
      BY <1>1, <2>1, <2>2
  <1>5. PICK x \in A \ On : \A y \in A \ On : rank[y] <= rank[x]
    <2> HIDE DEF R
    <2>1. PICK r \in R : \A q \in R : q <= r
      BY <1>4, GreatestNat
    <2> QED
      BY <2>1 DEF R
  <1>6. x # h.avail
    <2>1. CASE s = <<>>
      BY <1>2, <2>1 DEF Over
    <2>2. CASE s # <<>>
      <3>1. s[1] = h.avail
        BY <2>2 DEF Listed
      <3> QED
        BY <1>3, <2>2, <3>1
    <2> QED
      BY <2>1, <2>2
  <1>7. PICK p : p = a[x + 2]
    OBVIOUS
  <1>8. p \in A /\ a[p + 1] = x
    BY <1>6, <1>7 DEF Linked
  <1>9. rank[x] < rank[p]
    BY <1>2, <1>8 DEF Linked
  <1>10. p \in On
    <2>1. p \in A \ On => rank[p] <= rank[x]
      BY <1>5
    <2> HIDE DEF On
    <2> QED
      BY <1>2, <1>8, <1>9, <2>1
  <1>11. PICK k \in 1 .. Len(s) : s[k] = p
    BY <1>10
  <1>12. CASE k = Len(s)
    <2>1. s # <<>>
      BY <1>11
    <2> QED
      BY <1>2, <1>8, <1>11, <1>12, <2>1 DEF Over
  <1>13. CASE k # Len(s)
    <2>1. a[s[k] + 1] = s[k + 1]
      BY <1>13 DEF Listed
    <2>2. k + 1 \in 1 .. Len(s)
      BY <1>3, <1>13
    <2>3. x = s[k + 1]
      BY <1>8, <1>11, <2>1
    <2> QED
      BY <2>2, <2>3
  <1> QED
    BY <1>12, <1>13

\* At most HeapLen \div 4 blocks are spread over the heap.
LEMMA FewSpread ==
    ASSUME NEW A, Spread(A), NEW N, N = HeapLen \div 4, NEW s, s \in Seq(A), Len(s) = N,
           \A j, k \in 1 .. Len(s) : j < k => s[j] # s[k]
    PROVE  Complete(s, A)
  <1> SUFFICES ASSUME NEW x \in A, \A k \in 1 .. Len(s) : s[k] # x PROVE FALSE
    BY DEF Complete
  <1>1. N = HeapLen \div 4
    OBVIOUS
  <1>2. N \in Nat /\ Len(s) = N
    BY HeapAssumption
  <1> DEFINE t == Append(s, x)
             f == [k \in 1 .. N + 1 |-> t[k] \div 4]
  <1>3. /\ \A k \in 1 .. N : t[k] = s[k]
        /\ t[N + 1] = x
        /\ \A k \in 1 .. N + 1 : t[k] \in A
    BY <1>2
  <1>4. ASSUME NEW j \in 1 .. N + 1, NEW k \in 1 .. N + 1, j < k PROVE t[j] # t[k]
    <2>1. j \in 1 .. N
      BY <1>2, <1>4
    <2> QED
      BY <1>2, <1>3, <1>4, <2>1
  <1> HIDE DEF t
  <1>5. ASSUME NEW k \in 1 .. N + 1 PROVE f[k] \in 0 .. N - 1
    <2>1. t[k] \in A
      BY <1>3
    <2>2. t[k] \in Nat /\ t[k] + 3 < HeapLen
      BY <2>1 DEF Spread
    <2> QED
      BY <1>1, <2>2, HeapAssumption
  <1>6. f \in [1 .. N + 1 -> 0 .. N - 1]
    BY <1>5
  <1> HIDE DEF f
  <1>7. /\ IsFiniteSet(1 .. N + 1) /\ Cardinality(1 .. N + 1) = N + 1
        /\ IsFiniteSet(0 .. N - 1) /\ Cardinality(0 .. N - 1) = N
    <2>1. N - 1 \in Int /\ N + 1 \in Int /\ ~(1 > N + 1) /\ (0 > N - 1 <=> N = 0) /\ N - 1 - 0 + 1 = N /\ N + 1 - 1 + 1 = N + 1
      BY <1>2
    <2>2. IsFiniteSet(1 .. N + 1) /\ Cardinality(1 .. N + 1) = IF 1 > N + 1 THEN 0 ELSE N + 1 - 1 + 1
      BY <2>1, FS_Interval
    <2>3. IsFiniteSet(0 .. N - 1) /\ Cardinality(0 .. N - 1) = IF 0 > N - 1 THEN 0 ELSE N - 1 - 0 + 1
      <3>1. PICK m \in Int : m = N - 1
        BY <2>1
      <3>2. PICK z \in Int : z = 0
        OBVIOUS
      <3>3. IsFiniteSet(z .. m) /\ Cardinality(z .. m) = IF z > m THEN 0 ELSE m - z + 1
        BY ONLY z \in Int, m \in Int, FS_Interval
      <3> QED
        BY ONLY <3>1, <3>2, <3>3
    <2> QED
      BY <2>1, <2>2, <2>3
  <1>8. PICK j, k \in 1 .. N + 1 : j # k /\ f[j] = f[k]
    <2>1. Cardinality(0 .. N - 1) < Cardinality(1 .. N + 1)
      BY <1>2, <1>7
    <2> QED
      BY ONLY <1>6, <1>7, <2>1, FS_PigeonHole
  <1>9. t[j] \div 4 = t[k] \div 4
    BY <1>8 DEF f
  <1>10. t[j] # t[k]
    <2>1. j < k \/ k < j
      BY <1>2, <1>8
    <2> QED
      BY <1>4, <2>1
  <1>11. t[j] \in Nat /\ t[k] \in Nat /\ (t[j] < t[k] => t[j] + 4 <= t[k]) /\ (t[k] < t[j] => t[k] + 4 <= t[j])
    BY <1>3 DEF Spread
  <1> QED
    BY ONLY <1>9, <1>10, <1>11

\* The list has the available blocks, each once, in the order of their links.
LEMMA FreeListListed ==
    ASSUME NEW h, NEW A, Spread(A), NEW rank, NEW top, Linked(h.array, h.avail, A, rank, top)
    PROVE  /\ Listed(h, A, rank, FreeList(h))
           /\ Complete(FreeList(h), A)
  <1>1. PICK N : N = HeapLen \div 4
    OBVIOUS
  <1>2. N \in Nat
    BY <1>1, HeapAssumption
  <1>3. PICK f : IsChain(f, h, N) /\ FreeList(h) = f[N]
    BY <1>1, FreeListIs
  <1> DEFINE S == {n \in Nat : n <= N => /\ Listed(h, A, rank, f[n])
                                         /\ Len(f[n]) = n \/ Follow(h, f[n]) = f[n]}
  <1>4. 0 \in S
    <2>1. f[0] = <<>>
      BY <1>2, <1>3 DEF IsChain
    <2>2. Listed(h, A, rank, <<>>)
      BY DEF Listed
    <2> QED
      BY <2>1, <2>2
  <1>5. ASSUME NEW n \in Nat, n \in S PROVE n + 1 \in S
    <2>1. SUFFICES ASSUME n + 1 <= N
                   PROVE  /\ Listed(h, A, rank, f[n + 1])
                          /\ Len(f[n + 1]) = n + 1 \/ Follow(h, f[n + 1]) = f[n + 1]
      OBVIOUS
    <2>2. Listed(h, A, rank, f[n]) /\ (Len(f[n]) = n \/ Follow(h, f[n]) = f[n])
      BY <1>2, <1>5, <2>1
    <2>3. f[n + 1] = Follow(h, f[n])
      <3>1. n + 1 \in 0 .. N /\ n + 1 # 0 /\ n + 1 - 1 = n
        BY <1>2, <2>1
      <3>2. \A m \in 0 .. N : f[m] = IF m = 0 THEN <<>> ELSE Follow(h, f[m - 1])
        BY ONLY <1>3 DEF IsChain
      <3> QED
        BY ONLY <3>1, <3>2
    <2>4. /\ Listed(h, A, rank, Follow(h, f[n]))
          /\ Follow(h, f[n]) = f[n] \/ Len(Follow(h, f[n])) = Len(f[n]) + 1
      BY <2>2, FollowListed
    <2> QED
      BY ONLY <2>2, <2>3, <2>4
  <1> HIDE DEF S
  <1>6. N \in S
    BY <1>2, <1>4, <1>5, SetInduction
  <1>7. PICK s : s = FreeList(h)
    OBVIOUS
  <1>8. Listed(h, A, rank, s) /\ (Len(s) = N \/ Follow(h, s) = s)
    BY <1>2, <1>3, <1>6, <1>7 DEF S
  <1>9. CASE Len(s) = N
    <2>1. s \in Seq(A)
      BY <1>8 DEF Listed
    <2>2. ASSUME NEW j \in 1 .. Len(s), NEW k \in 1 .. Len(s), j < k PROVE s[j] # s[k]
      <3>1. rank[s[k]] < rank[s[j]] /\ s[j] \in A /\ s[k] \in A
        BY <1>8, <2>1, <2>2 DEF Listed
      <3>2. rank[s[k]] \in Nat
        <4>1. s[k] \in Index
          BY <3>1, SpreadIndex
        <4> QED
          BY <4>1 DEF Linked
      <3> QED
        BY <3>1, <3>2
    <2>3. N = HeapLen \div 4 /\ Len(s) = N
      BY ONLY <1>1, <1>9
    <2>4. \A j, k \in 1 .. Len(s) : j < k => s[j] # s[k]
      BY ONLY <2>2
    <2>5. Complete(s, A)
      BY ONLY Spread(A), <2>1, <2>4, <2>3, FewSpread
    <2> QED
      BY ONLY <2>5, <1>7, <1>8, <2>3
  <1>10. CASE Follow(h, s) = s
    <2>1. Over(h, s)
      BY <1>8, <1>10, FollowListed
    <2>2. Complete(s, A)
      <3>1. Listed(h, A, rank, s) /\ Spread(A) /\ Linked(h.array, h.avail, A, rank, top)
        BY <1>8
      <3> QED
        BY ONLY <2>1, <3>1, ListedAll
    <2> QED
      BY ONLY <1>7, <1>8, <2>2
  <1> QED
    BY <1>8, <1>9, <1>10
-----------------------------------------------------------------------------
(* The search.                                                              *)

\* A block for so many bytes has room for them between its tags.
LEMMA RoomForWords ==
    ASSUME NEW bytes \in Nat
    PROVE  /\ Words(bytes) \in Nat /\ Ints(bytes) \in Nat
           /\ Ints(bytes) >= 4 /\ Words(bytes) <= Ints(bytes) - 2
  <1>1. PICK w \in Nat : w = Words(bytes)
    BY DEF Words
  <1>2. \E x \in {4, w + 2} : \A y \in {4, w + 2} : x >= y
    BY 4 >= w + 2 \/ w + 2 >= 4
  <1>3. Max({4, w + 2}) \in {4, w + 2} /\ \A y \in {4, w + 2} : Max({4, w + 2}) >= y
    BY <1>2 DEF Max
  <1>4. PICK n : n = Max({4, w + 2})
    OBVIOUS
  <1>5. n \in {4, w + 2} /\ n >= 4 /\ n >= w + 2
    BY ONLY <1>3, <1>4
  <1>6. Ints(bytes) = n
    BY <1>1, <1>4 DEF Ints
  <1> QED
    BY ONLY <1>1, <1>5, <1>6

\* The place of a block that fits.
Fits(h, A, n, i) == i \in A /\ n <= Len4(h.array, i)
\* i is an available block that fits, or 0 if none does.
Found(h, A, n, i) ==
    /\ i # 0 => Fits(h, A, n, i)
    /\ i = 0 => \A j \in A : ~Fits(h, A, n, j)

\* Fitting has the places of the blocks that fit.
LEMMA FittingFits ==
    ASSUME NEW h, NEW A, Spread(A), NEW rank, NEW top, Linked(h.array, h.avail, A, rank, top),
           NEW n \in Nat, \A j \in A : Len4(h.array, j) \in Nat
    PROVE  /\ Fitting(h, n) \subseteq Nat \ {0}
           /\ \A k \in Fitting(h, n) : Fits(h, A, n, FreeList(h)[k]) /\ FreeList(h)[k] # 0
           /\ Fitting(h, n) = {} => \A j \in A : ~Fits(h, A, n, j)
  <1>1. PICK s : s = FreeList(h)
    OBVIOUS
  <1>2. s \in Seq(A) /\ Complete(s, A)
    BY <1>1, FreeListListed DEF Listed
  <1>3. Fitting(h, n) = {k \in 1 .. Len(s) : Len4(h.array, s[k]) >= n}
    <2>1. DOMAIN s = 1 .. Len(s)
      BY <1>2
    <2> QED
      BY <1>1, <2>1 DEF Fitting, Size, Len4
  <1>4. ASSUME NEW k \in Fitting(h, n)
        PROVE  k \in Nat \ {0} /\ Fits(h, A, n, s[k]) /\ s[k] # 0
    <2>1. k \in 1 .. Len(s) /\ Len4(h.array, s[k]) >= n /\ s[k] \in A
      BY <1>2, <1>3
    <2>2. s[k] # 0 /\ Len4(h.array, s[k]) \in Nat
      BY <2>1, SpreadIndex
    <2> QED
      BY <1>2, <2>1, <2>2 DEF Fits
  <1>5. ASSUME NEW j \in A, Fits(h, A, n, j) PROVE Fitting(h, n) # {}
    <2>1. PICK k \in 1 .. Len(s) : s[k] = j
      BY <1>2 DEF Complete
    <2>2. Len4(h.array, s[k]) >= n
      BY <1>5, <2>1 DEF Fits
    <2> QED
      BY <1>3, <2>2
  <1> QED
    BY <1>1, <1>4, <1>5

\* The first of a set of numbers is in it.
LEMMA MinIn == ASSUME NEW S, S \subseteq Nat, S # {} PROVE Min(S) \in S
  BY LeastNat DEF Min

\* So is the first of those with the least value.
LEMMA LexicographicLeast ==
    ASSUME NEW S, S \subseteq Nat, S # {}, NEW f, \A k \in S : f[k] \in Nat
    PROVE  \E j \in S : \A k \in S : f[j] < f[k] \/ (f[j] = f[k] /\ j <= k)
  <1> DEFINE V == {f[k] : k \in S}
  <1>1. V \subseteq Nat /\ V # {}
    <2>1. \E k : k \in S
      OBVIOUS
    <2> QED
      BY <2>1
  <1>2. PICK v \in V : \A w \in V : v <= w
    BY ONLY <1>1, LeastNat
  <1> DEFINE T == {k \in S : f[k] = v}
  <1>3. T \subseteq Nat /\ T # {}
    BY <1>2
  <1>4. PICK j \in T : \A k \in T : j <= k
    BY ONLY <1>3, LeastNat
  <1>5. ASSUME NEW k \in S PROVE f[j] < f[k] \/ (f[j] = f[k] /\ j <= k)
    <2>1. f[j] = v /\ v <= f[k] /\ v \in Nat /\ f[k] \in Nat
      BY <1>2
    <2>2. f[k] = v => j <= k
      BY <1>4
    <2> QED
      BY ONLY <2>1, <2>2
  <1> QED
    BY <1>4, <1>5

\* The user's malloc finds a block that fits if there is one.
LEMMA FirstFitFound ==
    ASSUME NEW h, NEW A, Spread(A), NEW rank, NEW top, Linked(h.array, h.avail, A, rank, top),
           NEW n \in Nat, \A j \in A : Len4(h.array, j) \in Nat
    PROVE  Found(h, A, n, FirstFit(h, n))
  <1>1. /\ Fitting(h, n) \subseteq Nat \ {0}
        /\ \A k \in Fitting(h, n) : Fits(h, A, n, FreeList(h)[k]) /\ FreeList(h)[k] # 0
        /\ Fitting(h, n) = {} => \A j \in A : ~Fits(h, A, n, j)
    BY FittingFits
  <1>2. CASE Fitting(h, n) = {}
    BY <1>1, <1>2 DEF FirstFit, Found
  <1>3. CASE Fitting(h, n) # {}
    <2>1. Min(Fitting(h, n)) \in Fitting(h, n)
      BY <1>1, <1>3, MinIn
    <2>2. FirstFit(h, n) = FreeList(h)[Min(Fitting(h, n))]
      BY <1>3 DEF FirstFit
    <2> QED
      BY <1>1, <2>1, <2>2 DEF Found
  <1> QED
    BY <1>2, <1>3

\* So does the kernel's.
LEMMA BestFitFound ==
    ASSUME NEW h, NEW A, Spread(A), NEW rank, NEW top, Linked(h.array, h.avail, A, rank, top),
           NEW n \in Nat, \A j \in A : Len4(h.array, j) \in Nat
    PROVE  Found(h, A, n, BestFit(h, n))
  <1> DEFINE list == FreeList(h)
             fits == Fitting(h, n)
             seen == {k \in fits : Cardinality({j \in fits : j <= k}) <= CountDown}
             Better(j, k) == Size(h, list[j]) < Size(h, list[k])
                             \/ (Size(h, list[j]) = Size(h, list[k]) /\ j <= k)
             best == CHOOSE j \in seen : \A k \in seen : Better(j, k)
  <1>1. /\ fits \subseteq Nat \ {0}
        /\ \A k \in fits : Fits(h, A, n, list[k]) /\ list[k] # 0
        /\ fits = {} => \A j \in A : ~Fits(h, A, n, j)
    BY FittingFits
  <1>2. BestFit(h, n) = IF fits = {} THEN 0 ELSE list[best]
    BY DEF BestFit
  <1>3. CASE fits = {}
    BY <1>1, <1>2, <1>3 DEF Found
  <1>4. CASE fits # {}
    <2>1. seen # {}
      <3> HIDE DEF fits
      <3>1. fits \subseteq Nat
        BY <1>1
      <3>2. PICK k \in fits : \A j \in fits : k <= j
        BY ONLY <3>1, <1>4, LeastNat
      <3>3. {j \in fits : j <= k} = {k}
        <4>1. ASSUME NEW j \in fits, j <= k PROVE j = k
          <5>1. k <= j /\ j \in Nat /\ k \in Nat
            BY <3>1, <3>2
          <5> QED
            BY ONLY <4>1, <5>1
        <4> QED
          BY <3>1, <3>2, <4>1
      <3>4. Cardinality({k}) = 1
        BY FS_Singleton
      <3>5. 1 <= CountDown
        BY HeapAssumption
      <3> QED
        BY <3>3, <3>4, <3>5
    <2>2. seen \subseteq fits
      OBVIOUS
    <2>3. \A k \in fits : Size(h, list[k]) \in Nat
      <3>1. \A k \in fits : list[k] \in A
        BY <1>1 DEF Fits
      <3>2. \A i : Size(h, i) = Len4(h.array, i)
        BY DEF Size, Len4
      <3> QED
        BY <3>1, <3>2
    <2>4. PICK f : f = [k \in fits |-> Size(h, list[k])]
      OBVIOUS
    <2> HIDE DEF seen, fits, list
    <2>5. \E j \in seen : \A k \in seen : f[j] < f[k] \/ (f[j] = f[k] /\ j <= k)
      <3>1. seen \subseteq Nat /\ \A k \in seen : f[k] \in Nat
        BY <1>1, <2>2, <2>3, <2>4
      <3> QED
        BY ONLY <2>1, <3>1, LexicographicLeast
    <2>6. \E j \in seen : \A k \in seen : Better(j, k)
      <3>1. \A k \in seen : f[k] = Size(h, list[k])
        BY <2>2, <2>4
      <3> QED
        BY ONLY <2>5, <3>1
    <2> HIDE DEF Better
    <2>7. best \in seen
      BY <2>6
    <2> HIDE DEF best
    <2>8. BestFit(h, n) = list[best] /\ best \in fits
      BY <1>2, <1>4, <2>2, <2>7
    <2> QED
      BY <1>1, <2>8 DEF Found
  <1> QED
    BY <1>3, <1>4

\* Both, in a heap with a shape.
LEMMA BestFound ==
    ASSUME NEW h, NEW T, NEW B, NEW rank, NEW top, Shaped(h, T, B, rank, top), NEW n \in Nat
    PROVE  /\ Found(h, Avails(h.array, B), n, Best(h, n))
           /\ Found(h, Avails(h.array, B), n, FirstFit(h, n))
  <1> DEFINE A == Avails(h.array, B)
  <1>1. /\ Tiled(h.array, B) /\ Spread(A) /\ Linked(h.array, h.avail, A, rank, top)
        /\ A \subseteq Heads(B)
    BY ShapeFacts
  <1>2. \A j \in A : Len4(h.array, j) \in Nat
    BY <1>1, BlockNumbers
  <1> HIDE DEF A
  <1>3. Found(h, A, n, BestFit(h, n)) /\ Found(h, A, n, FirstFit(h, n))
    BY <1>1, <1>2, BestFitFound, FirstFitFound
  <1> QED
    BY <1>3 DEF A, Best
-----------------------------------------------------------------------------
(* The walk along the blocks.                                               *)

\* f has the headers from i on, for the i from n on, as Blocks builds them.
IsWalk(f, n) ==
    f = [i \in n .. HeapLen |-> IF i = HeapLen \/ Right(heap, i) \notin i + 2 .. HeapLen THEN {i}
                                ELSE {i} \cup f[Right(heap, i)]]

\* There are such headers.
LEMMA WalkExists == \E f : IsWalk(f, 0)
  <1> DEFINE S == {n \in Nat : n <= HeapLen => \E f : IsWalk(f, HeapLen - n)}
  <1>0. HeapLen \in Nat
    BY HeapAssumption
  <1>1. 0 \in S
    <2>1. PICK f : f = [i \in HeapLen - 0 .. HeapLen |-> {i}]
      OBVIOUS
    <2>2. \A i \in HeapLen - 0 .. HeapLen : i = HeapLen
      BY <1>0
    <2>3. IsWalk(f, HeapLen - 0)
      BY <2>1, <2>2 DEF IsWalk
    <2> QED
      BY <2>3
  <1>2. ASSUME NEW n \in Nat, n \in S PROVE n + 1 \in S
    <2>1. SUFFICES ASSUME n + 1 <= HeapLen PROVE \E g : IsWalk(g, HeapLen - (n + 1))
      OBVIOUS
    <2>2. PICK f : IsWalk(f, HeapLen - n)
      BY <1>0, <1>2, <2>1
    <2>3. PICK m : m = HeapLen - (n + 1)
      OBVIOUS
    <2>4. m \in Nat /\ HeapLen - n = m + 1 /\ m + 1 <= HeapLen
      BY <1>0, <2>1, <2>3
    <2>5. IsWalk(f, m + 1)
      BY <2>2, <2>4
    <2> DEFINE W(i, g) == IF i = HeapLen \/ Right(heap, i) \notin i + 2 .. HeapLen THEN {i}
                          ELSE {i} \cup g[Right(heap, i)]
               g == [i \in m .. HeapLen |-> IF i = m THEN W(m, f) ELSE f[i]]
    <2>6. ASSUME NEW i \in m .. HeapLen PROVE g[i] = W(i, g)
      <3>1. g[i] = W(i, f)
        <4>1. CASE i = m
          BY <4>1
        <4>2. CASE i # m
          <5>1. i \in m + 1 .. HeapLen
            BY <1>0, <2>4, <4>2
          <5>2. f[i] = W(i, f)
            BY ONLY <2>5, <5>1 DEF IsWalk
          <5> QED
            BY <4>2, <5>2
        <4> QED
          BY <4>1, <4>2
      <3>2. ASSUME Right(heap, i) \in i + 2 .. HeapLen PROVE g[Right(heap, i)] = f[Right(heap, i)]
        <4>1. PICK r : r = Right(heap, i)
          OBVIOUS
        <4>2. r \in m .. HeapLen /\ r # m
          BY ONLY <1>0, <2>4, <3>2, <4>1, i \in m .. HeapLen
        <4> QED
          BY ONLY <4>1, <4>2
      <3> HIDE DEF g
      <3> QED
        BY <3>1, <3>2
    <2>7. IsWalk(g, m)
      <3>1. g = [i \in m .. HeapLen |-> g[i]]
        OBVIOUS
      <3> HIDE DEF g
      <3> QED
        BY ONLY <2>6, <3>1 DEF IsWalk
    <2> HIDE DEF g
    <2> QED
      BY ONLY <2>3, <2>7
  <1> HIDE DEF S
  <1>3. HeapLen \in S
    BY <1>0, <1>1, <1>2, SetInduction
  <1>4. PICK f : IsWalk(f, HeapLen - HeapLen)
    BY <1>0, <1>3 DEF S
  <1>5. HeapLen - HeapLen = 0
    BY <1>0
  <1> QED
    BY ONLY <1>4, <1>5

\* Blocks has the headers, and the end of the array.
LEMMA BlocksAre ==
    ASSUME NEW B, Tiled(array, B)
    PROVE  Blocks = B
  <1> DEFINE from == CHOOSE f : f = [i \in 0 .. HeapLen |->
                         IF i = HeapLen \/ Right(heap, i) \notin i + 2 .. HeapLen THEN {i}
                         ELSE {i} \cup f[Right(heap, i)]]
  <1>0. HeapLen \in Nat /\ \A i \in B : i \in 0 .. HeapLen
    BY HeapAssumption DEF Tiled
  <1>1. IsWalk(from, 0)
    BY WalkExists DEF IsWalk
  <1>2. Blocks = from[0]
    BY DEF Blocks
  <1> HIDE DEF from
  <1>3. \A i \in 0 .. HeapLen : from[i] = IF i = HeapLen \/ Right(heap, i) \notin i + 2 .. HeapLen THEN {i}
                                          ELSE {i} \cup from[Right(heap, i)]
    BY ONLY <1>1 DEF IsWalk
  <1> DEFINE S == {n \in Nat : \A i \in B : HeapLen - i <= n => from[i] = {j \in B : j >= i}}
  <1>4. from[HeapLen] = {j \in B : j >= HeapLen}
    <2>1. HeapLen \in B /\ \A j \in B : j >= HeapLen => j = HeapLen
      BY <1>0 DEF Tiled
    <2>2. from[HeapLen] = {HeapLen}
      <3>1. HeapLen \in 0 .. HeapLen
        BY <1>0
      <3> QED
        BY ONLY <1>3, <3>1
    <2>3. HeapLen >= HeapLen
      BY <1>0
    <2> QED
      BY ONLY <2>1, <2>2, <2>3
  <1>5. 0 \in S
    <2>1. ASSUME NEW i \in B, HeapLen - i <= 0 PROVE i = HeapLen
      BY <1>0, <2>1
    <2> QED
      BY <1>4, <2>1
  <1>6. ASSUME NEW n \in Nat, n \in S PROVE n + 1 \in S
    <2>1. SUFFICES ASSUME NEW i \in B, HeapLen - i <= n + 1 PROVE from[i] = {j \in B : j >= i}
      OBVIOUS
    <2>2. CASE i = HeapLen
      BY <1>4, <2>2
    <2>3. CASE i # HeapLen
      <3>1. i \in Heads(B)
        BY <2>3 DEF Heads
      <3>2. PICK e : e = End(array, i)
        OBVIOUS
      <3>3. e \in B /\ e \in Nat /\ i \in Nat /\ i + 2 <= e /\ e <= HeapLen
        BY <3>1, <3>2, BlockNumbers
      <3>4. Right(heap, i) = e
        BY <3>2 DEF Right, Size, heap, End, Len4
      <3>5. e \in i + 2 .. HeapLen
        BY <1>0, <3>3
      <3>6. from[i] = {i} \cup from[e]
        BY <1>0, <1>3, <2>3, <3>4, <3>5
      <3>7. from[e] = {j \in B : j >= e}
        BY <1>0, <1>6, <2>1, <3>3
      <3>8. ASSUME NEW j \in B PROVE j >= i <=> (j = i \/ j >= e)
        <4>1. j <= i \/ j >= e
          BY <3>1, <3>2 DEF Tiled, Block
        <4> QED
          BY <1>0, <3>3, <4>1
      <3> QED
        BY ONLY <3>6, <3>7, <3>8, i \in B
    <2> QED
      BY <2>2, <2>3
  <1> HIDE DEF S
  <1>7. HeapLen \in S
    BY <1>0, <1>5, <1>6, SetInduction
  <1>8. from[0] = {j \in B : j >= 0}
    <2>1. 0 \in B /\ HeapLen - 0 <= HeapLen
      BY <1>0 DEF Tiled
    <2> QED
      BY <1>7, <2>1 DEF S
  <1>9. \A j \in B : j >= 0
    BY <1>0
  <1> QED
    BY ONLY <1>2, <1>8, <1>9
-----------------------------------------------------------------------------
(* What the invariant says of the heap.                                     *)

\* The blocks, tags and links of a heap in shape are the owners'.
LEMMA InvWellFormed == HeapInv => WellFormed
  <1> SUFFICES ASSUME HeapInv PROVE WellFormed
    OBVIOUS
  <1>1. PICK T : T = {p - 1 : p \in DOMAIN held}
    OBVIOUS
  <1>2. PICK B, rank, top : Shaped(heap, T, B, rank, top)
    BY <1>1 DEF HeapInv, Owning, Shape, Blockheads
  <1>3. heap.array = array /\ heap.avail = avail
    BY DEF heap
  <1> DEFINE A == Avails(array, B)
  <1>4. /\ Tiled(array, B) /\ Spread(A) /\ Linked(array, avail, A, rank, top)
        /\ A \subseteq Heads(B) /\ Takens(array, B) = Ends \cup T
        /\ \A i \in T : Len4(array, i) >= 4
    BY <1>2, <1>3, ShapeFacts
  <1>5. Blocks = B
    BY <1>4, BlocksAre
  <1>6. \A i : Size(heap, i) = Len4(array, i)
    BY <1>3 DEF Size, Len4
  <1>7. BoundaryTags
    <2>1. HeapLen \in Blocks
      BY <1>4, <1>5 DEF Tiled
    <2>2. ASSUME NEW i \in Blocks \ {HeapLen} PROVE array[FooterFromHeader(heap, i)] = array[i]
      <3>1. i \in Heads(B)
        BY <1>5 DEF Heads
      <3>2. array[End(array, i) - 1] = array[i] /\ FooterFromHeader(heap, i) = End(array, i) - 1
        BY <1>4, <1>6, <3>1, BlockNumbers DEF FooterFromHeader
      <3> QED
        BY ONLY <3>2
    <2> QED
      BY ONLY <2>1, <2>2 DEF BoundaryTags
  <1>8. HeldAreTaken
    <2>1. \A i \in Heads(B) : ~IsAvail(heap, i) <=> array[i] < 0
      <3>1. \A i \in Heads(B) : array[i] \in Int /\ array[i] # 0
        BY <1>4, BlockNumbers
      <3> QED
        BY <1>3, <3>1 DEF IsAvail
    <2>2. {i \in Blocks \ {HeapLen} : ~IsAvail(heap, i)} = Takens(array, B)
      BY ONLY <1>5, <2>1 DEF Heads, Takens
    <2>3. \A p \in DOMAIN held : held[p] <= Size(heap, p - 1) - 2
      BY <1>3, <1>6 DEF HeapInv, Owning, Lent
    <2> QED
      BY ONLY <1>1, <1>4, <2>2, <2>3 DEF HeldAreTaken, Ends
  <1>9. FreeListExact
    <2>1. PICK s : s = FreeList(heap)
      OBVIOUS
    <2>2. Listed(heap, A, rank, s) /\ Complete(s, A)
      <3>1. Linked(heap.array, heap.avail, A, rank, top)
        BY <1>3, <1>4
      <3>2. Listed(heap, A, rank, FreeList(heap)) /\ Complete(FreeList(heap), A)
        BY ONLY <1>4, <3>1, FreeListListed
      <3> QED
        BY ONLY <2>1, <3>2
    <2>3. s \in Seq(A) /\ DOMAIN s = 1 .. Len(s)
      BY <2>2 DEF Listed
    <2>4. \A k \in DOMAIN s : PrevOf(heap, s[k]) = IF k = 1 THEN 0 ELSE s[k - 1]
      BY <2>2, <2>3 DEF Listed, PrevOf
    <2>5. {s[k] : k \in DOMAIN s} = A
      <3>1. \A k \in DOMAIN s : s[k] \in A
        BY <2>3
      <3>2. \A x \in A : \E k \in DOMAIN s : s[k] = x
        BY <2>2, <2>3 DEF Complete
      <3> QED
        BY <3>1, <3>2
    <2>6. A = {i \in Blocks \ {HeapLen} : IsAvail(heap, i)}
      BY <1>3, <1>5 DEF Avails, Heads, IsAvail
    <2> HIDE DEF A
    <2> QED
      BY ONLY <2>1, <2>4, <2>5, <2>6 DEF FreeListExact
  <1> QED
    BY <1>7, <1>8, <1>9 DEF WellFormed

\* A run of ints outside of the taken blocks is in one available block.
LEMMA RunInBlock ==
    ASSUME NEW h, NEW T, NEW B, NEW rank, NEW top, Shaped(h, T, B, rank, top),
           NEW n \in Nat, n >= 4, NEW i \in Index, i + n <= HeapLen,
           \A j \in Takens(h.array, B) : \A m \in i .. i + n - 1 : m < j \/ m >= End(h.array, j)
    PROVE  \E j \in Avails(h.array, B) : n <= Len4(h.array, j)
  <1> DEFINE a == h.array
  <1>1. /\ Tiled(a, B)
        /\ \A j \in Heads(B) : j \in Avails(a, B) <=> j \notin Takens(a, B)
        /\ \A j \in Avails(a, B) : End(a, j) \notin Avails(a, B)
    BY ShapeFacts
  <1> HIDE DEF a
  <1>2. PICK j \in Heads(B) : j <= i /\ i < End(a, j)
    BY <1>1, Covered
  <1>3. /\ j \in Nat /\ i \in Nat /\ End(a, j) \in Nat /\ Len4(a, j) \in Nat /\ HeapLen \in Nat
        /\ End(a, j) = j + Len4(a, j) /\ End(a, j) \in B
    BY <1>1, BlockNumbers, HeapAssumption DEF Index
  <1>4. j \in Avails(a, B)
    <2>1. i \in i .. i + n - 1
      BY <1>3
    <2>2. j \notin Takens(a, B)
      BY <1>2, <1>3, <2>1 DEF a
    <2> QED
      BY <1>1, <2>2
  <1>5. ~(End(a, j) <= i + n - 1)
    <2> SUFFICES ASSUME End(a, j) <= i + n - 1 PROVE FALSE
      OBVIOUS
    <2>1. PICK e : e = End(a, j)
      OBVIOUS
    <2>2. e \in Heads(B) /\ e \in i .. i + n - 1
      BY <1>2, <1>3, <2>1 DEF Heads
    <2>3. e \in Takens(a, B)
      BY <1>1, <1>4, <2>1, <2>2
    <2>4. e < End(a, e) /\ e \in Nat /\ End(a, e) \in Nat
      BY <1>1, <2>2, BlockNumbers
    <2>5. e < e \/ e >= End(a, e)
      BY <2>2, <2>3 DEF a
    <2> QED
      BY <2>4, <2>5
  <1>6. n <= Len4(a, j)
    BY <1>2, <1>3, <1>5
  <1> QED
    BY <1>4, <1>6 DEF a

\* malloc finds it.
LEMMA InvNoFalseFailure == HeapInv => NoFalseFailure
  <1> SUFFICES ASSUME HeapInv PROVE NoFalseFailure
    OBVIOUS
  <1>1. PICK T : T = {p - 1 : p \in DOMAIN held}
    OBVIOUS
  <1>2. PICK B, rank, top : Shaped(heap, T, B, rank, top)
    BY <1>1 DEF HeapInv, Owning, Shape, Blockheads
  <1>3. heap.array = array
    BY DEF heap
  <1>4. Tiled(array, B) /\ \A i \in Avails(array, B) : i # 0
    <2>1. Tiled(array, B) /\ Spread(Avails(array, B))
      BY <1>2, <1>3, ShapeFacts
    <2> QED
      BY <2>1, SpreadIndex
  <1>5. Blocks = B
    BY <1>4, BlocksAre
  <1> DEFINE taken == UNION {i .. FooterFromHeader(heap, i) : i \in Ranges}
  <1>6. ASSUME NEW n \in {Ints(b) : b \in Bytes},
               NEW i \in Index, i + n <= HeapLen, i .. i + n - 1 \cap taken = {}
        PROVE  Best(heap, n) # 0
    <2>1. n \in Nat /\ n >= 4
      <3>1. PICK b \in Bytes : n = Ints(b)
        BY <1>6
      <3>2. b \in Nat
        BY HeapAssumption
      <3> QED
        BY <3>1, <3>2, RoomForWords
    <2>2. i \in Nat
      BY HeapAssumption DEF Index
    <2>3. ASSUME NEW j \in Takens(array, B), NEW m \in i .. i + n - 1
          PROVE  m < j \/ m >= End(array, j)
      <3>1. j \in Heads(B) /\ array[j] < 0
        BY DEF Takens
      <3>2. j \in Nat /\ End(array, j) \in Nat /\ array[j] \in Int /\ m \in Nat
        BY <1>4, <2>1, <2>2, <3>1, BlockNumbers
      <3>3. j \in Ranges
        BY <1>3, <1>5, <3>1, <3>2 DEF Ranges, Heads, IsAvail
      <3>4. FooterFromHeader(heap, j) = End(array, j) - 1
        <4>1. Size(heap, j) = Len4(array, j) /\ Len4(array, j) \in Nat /\ End(array, j) = j + Len4(array, j)
          BY <1>3, <1>4, <3>1, BlockNumbers DEF Size, Len4
        <4> QED
          BY <3>2, <4>1 DEF FooterFromHeader
      <3>5. m \notin j .. End(array, j) - 1
        <4>1. j .. FooterFromHeader(heap, j) \subseteq taken
          BY <3>3
        <4> HIDE DEF taken
        <4> QED
          BY <1>6, <3>4, <4>1
      <3> QED
        BY <3>2, <3>5
    <2>4. \E j \in Avails(array, B) : n <= Len4(array, j)
      <3>1. \A j \in Takens(heap.array, B) : \A m \in i .. i + n - 1 : m < j \/ m >= End(heap.array, j)
        BY <1>3, <2>3
      <3>2. \E j \in Avails(heap.array, B) : n <= Len4(heap.array, j)
        BY ONLY <1>2, <2>1, i \in Index, i + n <= HeapLen, <1>6, <3>1, RunInBlock
      <3> QED
        BY <1>3, <3>2
    <2>5. Found(heap, Avails(heap.array, B), n, Best(heap, n))
      BY <1>2, <2>1, BestFound
    <2> QED
      BY <1>3, <2>4, <2>5 DEF Found, Fits
  <1> QED
    BY <1>6 DEF NoFalseFailure
-----------------------------------------------------------------------------
(* What the calls do to the owners' blocks.                                 *)

\* f with w words at p, and without p.
Handed(f, p, w) == [q \in DOMAIN f \cup {p} |-> IF q = p THEN w ELSE f[q]]
Minus(f, p) == [q \in DOMAIN f \ {p} |-> f[q]]

\* An owner's words are inside of its block, whose tags are in the array.
LEMMA OwnersWords ==
    ASSUME NEW h, NEW f, NEW B, NEW rank, NEW top, Shaped(h, Blockheads(f), B, rank, top),
           Lent(h.array, f), NEW p \in DOMAIN f
    PROVE  /\ p \in Nat /\ p - 1 \in Nat /\ f[p] \in Nat /\ p - 1 \in Heads(B)
           /\ p - 1 \in Blockheads(f) /\ p - 1 \notin Ends /\ h.array[p - 1] < 0
           /\ f[p] <= Len4(h.array, p - 1) - 2 /\ p + f[p] <= End(h.array, p - 1) - 1
           /\ End(h.array, p - 1) = p - 1 + Len4(h.array, p - 1) /\ Len4(h.array, p - 1) \in Nat
           /\ End(h.array, p - 1) \in Nat /\ End(h.array, p - 1) < HeapLen
  <1>1. p - 1 \in Blockheads(f)
    BY DEF Blockheads
  <1>2. p \in Nat /\ p - 1 \in Nat /\ f[p] \in Nat /\ f[p] <= Len4(h.array, p - 1) - 2
    BY HeapAssumption DEF Lent, Index
  <1>3. p - 1 \in Heads(B) /\ p - 1 \notin Ends /\ h.array[p - 1] < 0 /\ Tiled(h.array, B)
    BY <1>1, ShapeFacts
  <1>4. p - 1 # HeapLen - 2
    BY <1>3 DEF Ends
  <1>5. End(h.array, p - 1) \in Heads(B)
    BY <1>3, <1>4, ShapeFacts
  <1>6. /\ End(h.array, p - 1) = p - 1 + Len4(h.array, p - 1) /\ Len4(h.array, p - 1) \in Nat
        /\ End(h.array, p - 1) \in Nat
    BY <1>3, BlockNumbers
  <1>7. End(h.array, p - 1) < HeapLen
    <2>1. End(h.array, p - 1) <= HeapLen
      BY <1>3, BlockNumbers
    <2> QED
      BY <1>5, <1>6, <2>1, HeapAssumption DEF Heads
  <1>8. p + f[p] <= End(h.array, p - 1) - 1
    BY <1>2, <1>6
  <1> QED
    BY <1>1, <1>2, <1>3, <1>6, <1>7, <1>8

\* Owners' words are theirs alone, and no int of a block let go.
LEMMA OwnersApart ==
    ASSUME NEW h, NEW f, Owning(h, f), NEW p \in DOMAIN f, NEW q \in DOMAIN f, p # q,
           NEW m \in p .. p + f[p] - 1
    PROVE  m \notin q .. q + f[q] - 1
  <1>1. PICK B, rank, top : Shaped(h, Blockheads(f), B, rank, top)
    BY DEF Owning, Shape
  <1>2. Lent(h.array, f) /\ Tiled(h.array, B)
    BY <1>1, ShapeFacts DEF Owning
  <1>3. /\ p \in Nat /\ f[p] \in Nat /\ p - 1 \in Heads(B) /\ p - 1 \in Nat
        /\ p + f[p] <= End(h.array, p - 1) - 1 /\ End(h.array, p - 1) \in Nat
    BY <1>1, <1>2, OwnersWords
  <1>4. /\ q \in Nat /\ f[q] \in Nat /\ q - 1 \in Heads(B) /\ q - 1 \in Nat
        /\ q + f[q] <= End(h.array, q - 1) - 1 /\ End(h.array, q - 1) \in Nat
    BY <1>1, <1>2, OwnersWords
  <1>5. PICK i, j : i = p - 1 /\ j = q - 1
    OBVIOUS
  <1>6. m \in Int /\ i <= m /\ m < End(h.array, i)
    BY <1>3, <1>5
  <1>7. m < j \/ m >= End(h.array, j)
    <2>1. i # j /\ i \in Heads(B) /\ j \in Heads(B)
      BY <1>3, <1>4, <1>5
    <2> QED
      BY ONLY <1>2, <1>6, <2>1, Outside
  <1> QED
    BY <1>4, <1>5, <1>6, <1>7

\* They are ints of the heap.
LEMMA OwnersInHeap ==
    ASSUME NEW h, NEW f, Owning(h, f), NEW p \in DOMAIN f
    PROVE  p \in Nat /\ p \in Index /\ f[p] \in Nat /\ p .. p + f[p] - 1 \subseteq Index
  <1>1. PICK B, rank, top : Shaped(h, Blockheads(f), B, rank, top)
    BY DEF Owning, Shape
  <1>2. Lent(h.array, f)
    BY DEF Owning
  <1>3. p \in Nat /\ f[p] \in Nat /\ p + f[p] <= End(h.array, p - 1) - 1
        /\ End(h.array, p - 1) \in Nat /\ End(h.array, p - 1) < HeapLen
    BY <1>1, <1>2, OwnersWords
  <1> QED
    BY <1>2, <1>3, HeapAssumption DEF Lent, Index

\* What stays in blocks stays in their owners' words, and their lengths stay.
LEMMA KeptWords ==
    ASSUME NEW h, NEW f, Owning(h, f), NEW g, NEW T, Kept(h, g, T),
           NEW p \in DOMAIN f, p - 1 \in T
    PROVE  /\ \A m \in p .. p + f[p] - 1 : g.array[m] = h.array[m]
           /\ g.array[p - 1] = h.array[p - 1] /\ Len4(g.array, p - 1) = Len4(h.array, p - 1)
  <1>1. PICK B, rank, top : Shaped(h, Blockheads(f), B, rank, top)
    BY DEF Owning, Shape
  <1>2. Lent(h.array, f)
    BY DEF Owning
  <1>3. /\ p \in Nat /\ p - 1 \in Nat /\ f[p] \in Nat /\ p + f[p] <= End(h.array, p - 1) - 1
        /\ End(h.array, p - 1) \in Nat
    BY <1>1, <1>2, OwnersWords
  <1>4. \A m \in p - 1 .. End(h.array, p - 1) - 1 : g.array[m] = h.array[m]
    BY DEF Kept
  <1>5. g.array[p - 1] = h.array[p - 1]
    <2>1. p - 1 \in p - 1 .. End(h.array, p - 1) - 1
      BY <1>3
    <2> QED
      BY <1>4, <2>1
  <1>6. ASSUME NEW m \in p .. p + f[p] - 1 PROVE g.array[m] = h.array[m]
    <2>1. m \in p - 1 .. End(h.array, p - 1) - 1
      BY <1>3
    <2> QED
      BY <1>4, <2>1
  <1> QED
    BY <1>5, <1>6 DEF Len4

\* g is h with w words at i + 1 lent, and what the owners of f have left alone.
Handing(h, g, f, i, w) ==
    /\ Owning(g, Handed(f, i + 1, w))
    /\ i + 1 \notin DOMAIN f
    /\ Kept(h, g, Blockheads(f))

\* malloc gives a block that its search finds.
LEMMA Given ==
    ASSUME NEW h, NEW f, Owning(h, f), NEW bytes \in Nat, NEW i, i # 0,
           i = Best(h, Ints(bytes)) \/ i = FirstFit(h, Ints(bytes))
    PROVE  Handing(h, Carve(h, i, Ints(bytes)), f, i, Words(bytes))
  <1>1. PICK B, rank, top : Shaped(h, Blockheads(f), B, rank, top)
    BY DEF Owning, Shape
  <1>2. PICK n, w : n = Ints(bytes) /\ w = Words(bytes)
    OBVIOUS
  <1>3. n \in Nat /\ w \in Nat /\ n >= 4 /\ w <= n - 2
    BY <1>2, RoomForWords
  <1>4. i \in Avails(h.array, B) /\ n <= Len4(h.array, i)
    BY <1>1, <1>2, <1>3, BestFound DEF Found, Fits
  <1>5. Took(h, Carve(h, i, n), Blockheads(f), i, n)
    BY <1>1, <1>3, <1>4, Carved
  <1>6. PICK g : g = Carve(h, i, n)
    OBVIOUS
  <1>7. Shape(g, Blockheads(f) \cup {i}) /\ n <= Len4(g.array, i) /\ Kept(h, g, Blockheads(f))
    BY <1>5, <1>6 DEF Took
  <1>8. i \in Nat /\ i \in Index /\ i + 1 \in Index \ {0} /\ h.array[i] > 0
    <2>1. Spread(Avails(h.array, B))
      BY <1>1, ShapeFacts
    <2> QED
      BY <1>4, <2>1, SpreadIndex DEF Avails, Index
  <1>9. i + 1 \notin DOMAIN f
    <2> SUFFICES ASSUME i + 1 \in DOMAIN f PROVE FALSE
      OBVIOUS
    <2>1. i \in Blockheads(f)
      BY <1>8 DEF Blockheads
    <2>2. h.array[i] < 0
      BY <1>1, <2>1, ShapeFacts
    <2>3. h.array[i] \in Int
      BY <1>1, <1>8, ShapeFacts DEF IsHeap
    <2> QED
      BY <1>8, <2>2, <2>3
  <1>10. PICK k : k = Handed(f, i + 1, w)
    OBVIOUS
  <1>11. /\ DOMAIN k = DOMAIN f \cup {i + 1} /\ k[i + 1] = w
         /\ \A p \in DOMAIN f : k[p] = f[p]
         /\ k = [p \in DOMAIN k |-> k[p]]
    BY <1>9, <1>10 DEF Handed
  <1>12. Lent(h.array, f)
    BY DEF Owning
  <1>13. Blockheads(k) = Blockheads(f) \cup {i}
    <2>1. PICK D, c : D = DOMAIN f /\ c = i + 1
      OBVIOUS
    <2>2. DOMAIN k = D \cup {c}
      BY ONLY <1>11, <2>1
    <2>3. Blockheads(k) = {p - 1 : p \in D \cup {c}}
      BY ONLY <2>2 DEF Blockheads
    <2>4. Blockheads(f) = {p - 1 : p \in D}
      BY ONLY <2>1 DEF Blockheads
    <2>5. {p - 1 : p \in D \cup {c}} = {p - 1 : p \in D} \cup {c - 1}
      BY Zenon
    <2>6. c - 1 = i
      BY ONLY <1>8, <2>1
    <2> QED
      BY ONLY <2>3, <2>4, <2>5, <2>6, Zenon
  <1>14. ASSUME NEW p \in DOMAIN k PROVE k[p] \in Nat /\ k[p] <= Len4(g.array, p - 1) - 2 /\ p \in Index \ {0}
    <2>1. CASE p = i + 1
      <3>1. p - 1 = i
        BY <1>8, <2>1
      <3>2. Len4(g.array, i) \in Int
        <4>1. PICK C, r, t : Shaped(g, Blockheads(f) \cup {i}, C, r, t)
          BY <1>7 DEF Shape
        <4>2. Tiled(g.array, C) /\ i \in Heads(C)
          BY <4>1, ShapeFacts
        <4> QED
          BY <4>2, BlockNumbers
      <3> QED
        BY <1>3, <1>7, <1>8, <1>11, <2>1, <3>1, <3>2
    <2>2. CASE p \in DOMAIN f
      <3>1. p - 1 \in Blockheads(f)
        BY <2>2 DEF Blockheads
      <3>2. Len4(g.array, p - 1) = Len4(h.array, p - 1)
        BY <1>7, <2>2, <3>1, KeptWords
      <3> QED
        BY <1>11, <1>12, <2>2, <3>2 DEF Lent
    <2> QED
      BY <1>11, <2>1, <2>2
  <1>15. Lent(g.array, k)
    BY <1>11, <1>14 DEF Lent
  <1>16. Handing(h, g, f, i, w)
    BY ONLY <1>7, <1>9, <1>10, <1>13, <1>15 DEF Handing, Owning
  <1> QED
    BY ONLY <1>2, <1>6, <1>16

\* g is h without the block at p, and what the other owners have left alone.
Leaving(h, g, f, p) ==
    Owning(g, Minus(f, p)) /\ Kept(h, g, Blockheads(f) \ {p - 1})

\* free takes a block away.
LEMMA LetGo ==
    ASSUME NEW h, NEW f, Owning(h, f), NEW p \in DOMAIN f
    PROVE  Leaving(h, Release(h, p - 1), f, p)
  <1>1. PICK B, rank, top : Shaped(h, Blockheads(f), B, rank, top)
    BY DEF Owning, Shape
  <1>2. Lent(h.array, f)
    BY DEF Owning
  <1>3. p \in Nat /\ p - 1 \in Blockheads(f)
    BY <1>1, <1>2, OwnersWords
  <1>4. PICK i, g : i = p - 1 /\ g = Release(h, i)
    OBVIOUS
  <1>5. Shape(g, Blockheads(f) \ {i}) /\ Kept(h, g, Blockheads(f) \ {i})
    BY <1>1, <1>3, <1>4, ReleasedShaped
  <1>6. PICK k : k = Minus(f, p)
    OBVIOUS
  <1>7. DOMAIN k = DOMAIN f \ {p} /\ (\A q \in DOMAIN k : k[q] = f[q]) /\ k = [q \in DOMAIN k |-> k[q]]
    BY <1>6 DEF Minus
  <1>8. \A q \in DOMAIN f : q \in Nat
    BY <1>2, HeapAssumption DEF Lent, Index
  <1>9. Blockheads(k) = Blockheads(f) \ {i}
    <2>1. \A q \in DOMAIN f : q - 1 = i <=> q = p
      BY <1>3, <1>4, <1>8
    <2> QED
      BY ONLY <1>7, <2>1 DEF Blockheads
  <1>10. ASSUME NEW q \in DOMAIN k PROVE k[q] \in Nat /\ k[q] <= Len4(g.array, q - 1) - 2 /\ q \in Index \ {0}
    <2>1. q \in DOMAIN f /\ k[q] = f[q] /\ q - 1 \in Blockheads(f) \ {i}
      BY <1>3, <1>4, <1>7, <1>8 DEF Blockheads
    <2>2. Len4(g.array, q - 1) = Len4(h.array, q - 1)
      BY <1>5, <2>1, KeptWords
    <2> QED
      BY <1>2, <2>1, <2>2 DEF Lent
  <1>11. Lent(g.array, k)
    BY <1>7, <1>10 DEF Lent
  <1>12. Leaving(h, g, f, p)
    BY ONLY <1>4, <1>5, <1>6, <1>9, <1>11 DEF Leaving, Owning
  <1> QED
    BY ONLY <1>4, <1>12

\* An owner's words may become anything.
LEMMA Filled ==
    ASSUME NEW h, NEW f, Owning(h, f), NEW p \in DOMAIN f, NEW g, IsHeap(g), g.avail = h.avail,
           \A m \in Index : m \notin p .. p + f[p] - 1 => g.array[m] = h.array[m]
    PROVE  Owning(g, f)
  <1>1. PICK B, rank, top : Shaped(h, Blockheads(f), B, rank, top)
    BY DEF Owning, Shape
  <1> DEFINE a == h.array
             b == g.array
             T == Blockheads(f)
             A == Avails(a, B)
  <1>2. /\ IsHeap(h) /\ Tiled(a, B) /\ Spread(A) /\ Linked(a, h.avail, A, rank, top)
        /\ A \subseteq Heads(B) /\ T \subseteq Heads(B) /\ Takens(a, B) = Ends \cup T
        /\ \A j \in T : j \notin Ends /\ a[j] < 0 /\ Len4(a, j) >= 4
        /\ \A j \in A : End(a, j) \notin A
    BY <1>1, ShapeFacts
  <1>3. Lent(a, f)
    BY DEF Owning
  <1>4. PICK i : i = p - 1
    OBVIOUS
  <1>5. /\ p \in Nat /\ i \in Nat /\ p = i + 1 /\ f[p] \in Nat /\ i \in Heads(B) /\ i \in T /\ a[i] < 0
        /\ p + f[p] <= End(a, i) - 1 /\ End(a, i) \in Nat
    BY <1>1, <1>3, <1>4, OwnersWords
  <1> HIDE DEF a, b, T, A
  <1>6. ASSUME NEW m \in Index, m <= i \/ m >= End(a, i) - 1 PROVE b[m] = a[m]
    <2>1. m \in Int
      BY HeapAssumption DEF Index
    <2>2. m \notin p .. p + f[p] - 1
      BY <1>5, <1>6, <2>1
    <2> QED
      BY <2>2 DEF a, b
  <1>7. ASSUME NEW j \in Heads(B) PROVE b[j] = a[j] /\ b[End(a, j) - 1] = a[End(a, j) - 1]
    <2>1. /\ j \in Index /\ j \in Nat /\ End(a, j) \in Nat /\ End(a, j) <= HeapLen /\ j + 2 <= End(a, j)
          /\ End(a, j) - 1 \in Index
      <3>1. /\ j \in Index /\ j \in Nat /\ End(a, j) \in Nat /\ End(a, j) <= HeapLen /\ j + 2 <= End(a, j)
        BY <1>2, BlockNumbers
      <3> QED
        BY <3>1, HeapAssumption DEF Index
    <2>2. j <= i \/ j >= End(a, i) - 1
      <3>1. j <= i \/ j >= End(a, i)
        BY <1>2, <1>5 DEF Tiled, Block, Heads
      <3> QED
        BY <1>5, <2>1, <3>1
    <2>3. End(a, j) - 1 <= i \/ End(a, j) - 1 >= End(a, i) - 1
      <3>1. CASE i = j
        BY <1>5, <3>1
      <3>2. CASE i # j
        <4>1. End(a, j) - 1 < i \/ End(a, j) - 1 >= End(a, i)
          <5>1. PICK m : m = End(a, j) - 1
            OBVIOUS
          <5>2. m \in Int /\ j <= m /\ m < End(a, j)
            BY <2>1, <5>1
          <5>3. m < i \/ m >= End(a, i)
            BY ONLY <1>2, <1>5, <3>2, <5>2, j \in Heads(B), Outside
          <5> QED
            BY ONLY <5>1, <5>3
        <4> QED
          BY <1>5, <2>1, <4>1
      <3> QED
        BY <3>1, <3>2
    <2> QED
      BY <1>6, <2>1, <2>2, <2>3
  <1>8. \A j \in Heads(B) : Len4(b, j) = Len4(a, j) /\ End(b, j) = End(a, j)
    BY <1>7 DEF Len4, End
  <1>9. Tiled(b, B)
    <2>1. b \in [Index -> Int]
      BY DEF IsHeap, b
    <2>2. ASSUME NEW j \in Heads(B) PROVE Block(b, B, j)
      <3>1. Block(a, B, j)
        BY <1>2 DEF Tiled
      <3> QED
        BY <1>7, <1>8, <3>1 DEF Block
    <2> QED
      BY ONLY <1>2, <2>1, <2>2 DEF Tiled
  <1>10. Avails(b, B) = A /\ Takens(b, B) = Takens(a, B)
    BY <1>7 DEF Avails, Takens, A
  <1>11. \A m \in Links(A) : b[m] = a[m]
    <2>1. ASSUME NEW m \in Links(A) PROVE b[m] = a[m]
      <3>1. m \in Index
        BY <1>2, SpreadIndex DEF Links
      <3>2. m \in Int
        BY <3>1, HeapAssumption DEF Index
      <3>3. ~(i <= m /\ m < End(a, i))
        BY <1>2, <1>5, <3>2, NoLink DEF A
      <3> QED
        BY <1>5, <1>6, <3>1, <3>2, <3>3
    <2> QED
      BY <2>1
  <1>12. Linked(b, h.avail, A, rank, top)
    BY <1>2, <1>11, LinkedSame
  <1>13. \A j \in T : Len4(b, j) >= 4
    BY <1>2, <1>8
  <1>14. \A j \in A : End(b, j) \notin A
    BY <1>2, <1>8
  <1>15. Shaped(g, T, B, rank, top)
    <2>1. T \cap Ends = {}
      BY <1>2
    <2>2. Linked(b, g.avail, A, rank, top)
      BY <1>12
    <2>3. IsHeap(g)
      OBVIOUS
    <2> QED
      BY ONLY <1>2, <1>9, <1>10, <1>13, <1>14, <2>1, <2>2, <2>3 DEF Shaped, b
  <1>16. Lent(b, f)
    <2>1. \A q \in DOMAIN f : Len4(b, q - 1) = Len4(a, q - 1)
      BY <1>2, <1>8 DEF T, Blockheads
    <2> QED
      BY <1>3, <2>1 DEF Lent
  <1> QED
    BY <1>15, <1>16 DEF Owning, Shape, T, b
-----------------------------------------------------------------------------
(* The invariant holds: the calls of both heaps.                            *)

\* A new heap is one available block between the two ends.
LEMMA FormattedShape ==
    ASSUME NEW raw, IsHeap(raw), raw.avail = 0
    PROVE  Shape(MakeTaken(MakeAvail(MakeTaken(raw, 0, 2), 2, HeapLen - 4), HeapLen - 2, 2), {})
  <1>1. HeapLen \in Nat /\ HeapLen >= 8
    BY HeapAssumption
  <1>2. PICK x : x = MakeTaken(raw, 0, 2)
    OBVIOUS
  <1>3. IsHeap(x) /\ x.avail = 0 /\ x.array[0] = -2 /\ x.array[1] = -2
    <2>1. PICK i, n, v : i = 0 /\ n = 2 /\ v = -2
      OBVIOUS
    <2>2. i \in Nat /\ n \in Nat /\ n >= 2 /\ i + n <= HeapLen /\ v \in Int
      BY <1>1, <2>1
    <2>3. x = Tag(raw, i, n, v)
      BY <1>2, <2>1 DEF MakeTaken
    <2>4. /\ IsHeap(Tag(raw, i, n, v)) /\ Tag(raw, i, n, v).avail = raw.avail
          /\ \A k \in Index : Tag(raw, i, n, v).array[k] = IF k = i \/ k = i + n - 1 THEN v ELSE raw.array[k]
      BY ONLY <2>2, IsHeap(raw), TagWrites
    <2>5. 0 \in Index /\ 1 \in Index /\ 0 = i /\ 1 = i + n - 1
      BY <1>1, <2>1 DEF Index
    <2>6. Tag(raw, i, n, v).array[0] = v /\ Tag(raw, i, n, v).array[1] = v
      BY ONLY <2>4, <2>5
    <2> QED
      BY ONLY <2>1, <2>3, <2>4, <2>6, raw.avail = 0
  <1>4. PICK n : n = HeapLen - 4
    OBVIOUS
  <1>5. n \in Nat /\ n >= 4 /\ 2 + n <= HeapLen /\ 2 + n - 1 = HeapLen - 3
    BY <1>1, <1>4
  <1>6. PICK y : y = MakeAvail(x, 2, n)
    OBVIOUS
  <1>7. Pushed(x, y, {}, 2, n)
    <2>1. Linked(x.array, x.avail, {}, [k \in Index |-> 0], 0)
      BY <1>3 DEF Linked
    <2>2. Spread({} \cup {2})
      BY <1>1 DEF Spread
    <2>3. PICK i \in Nat : i = 2
      OBVIOUS
    <2>4. i \notin {} /\ i \notin Links({}) /\ i + n - 1 \notin Links({}) /\ i + n <= HeapLen
          /\ Spread({} \cup {i})
      BY <1>5, <2>2, <2>3 DEF Links
    <2>5. Pushed(x, MakeAvail(x, i, n), {}, i, n)
      BY ONLY <1>3, <1>5, <2>1, <2>4, i \in Nat, MakeAvailLinked
    <2> QED
      BY ONLY <1>6, <2>3, <2>5
  <1>8. PICK r, t : Linked(y.array, y.avail, {2}, r, t)
    BY <1>7 DEF Pushed
  <1>9. IsHeap(y) /\ y.array[0] = -2 /\ y.array[1] = -2 /\ y.array[2] = n /\ y.array[HeapLen - 3] = n
    <2>1. 0 \notin {2, 2 + n - 1} \cup Links({} \cup {2}) /\ 1 \notin {2, 2 + n - 1} \cup Links({} \cup {2})
      BY <1>5 DEF Links
    <2>2. 0 \in Index /\ 1 \in Index
      BY <1>1 DEF Index
    <2> QED
      BY <1>3, <1>5, <1>7, <2>1, <2>2 DEF Pushed
  <1>10. PICK z : z = MakeTaken(y, HeapLen - 2, 2)
    OBVIOUS
  <1> DEFINE b == z.array
  <1>11. IsHeap(z) /\ z.avail = y.avail
         /\ \A k \in Index : b[k] = IF k = HeapLen - 2 \/ k = HeapLen - 1 THEN -2 ELSE y.array[k]
    <2>1. PICK i, m, v : i = HeapLen - 2 /\ m = 2 /\ v = -2
      OBVIOUS
    <2>2. i \in Nat /\ m \in Nat /\ m >= 2 /\ i + m <= HeapLen /\ v \in Int /\ i + m - 1 = HeapLen - 1
      BY <1>1, <2>1
    <2>3. z = Tag(y, i, m, v)
      BY <1>10, <2>1 DEF MakeTaken
    <2>4. /\ IsHeap(Tag(y, i, m, v)) /\ Tag(y, i, m, v).avail = y.avail
          /\ \A k \in Index : Tag(y, i, m, v).array[k] = IF k = i \/ k = i + m - 1 THEN v ELSE y.array[k]
      BY ONLY <2>2, <1>9, TagWrites
    <2> QED
      BY ONLY <2>1, <2>2, <2>3, <2>4
  <1> HIDE DEF b
  <1>12. /\ b[0] = -2 /\ b[1] = -2 /\ b[2] = n /\ b[HeapLen - 3] = n
         /\ b[HeapLen - 2] = -2 /\ b[HeapLen - 1] = -2
    <2>1. /\ 0 \in Index /\ 1 \in Index /\ 2 \in Index /\ HeapLen - 3 \in Index /\ HeapLen - 2 \in Index
          /\ HeapLen - 1 \in Index
      BY <1>1 DEF Index
    <2>2. \A k \in {0, 1, 2, HeapLen - 3} : k # HeapLen - 2 /\ k # HeapLen - 1
      BY <1>1
    <2> QED
      BY ONLY <1>9, <1>11, <2>1, <2>2
  <1> DEFINE B == {0, 2, HeapLen - 2, HeapLen}
  <1>13. Heads(B) = {0, 2, HeapLen - 2}
    BY <1>1 DEF Heads
  <1>14. Len4(b, 0) = 2 /\ Len4(b, 2) = n /\ Len4(b, HeapLen - 2) = 2
    <2>1. n \in Nat
      BY <1>5
    <2>2. Len4(b, 2) = n
      BY <1>12, <2>1 DEF Len4
    <2>3. ASSUME NEW k, b[k] = -2 PROVE Len4(b, k) = 2
      <3>1. PICK m \in Nat \ {0} : m = 2
        OBVIOUS
      <3>2. PICK v \in Int : v = b[k] /\ v = -m
        BY <2>3, <3>1
      <3>3. v < 0 /\ -v = m
        BY ONLY <3>2, m \in Nat \ {0}
      <3> QED
        BY ONLY <3>1, <3>2, <3>3 DEF Len4
    <2> QED
      BY ONLY <1>12, <2>2, <2>3
  <1>15. End(b, 0) = 2 /\ End(b, 2) = HeapLen - 2 /\ End(b, HeapLen - 2) = HeapLen
    BY <1>1, <1>4, <1>14 DEF End
  <1>16. Tiled(b, B)
    <2>1. Block(b, B, 0)
      BY <1>1, <1>12, <1>14, <1>15 DEF Block
    <2>2. Block(b, B, 2)
      <3>1. b[End(b, 2) - 1] = b[2]
        <4>1. HeapLen - 2 - 1 = HeapLen - 3
          BY <1>1
        <4> QED
          BY ONLY <1>12, <1>15, <4>1
      <3> QED
        BY <1>1, <1>5, <1>12, <1>14, <1>15, <3>1 DEF Block
    <2>3. Block(b, B, HeapLen - 2)
      BY <1>1, <1>12, <1>14, <1>15 DEF Block
    <2>4. B \subseteq 0 .. HeapLen
      BY <1>1
    <2>5. b \in [Index -> Int]
      BY <1>11 DEF IsHeap, b
    <2>6. \A i \in Heads(B) : Block(b, B, i)
      BY ONLY <1>13, <2>1, <2>2, <2>3
    <2>7. 0 \in B /\ HeapLen \in B
      OBVIOUS
    <2> HIDE DEF B
    <2> QED
      BY ONLY <2>4, <2>5, <2>6, <2>7 DEF Tiled
  <1>17. Avails(b, B) = {2} /\ Takens(b, B) = Ends
    BY <1>1, <1>5, <1>12, <1>13 DEF Avails, Takens, Ends
  <1>18. Linked(b, z.avail, {2}, r, t)
    <2>1. Spread({2})
      BY <1>1 DEF Spread
    <2>2. \A k \in Links({2}) : k \in Index /\ k # HeapLen - 2 /\ k # HeapLen - 1
      BY <1>1 DEF Links, Index
    <2>3. \A k \in Links({2}) : b[k] = y.array[k]
      BY <1>11, <2>2
    <2>4. Linked(b, y.avail, {2}, r, t)
      BY ONLY <1>8, <2>1, <2>3, LinkedSame
    <2> QED
      BY ONLY <1>11, <2>4
  <1>19. \A i \in {2} : End(b, i) \notin {2}
    BY <1>1, <1>15
  <1> HIDE DEF B
  <1>20. Shaped(z, {}, B, r, t)
    <2>1. Takens(b, B) = Ends \cup {} /\ {} \cap Ends = {} /\ \A i \in {} : Len4(b, i) >= 4
      BY <1>17
    <2> QED
      BY ONLY <1>11, <1>16, <1>17, <1>18, <1>19, <2>1 DEF Shaped, b
  <1>21. Shape(z, {})
    BY <1>20 DEF Shape
  <1> QED
    BY ONLY <1>2, <1>4, <1>6, <1>10, <1>21

\* It has no owners.
LEMMA InitInv == heap_init \/ Init => HeapInv
  <1> SUFFICES ASSUME Formatted, user \in BOOLEAN PROVE HeapInv
    BY DEF heap_init, Init
  <1> DEFINE raw == [array |-> [i \in Index |-> 0], avail |-> 0]
  <1>1. IsHeap(raw) /\ raw.avail = 0
    BY DEF IsHeap
  <1>2. PICK h : h = MakeTaken(MakeAvail(MakeTaken(raw, 0, 2), 2, HeapLen - 4), HeapLen - 2, 2)
    OBVIOUS
  <1>3. array = h.array /\ avail = h.avail /\ held = <<>>
    BY <1>2 DEF Formatted
  <1> HIDE DEF raw
  <1>4. Shape(h, {})
    BY ONLY <1>1, <1>2, FormattedShape
  <1>5. heap = h
    <2>1. IsHeap(h)
      BY <1>4, ShapeFacts DEF Shape
    <2> QED
      BY <1>3, <2>1 DEF heap, IsHeap
  <1>6. DOMAIN held = {}
    BY <1>3
  <1>7. Lent(array, held)
    BY <1>3, <1>6 DEF Lent
  <1>8. Blockheads(held) = {}
    BY <1>6 DEF Blockheads
  <1> QED
    BY <1>4, <1>5, <1>7, <1>8, <1>3 DEF HeapInv, Owning

\* Become makes the heap what it is given, if that is a heap.
LEMMA Became ==
    ASSUME NEW g, IsHeap(g), Become(g)
    PROVE  heap' = g /\ array' = g.array /\ avail' = g.avail /\ user' = user
  BY DEF Become, IsHeap, heap

\* A heap with owners is a heap.
LEMMA OwningHeap == ASSUME NEW h, NEW f, Owning(h, f) PROVE IsHeap(h)
  <1>1. PICK B, rank, top : Shaped(h, Blockheads(f), B, rank, top)
    BY DEF Owning, Shape
  <1> QED
    BY <1>1 DEF Shaped

\* malloc, as both heaps have it.
LEMMA GiveInv ==
    ASSUME HeapInv, NEW bytes \in Nat, NEW i, i # 0,
           i = Best(heap, Ints(bytes)) \/ i = FirstFit(heap, Ints(bytes)),
           Become(Carve(heap, i, Ints(bytes))), held' = Give(i + 1, bytes)
    PROVE  Handing(heap, heap', held, i, Words(bytes)) /\ held' = Handed(held, i + 1, Words(bytes)) /\ HeapInv'
  <1>1. Owning(heap, held) /\ user \in BOOLEAN
    BY DEF HeapInv
  <1>2. PICK g : g = Carve(heap, i, Ints(bytes))
    OBVIOUS
  <1>3. Handing(heap, g, held, i, Words(bytes))
    BY <1>1, <1>2, Given
  <1>4. heap' = g /\ user' = user
    <2>1. IsHeap(g)
      BY <1>3, OwningHeap DEF Handing
    <2> QED
      BY <1>2, <2>1, Became
  <1>5. held' = Handed(held, i + 1, Words(bytes))
    BY DEF Give, Handed
  <1>6. Owning(heap', held')
    BY <1>3, <1>4, <1>5 DEF Handing
  <1> QED
    BY <1>1, <1>3, <1>4, <1>5, <1>6 DEF HeapInv

\* free, as both heaps have it.
LEMMA WithoutInv ==
    ASSUME HeapInv, NEW p \in DOMAIN held, Become(Release(heap, p - 1)), held' = Without(p)
    PROVE  Leaving(heap, heap', held, p) /\ held' = Minus(held, p) /\ HeapInv'
  <1>1. Owning(heap, held) /\ user \in BOOLEAN
    BY DEF HeapInv
  <1>2. PICK g : g = Release(heap, p - 1)
    OBVIOUS
  <1>3. Leaving(heap, g, held, p)
    BY <1>1, <1>2, LetGo
  <1>4. heap' = g /\ user' = user
    <2>1. IsHeap(g)
      BY <1>3, OwningHeap DEF Leaving
    <2> QED
      BY <1>2, <2>1, Became
  <1>5. held' = Minus(held, p)
    BY DEF Without, Minus
  <1>6. Owning(heap', held')
    BY <1>3, <1>4, <1>5 DEF Leaving
  <1> QED
    BY <1>1, <1>3, <1>4, <1>5, <1>6 DEF HeapInv

\* An owner writes in its words only.
LEMMA WriteInv ==
    ASSUME HeapInv, NEW p, NEW x \in Int, Write(p, x)
    PROVE  HeapInv'
  <1>1. Owning(heap, held) /\ user \in BOOLEAN /\ IsHeap(heap)
    BY OwningHeap DEF HeapInv
  <1>2. /\ p \in DOMAIN held /\ held' = held /\ user' = user /\ avail' = avail
        /\ array' = [i \in Index |-> IF i \in Owned(p) THEN x ELSE array[i]]
    BY DEF Write
  <1>3. heap.array = array /\ heap.avail = avail /\ heap'.array = array' /\ heap'.avail = avail'
    BY DEF heap
  <1>4. array \in [Index -> Int] /\ avail \in Int
    BY <1>1, <1>3 DEF IsHeap
  <1>5. array' \in [Index -> Int]
    BY <1>2, <1>4
  <1>6. IsHeap(heap')
    <2>1. heap' = [array |-> heap'.array, avail |-> heap'.avail]
      BY DEF heap
    <2> QED
      BY ONLY <1>2, <1>3, <1>4, <1>5, <2>1 DEF IsHeap
  <1>7. \A m \in Index : m \notin p .. p + held[p] - 1 => heap'.array[m] = heap.array[m]
    BY <1>2, <1>3 DEF Owned
  <1>8. Owning(heap', held)
    <2>1. heap'.avail = heap.avail
      BY <1>2, <1>3
    <2> QED
      BY ONLY <1>1, <1>2, <1>6, <1>7, <2>1, Filled
  <1> QED
    BY <1>1, <1>2, <1>8 DEF HeapInv
-----------------------------------------------------------------------------
(* The invariant holds: realloc.                                            *)

\* The least of two numbers.
LEMMA MinOfTwo ==
    ASSUME NEW x \in Nat, NEW y \in Nat
    PROVE  Min({x, y}) \in Nat /\ Min({x, y}) <= x /\ Min({x, y}) <= y /\ (Min({x, y}) = x \/ Min({x, y}) = y)
  <1>1. \E k \in {x, y} : \A l \in {x, y} : k <= l
    BY x <= y \/ y <= x
  <1>2. PICK k : k = Min({x, y})
    OBVIOUS
  <1>3. k \in {x, y} /\ \A l \in {x, y} : k <= l
    BY <1>1, <1>2 DEF Min
  <1>4. k \in Nat /\ k <= x /\ k <= y /\ (k = x \/ k = y)
    BY ONLY <1>3, x \in Nat, y \in Nat
  <1> QED
    BY ONLY <1>2, <1>4

\* memcpy leaves the heap as it was but for words of the block at q.
LEMMA Copied ==
    ASSUME NEW h, NEW f, Owning(h, f), NEW p \in DOMAIN f, NEW q \in DOMAIN f, NEW w, w = f[q]
    PROVE  /\ Owning(Copy(h, p, q, w), f)
           /\ \A m \in Index : m \notin q .. q + w - 1 => Copy(h, p, q, w).array[m] = h.array[m]
           /\ \A k \in 0 .. w - 1 : k < f[p] => Copy(h, p, q, w).array[q + k] = h.array[p + k]
  <1>1. PICK B, rank, top : Shaped(h, Blockheads(f), B, rank, top)
    BY DEF Owning, Shape
  <1>2. Lent(h.array, f) /\ IsHeap(h)
    BY OwningHeap DEF Owning
  <1>3. /\ p \in Nat /\ f[p] \in Nat /\ f[p] <= Len4(h.array, p - 1) - 2
        /\ End(h.array, p - 1) = p - 1 + Len4(h.array, p - 1) /\ Len4(h.array, p - 1) \in Nat
        /\ End(h.array, p - 1) < HeapLen
    BY <1>1, <1>2, OwnersWords
  <1>4. q \in Nat /\ w \in Nat /\ q .. q + w - 1 \subseteq Index
    BY OwnersInHeap
  <1>5. PICK l \in Nat : l = Len4(h.array, p - 1)
    BY <1>3
  <1>6. PICK m \in Nat : m = Min({w, l}) /\ m <= w /\ m <= l /\ (m = w \/ m = l)
    BY ONLY <1>4, l \in Nat, MinOfTwo
  <1>7. Size(h, p - 1) = l
    BY <1>5 DEF Size, Len4
  <1>8. PICK g : g = Copy(h, p, q, w)
    OBVIOUS
  <1>9. g = [h EXCEPT !.array = [j \in Index |-> IF j \in q .. q + m - 1 THEN h.array[p + j - q] ELSE h.array[j]]]
    BY <1>6, <1>7, <1>8 DEF Copy
  <1>10. g = [array |-> [j \in Index |-> IF j \in q .. q + m - 1 THEN h.array[p + j - q] ELSE h.array[j]],
              avail |-> h.avail]
    BY ONLY <1>2, <1>9 DEF IsHeap
  <1>11. HeapLen \in Nat
    BY HeapAssumption
  <1>12. ASSUME NEW j \in q .. q + m - 1 PROVE p + j - q \in Index
    BY <1>3, <1>4, <1>5, <1>6, <1>11 DEF Index
  <1>13. IsHeap(g)
    <2>1. ASSUME NEW j \in Index PROVE g.array[j] \in Int
      BY ONLY <1>2, <1>10, <1>12, j \in Index DEF IsHeap
    <2>2. g.array = [j \in Index |-> g.array[j]]
      BY <1>10
    <2>3. g.array \in [Index -> Int]
      BY ONLY <2>1, <2>2
    <2> QED
      BY ONLY <1>2, <1>10, <2>3 DEF IsHeap
  <1>14. ASSUME NEW j \in Index, j \notin q .. q + w - 1 PROVE g.array[j] = h.array[j]
    <2>1. j \notin q .. q + m - 1
      BY <1>4, <1>6, <1>11, <1>14 DEF Index
    <2> QED
      BY ONLY <1>10, <2>1, j \in Index
  <1>15. ASSUME NEW k \in 0 .. w - 1, k < f[p] PROVE g.array[q + k] = h.array[p + k]
    <2>1. k \in Nat /\ k < m
      BY <1>3, <1>4, <1>5, <1>6, <1>15
    <2>2. q + k \in q .. q + m - 1 /\ q + k \in Index /\ p + (q + k) - q = p + k
      BY <1>3, <1>4, <1>6, <2>1
    <2> QED
      BY ONLY <1>10, <2>2
  <1>16. Owning(g, f)
    <2>1. g.avail = h.avail
      BY <1>10
    <2>2. \A j \in Index : j \notin q .. q + f[q] - 1 => g.array[j] = h.array[j]
      BY <1>14
    <2> QED
      BY ONLY <1>13, <2>1, <2>2, Owning(h, f), q \in DOMAIN f, Filled
  <1> QED
    BY ONLY <1>8, <1>14, <1>15, <1>16

\* g is h with the block at p moved to q, where it has w words.
Moving(h, g, f, p, q, w) ==
    /\ Owning(g, Minus(Handed(f, q, w), p))
    /\ q \notin DOMAIN f
    /\ \A r \in DOMAIN f \ {p} : \A m \in r .. r + f[r] - 1 : g.array[m] = h.array[m]
    /\ \A k \in 0 .. w - 1 : k < f[p] => g.array[q + k] = h.array[p + k]

\* realloc carves the new block, copies and then lets the old one go.
LEMMA MovedMoving ==
    ASSUME HeapInv, NEW p \in DOMAIN held, NEW bytes \in Nat,
           NEW i, i # 0, i = FirstFit(heap, Ints(bytes))
    PROVE  Moving(heap, Moved(p, i + 1, bytes), held, p, i + 1, Words(bytes))
  <1>1. PICK f, h, w, n : f = held /\ h = heap /\ w = Words(bytes) /\ n = Ints(bytes)
    OBVIOUS
  <1>2. Owning(h, f) /\ p \in DOMAIN f /\ w \in Nat
    BY <1>1, RoomForWords DEF HeapInv
  <1>3. PICK g : g = Carve(h, i, n)
    OBVIOUS
  <1>4. Handing(h, g, f, i, w)
    BY <1>1, <1>2, <1>3, Given
  <1>5. PICK q : q = i + 1
    OBVIOUS
  <1>6. PICK k : k = Handed(f, q, w)
    OBVIOUS
  <1>7. Owning(g, k) /\ q \notin DOMAIN f /\ Kept(h, g, Blockheads(f))
    BY ONLY <1>4, <1>5, <1>6 DEF Handing
  <1>8. /\ DOMAIN k = DOMAIN f \cup {q} /\ k[q] = w /\ p # q /\ p \in DOMAIN k /\ q \in DOMAIN k
        /\ \A r \in DOMAIN f : k[r] = f[r]
    BY <1>2, <1>6, <1>7 DEF Handed
  <1>9. PICK c : c = Copy(g, p, q, w)
    OBVIOUS
  <1>10. /\ Owning(c, k)
         /\ \A m \in Index : m \notin q .. q + w - 1 => c.array[m] = g.array[m]
         /\ \A j \in 0 .. w - 1 : j < k[p] => c.array[q + j] = g.array[p + j]
    <2>1. w = k[q] /\ p \in DOMAIN k /\ q \in DOMAIN k
      BY <1>8
    <2> QED
      BY ONLY <1>7, <1>9, <2>1, Copied
  <1>11. PICK z : z = Release(c, p - 1)
    OBVIOUS
  <1>12. Leaving(c, z, k, p)
    <2>1. p \in DOMAIN k
      BY <1>8
    <2> QED
      BY ONLY <1>10, <1>11, <2>1, LetGo
  <1>13. Owning(z, Minus(k, p)) /\ Kept(c, z, Blockheads(k) \ {p - 1})
    BY ONLY <1>12 DEF Leaving
  <1>14. \A r \in DOMAIN k : r \in Nat /\ k[r] \in Nat /\ r .. r + k[r] - 1 \subseteq Index
    BY ONLY <1>7, OwnersInHeap
  <1>15. ASSUME NEW r \in DOMAIN k, r # p, NEW m \in r .. r + k[r] - 1 PROVE z.array[m] = c.array[m]
    <2>1. r - 1 \in Blockheads(k) \ {p - 1}
      BY <1>8, <1>14, <1>15 DEF Blockheads
    <2>2. \A x \in r .. r + k[r] - 1 : z.array[x] = c.array[x]
      BY ONLY <1>10, <1>13, <2>1, r \in DOMAIN k, KeptWords
    <2> QED
      BY <2>2
  <1>16. ASSUME NEW r \in DOMAIN f, NEW m \in r .. r + f[r] - 1 PROVE g.array[m] = h.array[m]
    <2>1. r - 1 \in Blockheads(f)
      BY DEF Blockheads
    <2>2. \A x \in r .. r + f[r] - 1 : g.array[x] = h.array[x]
      BY ONLY <1>2, <1>7, <2>1, r \in DOMAIN f, KeptWords
    <2> QED
      BY <2>2
  <1>17. ASSUME NEW r \in DOMAIN f \ {p}, NEW m \in r .. r + f[r] - 1 PROVE z.array[m] = h.array[m]
    <2>1. r \in DOMAIN k /\ k[r] = f[r] /\ r # q /\ q \in DOMAIN k /\ m \in r .. r + k[r] - 1
      BY <1>7, <1>8
    <2>2. m \notin q .. q + k[q] - 1
      BY ONLY <1>7, <2>1, OwnersApart
    <2>3. m \in Index
      BY <1>14, <2>1
    <2>4. c.array[m] = g.array[m]
      BY <1>8, <1>10, <2>2, <2>3
    <2>5. z.array[m] = c.array[m]
      BY <1>15, <2>1
    <2>6. g.array[m] = h.array[m]
      BY <1>16
    <2> QED
      BY ONLY <2>4, <2>5, <2>6
  <1>18. ASSUME NEW j \in 0 .. w - 1, j < f[p] PROVE z.array[q + j] = h.array[p + j]
    <2>1. j \in Nat /\ q \in Nat /\ p \in Nat /\ f[p] \in Nat /\ k[p] = f[p]
      BY <1>2, <1>8, <1>14
    <2>2. q + j \in q .. q + k[q] - 1
      BY <1>2, <1>8, <2>1
    <2>3. p + j \in p .. p + f[p] - 1
      BY <1>18, <2>1
    <2>4. z.array[q + j] = c.array[q + j]
      BY <1>8, <1>15, <2>2
    <2>5. c.array[q + j] = g.array[p + j]
      BY <1>10, <1>18, <2>1
    <2>6. g.array[p + j] = h.array[p + j]
      BY <1>2, <1>16, <2>3
    <2> QED
      BY ONLY <2>4, <2>5, <2>6
  <1>19. Moving(h, z, f, p, q, w)
    BY ONLY <1>6, <1>7, <1>13, <1>17, <1>18 DEF Moving
  <1>20. z = Moved(p, q, bytes)
    <2>1. q - 1 = i
      <3>1. i \in Nat
        <4>1. PICK B, rank, top : Shaped(h, Blockheads(f), B, rank, top)
          BY <1>2 DEF Owning, Shape
        <4>2. Found(h, Avails(h.array, B), n, i)
          BY <1>1, <4>1, RoomForWords, BestFound
        <4>3. i \in Avails(h.array, B) /\ Spread(Avails(h.array, B))
          BY <4>1, <4>2, ShapeFacts DEF Found, Fits
        <4> QED
          BY <4>3, SpreadIndex
      <3> QED
        BY ONLY <1>5, <3>1
    <2>2. Moved(p, q, bytes) = Release(Copy(Carve(heap, q - 1, Ints(bytes)), p, q, Words(bytes)), p - 1)
      BY DEF Moved
    <2> QED
      BY ONLY <1>1, <1>3, <1>9, <1>11, <2>1, <2>2
  <1> QED
    BY ONLY <1>1, <1>5, <1>19, <1>20
-----------------------------------------------------------------------------
(* The calls are an Allocator's.                                            *)

\* The words of the blocks of f, and what is in them.
Area(f) == UNION {p .. p + f[p] - 1 : p \in DOMAIN f}
Contents(h, f) == [a \in Area(f) |-> h.array[a]]

\* A new block has words of the heap that nobody has.
LEMMA HandedArea ==
    ASSUME NEW g, NEW f, NEW q, NEW w, Owning(g, Handed(f, q, w)), q \notin DOMAIN f
    PROVE  /\ q \in Index /\ q .. q + w - 1 \subseteq Index
           /\ q .. q + w - 1 \cap Area(f) = {}
           /\ Area(Handed(f, q, w)) = Area(f) \cup q .. q + w - 1
  <1>1. PICK k : k = Handed(f, q, w)
    OBVIOUS
  <1>2. /\ DOMAIN k = DOMAIN f \cup {q} /\ k[q] = w /\ q \in DOMAIN k
        /\ \A r \in DOMAIN f : k[r] = f[r] /\ r # q /\ r \in DOMAIN k
    BY <1>1 DEF Handed
  <1>3. Owning(g, k)
    BY <1>1
  <1>4. q \in Index /\ q .. q + w - 1 \subseteq Index
    <2>1. q \in Index /\ q .. q + k[q] - 1 \subseteq Index
      BY ONLY <1>2, <1>3, OwnersInHeap
    <2> QED
      BY ONLY <1>2, <2>1
  <1>5. q .. q + w - 1 \cap Area(f) = {}
    <2>1. ASSUME NEW r \in DOMAIN f, NEW m \in r .. r + f[r] - 1 PROVE m \notin q .. q + w - 1
      <3>1. r \in DOMAIN k /\ q \in DOMAIN k /\ r # q /\ m \in r .. r + k[r] - 1
        BY <1>2
      <3>2. m \notin q .. q + k[q] - 1
        BY ONLY <1>3, <3>1, OwnersApart
      <3> QED
        BY ONLY <1>2, <3>2
    <2>2. ASSUME NEW m \in Area(f) PROVE m \notin q .. q + w - 1
      <3>1. PICK r \in DOMAIN f : m \in r .. r + f[r] - 1
        BY DEF Area
      <3> QED
        BY <2>1, <3>1
    <2> QED
      BY <2>2
  <1>6. Area(k) = Area(f) \cup q .. q + w - 1
    <2>1. ASSUME NEW m PROVE m \in Area(k) <=> m \in Area(f) \/ m \in q .. q + w - 1
      <3>1. m \in Area(k) <=> \E r \in DOMAIN k : m \in r .. r + k[r] - 1
        BY DEF Area
      <3>2. m \in Area(f) <=> \E r \in DOMAIN f : m \in r .. r + f[r] - 1
        BY DEF Area
      <3> QED
        BY ONLY <1>2, <3>1, <3>2
    <2> QED
      BY <2>1
  <1> QED
    BY ONLY <1>1, <1>4, <1>5, <1>6

\* A block let go takes its words with it.
LEMMA MinusArea ==
    ASSUME NEW h, NEW f, Owning(h, f), NEW p \in DOMAIN f
    PROVE  Area(Minus(f, p)) = Area(f) \ (p .. p + f[p] - 1)
  <1>1. PICK k : k = Minus(f, p)
    OBVIOUS
  <1>2. DOMAIN k = DOMAIN f \ {p} /\ \A r \in DOMAIN k : k[r] = f[r]
    BY <1>1 DEF Minus
  <1>3. ASSUME NEW m PROVE m \in Area(k) <=> m \in Area(f) /\ m \notin p .. p + f[p] - 1
    <2>1. m \in Area(k) <=> \E r \in DOMAIN f \ {p} : m \in r .. r + f[r] - 1
      BY ONLY <1>2 DEF Area
    <2>2. m \in Area(f) <=> \E r \in DOMAIN f : m \in r .. r + f[r] - 1
      BY DEF Area
    <2>3. \A r \in DOMAIN f \ {p} : m \in r .. r + f[r] - 1 => m \notin p .. p + f[p] - 1
      <3>1. ASSUME NEW r \in DOMAIN f \ {p}, m \in r .. r + f[r] - 1 PROVE m \notin p .. p + f[p] - 1
        <4>1. r \in DOMAIN f /\ r # p /\ p \in DOMAIN f
          OBVIOUS
        <4> QED
          BY ONLY <3>1, <4>1, Owning(h, f), OwnersApart
      <3> QED
        BY <3>1
    <2> QED
      BY ONLY <2>1, <2>2, <2>3, p \in DOMAIN f
  <1>4. Area(k) = Area(f) \ (p .. p + f[p] - 1)
    BY <1>3
  <1> QED
    BY ONLY <1>1, <1>4

\* The words, and what is in them, that Alloc speaks of.
LEMMA WordIs == [a \in UNION {Owned(p) : p \in DOMAIN held} |-> array[a]] = Contents(heap, held)
  <1>1. heap.array = array
    BY DEF heap
  <1>2. {Owned(p) : p \in DOMAIN held} = {p .. p + held[p] - 1 : p \in DOMAIN held}
    BY DEF Owned
  <1> QED
    BY ONLY <1>1, <1>2 DEF Contents, Area

\* The same, after a step.
LEMMA WordIsNext == [a \in UNION {Owned(p) : p \in DOMAIN held} |-> array[a]]' = Contents(heap', held')
  <1>1. heap'.array = array'
    BY DEF heap
  <1>2. {Owned(p) : p \in DOMAIN held}' = {p .. p + held'[p] - 1 : p \in DOMAIN held'}
    BY DEF Owned
  <1> QED
    BY ONLY <1>1, <1>2 DEF Contents, Area

\* Giving a block is Alloc's Give.
LEMMA GivesIt ==
    ASSUME HeapInv, NEW i, NEW bytes \in Bytes, Handing(heap, heap', held, i, Words(bytes)),
           held' = Handed(held, i + 1, Words(bytes))
    PROVE  Alloc!Next
  <1>1. PICK q, w : q = i + 1 /\ w = Words(bytes)
    OBVIOUS
  <1>2. Owning(heap', Handed(held, q, w)) /\ q \notin DOMAIN held /\ Kept(heap, heap', Blockheads(held))
    BY <1>1 DEF Handing
  <1>3. Owning(heap, held)
    BY DEF HeapInv
  <1>4. PICK v : v = Contents(heap, held)
    OBVIOUS
  <1>5. PICK x : x = Contents(heap', held')
    OBVIOUS
  <1>6. v = [a \in UNION {Owned(p) : p \in DOMAIN held} |-> array[a]]
    BY <1>4, WordIs
  <1>7. x = [a \in UNION {Owned(p) : p \in DOMAIN held} |-> array[a]]'
    BY <1>5, WordIsNext
  <1>8. /\ q \in Index /\ q .. q + w - 1 \subseteq Index
        /\ q .. q + w - 1 \cap Area(held) = {}
        /\ Area(held') = Area(held) \cup q .. q + w - 1
    BY <1>1, <1>2, HandedArea
  <1>9. DOMAIN v = Area(held) /\ DOMAIN x = Area(held')
    BY <1>4, <1>5 DEF Contents
  <1>10. ASSUME NEW m \in Area(held) PROVE x[m] = v[m]
    <2>1. PICK r \in DOMAIN held : m \in r .. r + held[r] - 1
      BY DEF Area
    <2>2. r - 1 \in Blockheads(held)
      BY DEF Blockheads
    <2>3. \A y \in r .. r + held[r] - 1 : heap'.array[y] = heap.array[y]
      BY ONLY <1>2, <1>3, <2>2, r \in DOMAIN held, KeptWords
    <2>4. m \in Area(held')
      BY <1>8
    <2> QED
      BY <1>4, <1>5, <2>1, <2>3, <2>4 DEF Contents
  <1>11. [y \in DOMAIN x \cap DOMAIN v |-> x[y]] = v
    BY <1>4, <1>8, <1>9, <1>10 DEF Contents
  <1>12. DOMAIN held' = DOMAIN held \cup {q} /\ held'[q] = w
    BY <1>1 DEF Handed
  <1>13. [y \in DOMAIN held' \cap DOMAIN held |-> held'[y]] = held
    <2>1. held = [y \in DOMAIN held |-> held[y]]
      BY <1>3 DEF Owning, Lent
    <2>2. \A y \in DOMAIN held : held'[y] = held[y]
      BY <1>1, <1>2 DEF Handed
    <2> QED
      BY <1>12, <2>1, <2>2
  <1>14. q .. q + w - 1 \cap DOMAIN v = {}
    BY <1>8, <1>9
  <1>15. DOMAIN x = DOMAIN v \cup q .. q + w - 1
    BY <1>8, <1>9
  <1>16. Alloc!Give(q, w)
    BY ONLY <1>6, <1>7, <1>8, <1>11, <1>12, <1>13, <1>14, <1>15 DEF Alloc!Give, Alloc!Span, Alloc!Only
  <1>17. w \in {Words(b) : b \in Bytes}
    BY <1>1
  <1> QED
    BY ONLY <1>8, <1>16, <1>17 DEF Alloc!Next

\* Letting one go is its Take.
LEMMA TakesIt ==
    ASSUME HeapInv, NEW p \in DOMAIN held, Leaving(heap, heap', held, p), held' = Minus(held, p)
    PROVE  Alloc!Next
  <1>1. Owning(heap, held) /\ Kept(heap, heap', Blockheads(held) \ {p - 1})
    BY DEF HeapInv, Leaving
  <1>2. PICK v : v = Contents(heap, held)
    OBVIOUS
  <1>3. PICK x : x = Contents(heap', held')
    OBVIOUS
  <1>4. v = [a \in UNION {Owned(r) : r \in DOMAIN held} |-> array[a]]
    BY <1>2, WordIs
  <1>5. x = [a \in UNION {Owned(r) : r \in DOMAIN held} |-> array[a]]'
    BY <1>3, WordIsNext
  <1>6. Area(held') = Area(held) \ (p .. p + held[p] - 1)
    BY <1>1, MinusArea
  <1>7. DOMAIN v = Area(held) /\ DOMAIN x = Area(held')
    BY <1>2, <1>3 DEF Contents
  <1>8. \A r \in DOMAIN held : r \in Nat
    BY <1>1, OwnersInHeap
  <1>9. ASSUME NEW m \in Area(held') PROVE x[m] = v[m]
    <2>1. PICK r \in DOMAIN held' : m \in r .. r + held'[r] - 1
      BY DEF Area
    <2>2. r \in DOMAIN held /\ r # p /\ held'[r] = held[r]
      BY DEF Minus
    <2>3. r - 1 \in Blockheads(held) \ {p - 1}
      BY <1>8, <2>2 DEF Blockheads
    <2>4. \A y \in r .. r + held[r] - 1 : heap'.array[y] = heap.array[y]
      BY ONLY <1>1, <2>2, <2>3, KeptWords
    <2>5. m \in Area(held)
      BY <1>6
    <2>6. heap'.array[m] = heap.array[m]
      BY <2>1, <2>2, <2>4
    <2> QED
      BY ONLY <1>2, <1>3, <2>5, <2>6, m \in Area(held') DEF Contents
  <1>10. x = [y \in DOMAIN v \cap (DOMAIN v \ (p .. p + held[p] - 1)) |-> v[y]]
    <2>1. DOMAIN x = DOMAIN v \cap (DOMAIN v \ (p .. p + held[p] - 1))
      BY <1>6, <1>7
    <2>2. x = [y \in DOMAIN x |-> x[y]]
      BY <1>3 DEF Contents
    <2> QED
      BY ONLY <1>7, <1>9, <2>1, <2>2
  <1>11. held' = [y \in DOMAIN held \cap (DOMAIN held \ {p}) |-> held[y]]
    BY DEF Minus
  <1>12. Alloc!Take(p)
    BY ONLY <1>4, <1>5, <1>10, <1>11 DEF Alloc!Take, Alloc!Span, Alloc!Only
  <1> QED
    BY ONLY <1>12, p \in DOMAIN held DEF Alloc!Next

\* Writing is its Store.
LEMMA StoresIt ==
    ASSUME HeapInv, NEW p, NEW y, Write(p, y)
    PROVE  Alloc!Next
  <1>1. PICK v : v = [a \in UNION {Owned(r) : r \in DOMAIN held} |-> array[a]]
    OBVIOUS
  <1>2. PICK x : x = [a \in UNION {Owned(r) : r \in DOMAIN held} |-> array[a]]'
    OBVIOUS
  <1>3. v = Contents(heap, held) /\ x = Contents(heap', held')
    BY <1>1, <1>2, WordIs, WordIsNext
  <1>4. held' = held /\ p \in DOMAIN held /\ array' = [m \in Index |-> IF m \in Owned(p) THEN y ELSE array[m]]
    BY DEF Write
  <1>5. heap.array = array /\ heap'.array = array'
    BY DEF heap
  <1>6. DOMAIN v = Area(held) /\ DOMAIN x = Area(held)
    BY <1>3, <1>4 DEF Contents
  <1>7. Area(held) \subseteq Index
    <2>1. \A r \in DOMAIN held : r .. r + held[r] - 1 \subseteq Index
      BY OwnersInHeap DEF HeapInv
    <2> QED
      BY <2>1 DEF Area
  <1>8. ASSUME NEW m \in DOMAIN v \ (p .. p + held[p] - 1) PROVE x[m] = v[m]
    <2>1. m \in Area(held) /\ m \in Index /\ m \notin Owned(p) /\ m \in Area(held')
      BY <1>4, <1>6, <1>7 DEF Owned
    <2>2. array'[m] = array[m]
      BY <1>4, <2>1
    <2> QED
      BY ONLY <1>3, <1>5, <2>1, <2>2 DEF Contents
  <1>9. Alloc!Store(p)
    BY ONLY <1>1, <1>2, <1>4, <1>6, <1>8 DEF Alloc!Store, Alloc!Span
  <1> QED
    BY ONLY <1>4, <1>9 DEF Alloc!Next

\* realloc's move is its Move.
LEMMA MovesIt ==
    ASSUME HeapInv, NEW p \in DOMAIN held, NEW q, NEW bytes \in Bytes,
           Moving(heap, heap', held, p, q, Words(bytes)),
           held' = Minus(Handed(held, q, Words(bytes)), p)
    PROVE  Alloc!Next
  <1>1. PICK w : w = Words(bytes)
    OBVIOUS
  <1>2. PICK f : f = held
    OBVIOUS
  <1>3. PICK h, g : h = heap /\ g = heap'
    OBVIOUS
  <1>4. /\ Owning(g, Minus(Handed(f, q, w), p)) /\ q \notin DOMAIN f
        /\ \A r \in DOMAIN f \ {p} : \A m \in r .. r + f[r] - 1 : g.array[m] = h.array[m]
        /\ \A k \in 0 .. w - 1 : k < f[p] => g.array[q + k] = h.array[p + k]
    BY <1>1, <1>2, <1>3 DEF Moving
  <1>5. Owning(h, f) /\ p \in DOMAIN f
    BY <1>2, <1>3 DEF HeapInv
  <1>6. PICK k : k = Minus(f, p)
    OBVIOUS
  <1>7. DOMAIN k = DOMAIN f \ {p} /\ \A r \in DOMAIN k : k[r] = f[r]
    BY <1>6 DEF Minus
  <1>8. Minus(Handed(f, q, w), p) = Handed(k, q, w)
    BY <1>4, <1>5, <1>6 DEF Minus, Handed
  <1>9. Owning(g, Handed(k, q, w)) /\ q \notin DOMAIN k
    BY <1>4, <1>7, <1>8
  <1>10. held' = Handed(k, q, w)
    BY <1>1, <1>2, <1>8
  <1>11. /\ q \in Index /\ q .. q + w - 1 \subseteq Index
         /\ q .. q + w - 1 \cap Area(k) = {}
         /\ Area(held') = Area(k) \cup q .. q + w - 1
    BY ONLY <1>9, <1>10, HandedArea
  <1>12. Area(k) = Area(f) \ (p .. p + f[p] - 1)
    BY ONLY <1>5, <1>6, MinusArea
  <1>13. PICK v : v = Contents(h, f)
    OBVIOUS
  <1>14. PICK x : x = Contents(g, held')
    OBVIOUS
  <1>15. v = [a \in UNION {Owned(r) : r \in DOMAIN held} |-> array[a]]
    BY ONLY <1>2, <1>3, <1>13, WordIs
  <1>16. x = [a \in UNION {Owned(r) : r \in DOMAIN held} |-> array[a]]'
    BY ONLY <1>3, <1>14, WordIsNext
  <1>17. PICK left : left = DOMAIN v \ (p .. p + f[p] - 1)
    OBVIOUS
  <1>18. DOMAIN v = Area(f) /\ DOMAIN x = Area(held') /\ left = Area(k)
    BY <1>12, <1>13, <1>14, <1>17 DEF Contents
  <1>19. ASSUME NEW m \in left PROVE x[m] = v[m]
    <2>1. PICK r \in DOMAIN k : m \in r .. r + k[r] - 1
      BY <1>18 DEF Area
    <2>2. g.array[m] = h.array[m]
      BY <1>4, <1>7, <2>1
    <2>3. m \in Area(f) /\ m \in Area(held')
      BY <1>11, <1>12, <1>18
    <2> QED
      BY ONLY <1>13, <1>14, <2>2, <2>3 DEF Contents
  <1>20. [y \in DOMAIN x \cap left |-> x[y]] = [y \in DOMAIN v \cap left |-> v[y]]
    <2>1. left \subseteq DOMAIN x /\ left \subseteq DOMAIN v
      BY <1>11, <1>12, <1>18
    <2> QED
      BY ONLY <1>19, <2>1
  <1>21. DOMAIN x = left \cup q .. q + w - 1 /\ q .. q + w - 1 \cap left = {}
    BY <1>11, <1>18
  <1>22. p \in Nat /\ f[p] \in Nat
    BY <1>5, OwnersInHeap
  <1>23. w \in Nat /\ w \in {Words(b) : b \in Bytes}
    <2>1. bytes \in Nat
      BY HeapAssumption
    <2> QED
      BY <1>1, <2>1, RoomForWords
  <1>24. q \in Nat
    BY <1>11, HeapAssumption DEF Index
  <1>25. ASSUME NEW j \in 0 .. w - 1, j < f[p] PROVE x[q + j] = v[p + j]
    <2>1. g.array[q + j] = h.array[p + j]
      BY <1>4, <1>25
    <2>2. j \in Nat /\ j < w
      BY <1>23
    <2>3. q + j \in q .. q + w - 1 /\ p + j \in p .. p + f[p] - 1
      BY ONLY <1>22, <1>23, <1>24, <1>25, <2>2
    <2>4. q + j \in Area(held') /\ p + j \in Area(f)
      BY <1>5, <1>11, <2>3 DEF Area
    <2> QED
      BY ONLY <1>13, <1>14, <2>1, <2>4 DEF Contents
  <1>26. held' = [y \in (DOMAIN held \ {p}) \cup {q} |-> IF y = q THEN w ELSE held[y]]
    BY ONLY <1>2, <1>7, <1>10 DEF Handed
  <1>27. Alloc!Move(p, q, w)
    BY ONLY <1>2, <1>11, <1>15, <1>16, <1>17, <1>20, <1>21, <1>25, <1>26 DEF Alloc!Move, Alloc!Span, Alloc!Only
  <1> QED
    BY ONLY <1>2, <1>5, <1>11, <1>23, <1>27 DEF Alloc!Next

-----------------------------------------------------------------------------
(* The theorems.                                                            *)

\* A call that gives a block keeps the invariant, and is Give.
LEMMA GiveStep ==
    ASSUME HeapInv, NEW bytes \in Bytes, NEW i, i # 0,
           i = Best(heap, Ints(bytes)) \/ i = FirstFit(heap, Ints(bytes)),
           Become(Carve(heap, i, Ints(bytes))), held' = Give(i + 1, bytes)
    PROVE  HeapInv' /\ Alloc!Next
  <1>1. bytes \in Nat
    BY HeapAssumption
  <1>2. Handing(heap, heap', held, i, Words(bytes)) /\ held' = Handed(held, i + 1, Words(bytes)) /\ HeapInv'
    BY <1>1, GiveInv
  <1> QED
    BY <1>2, GivesIt

\* A call that lets a block go does, and is Take.
LEMMA WithoutStep ==
    ASSUME HeapInv, NEW p \in DOMAIN held, Become(Release(heap, p - 1)), held' = Without(p)
    PROVE  HeapInv' /\ Alloc!Next
  <1>1. Leaving(heap, heap', held, p) /\ held' = Minus(held, p) /\ HeapInv'
    BY WithoutInv
  <1> QED
    BY <1>1, TakesIt

\* The user's malloc finds nothing, or its block is after an int of the heap.
LEMMA RoomIs ==
    ASSUME HeapInv, NEW bytes \in Nat, Room(bytes) # Null
    PROVE  \E i \in Nat : i # 0 /\ i = FirstFit(heap, Ints(bytes)) /\ Room(bytes) = i + 1 /\ Room(bytes) - 1 = i
  <1>1. PICK i : i = FirstFit(heap, Ints(bytes))
    OBVIOUS
  <1>2. i # 0 /\ Room(bytes) = i + 1
    BY <1>1 DEF Room
  <1>3. PICK B, rank, top : Shaped(heap, Blockheads(held), B, rank, top)
    BY DEF HeapInv, Owning, Shape
  <1>4. Found(heap, Avails(heap.array, B), Ints(bytes), i)
    BY <1>1, <1>3, RoomForWords, BestFound
  <1>5. i \in Avails(heap.array, B) /\ Spread(Avails(heap.array, B))
    BY <1>2, <1>3, <1>4, ShapeFacts DEF Found, Fits
  <1>6. i \in Nat
    BY <1>5, SpreadIndex
  <1>7. i + 1 - 1 = i
    BY <1>6
  <1> QED
    BY ONLY <1>1, <1>2, <1>6, <1>7

\* Nothing happens.
LEMMA Stutters ==
    ASSUME HeapInv, UNCHANGED vars
    PROVE  HeapInv' /\ UNCHANGED Alloc!vars
  <1>1. array' = array /\ avail' = avail /\ held' = held /\ user' = user
    BY DEF vars
  <1>2. heap' = heap
    BY <1>1 DEF heap
  <1>3. [a \in UNION {Owned(p) : p \in DOMAIN held} |-> array[a]]'
            = [a \in UNION {Owned(p) : p \in DOMAIN held} |-> array[a]]
    BY <1>1, <1>2, WordIs, WordIsNext
  <1> QED
    BY <1>1, <1>2, <1>3 DEF HeapInv, Alloc!vars

\* What a program lets go is a block of its own if it is taken.
LEMMA TakenIsHeld ==
    ASSUME HeapInv, NEW p \in Freeable, p \notin {Null, 0}, IsTaken(heap, p - 1)
    PROVE  p \in DOMAIN held
  <1> SUFFICES ASSUME p \notin DOMAIN held PROVE FALSE
    OBVIOUS
  <1>1. PICK i \in {FreeList(heap)[k] : k \in DOMAIN FreeList(heap)} : p = i + 1
    BY DEF Freeable
  <1>2. PICK B, rank, top : Shaped(heap, Blockheads(held), B, rank, top)
    BY DEF HeapInv, Owning, Shape
  <1> DEFINE A == Avails(heap.array, B)
  <1>3. Spread(A) /\ Linked(heap.array, heap.avail, A, rank, top)
    BY <1>2, ShapeFacts
  <1>4. i \in A
    <2>1. Listed(heap, A, rank, FreeList(heap))
      BY <1>3, FreeListListed
    <2>2. FreeList(heap) \in Seq(A)
      BY <2>1 DEF Listed
    <2> HIDE DEF A
    <2> QED
      BY <1>1, <2>2
  <1>5. heap.array[i] > 0 /\ i \in Nat /\ heap.array[i] \in Int
    <2>1. IsHeap(heap) /\ i \in Index /\ i \in Nat
      BY <1>2, <1>3, <1>4, ShapeFacts, SpreadIndex
    <2> QED
      BY <1>4, <2>1 DEF Avails, IsHeap
  <1>6. p - 1 = i
    BY <1>1, <1>5
  <1> QED
    BY <1>5, <1>6 DEF IsTaken

\* The user's malloc.
LEMMA UserMallocStep ==
    ASSUME HeapInv, NEW bytes \in Bytes \cup {0}, UserMalloc(bytes)
    PROVE  HeapInv' /\ (Alloc!Next \/ UNCHANGED Alloc!vars)
  <1>1. CASE bytes = 0 \/ Room(bytes) = Null
    BY <1>1, Stutters DEF UserMalloc
  <1>2. CASE ~(bytes = 0 \/ Room(bytes) = Null)
    <2>1. bytes \in Bytes /\ bytes \in Nat
      BY <1>2, HeapAssumption
    <2>2. Become(Carve(heap, Room(bytes) - 1, Ints(bytes))) /\ held' = Give(Room(bytes), bytes)
      BY <1>2 DEF UserMalloc
    <2>3. PICK i \in Nat : /\ i # 0 /\ i = FirstFit(heap, Ints(bytes))
                           /\ Room(bytes) = i + 1 /\ Room(bytes) - 1 = i
      BY <1>2, <2>1, RoomIs
    <2>4. Become(Carve(heap, i, Ints(bytes))) /\ held' = Give(i + 1, bytes)
      BY ONLY <2>2, <2>3
    <2> QED
      BY <2>1, <2>3, <2>4, GiveStep
  <1> QED
    BY <1>1, <1>2

\* The user's free.
LEMMA UserFreeStep ==
    ASSUME HeapInv, NEW p \in Freeable, UserFree(p)
    PROVE  HeapInv' /\ (Alloc!Next \/ UNCHANGED Alloc!vars)
  <1>1. CASE p \in {Null, 0} \/ ~IsTaken(heap, p - 1)
    BY <1>1, Stutters DEF UserFree
  <1>2. CASE ~(p \in {Null, 0} \/ ~IsTaken(heap, p - 1))
    <2>1. p \in DOMAIN held
      BY <1>2, TakenIsHeld
    <2>2. Become(Release(heap, p - 1)) /\ held' = Without(p)
      BY <1>2 DEF UserFree
    <2> QED
      BY <2>1, <2>2, WithoutStep
  <1> QED
    BY <1>1, <1>2

\* realloc.
LEMMA ReallocStep ==
    ASSUME HeapInv, NEW p \in Freeable \ {0}, NEW bytes \in Bytes \cup {0}, Realloc(p, bytes)
    PROVE  HeapInv' /\ (Alloc!Next \/ UNCHANGED Alloc!vars)
  <1>1. CASE p = Null
    BY <1>1, UserMallocStep DEF Realloc
  <1>2. CASE p # Null /\ (bytes = 0 \/ Room(bytes) = Null)
    BY <1>2, UserFreeStep DEF Realloc
  <1>3. CASE p # Null /\ ~(bytes = 0 \/ Room(bytes) = Null) /\ ~IsTaken(heap, p - 1)
    BY <1>3, Stutters DEF Realloc
  <1>4. CASE p # Null /\ ~(bytes = 0 \/ Room(bytes) = Null) /\ IsTaken(heap, p - 1)
    <2>1. p \in DOMAIN held
      BY <1>4, TakenIsHeld
    <2>2. bytes \in Bytes /\ bytes \in Nat
      BY <1>4, HeapAssumption
    <2>3. PICK q : q = Room(bytes)
      OBVIOUS
    <2>4. /\ Become(Moved(p, q, bytes))
          /\ held' = [x \in (DOMAIN held \ {p}) \cup {q} |-> IF x = q THEN Words(bytes) ELSE held[x]]
      BY <1>4, <2>3 DEF Realloc
    <2>5. PICK i \in Nat : i # 0 /\ i = FirstFit(heap, Ints(bytes)) /\ Room(bytes) = i + 1
      BY <1>4, <2>2, RoomIs
    <2>6. Moving(heap, Moved(p, i + 1, bytes), held, p, i + 1, Words(bytes))
      BY ONLY HeapInv, <2>1, <2>2, <2>5, MovedMoving
    <2>7. PICK g : g = Moved(p, q, bytes)
      OBVIOUS
    <2>8. Moving(heap, g, held, p, q, Words(bytes))
      BY ONLY <2>3, <2>5, <2>6, <2>7
    <2>9. IsHeap(g)
      BY <2>8, OwningHeap DEF Moving
    <2>10. heap' = g /\ user' = user
      BY <2>4, <2>7, <2>9, Became
    <2>11. held' = Minus(Handed(held, q, Words(bytes)), p)
      <3>1. q \notin DOMAIN held
        BY <2>8 DEF Moving
      <3> QED
        BY ONLY <2>1, <2>4, <3>1 DEF Minus, Handed
    <2>12. HeapInv'
      BY ONLY HeapInv, <2>8, <2>10, <2>11 DEF HeapInv, Moving
    <2>13. Alloc!Next
      <3>1. Moving(heap, heap', held, p, q, Words(bytes))
        BY ONLY <2>8, <2>10
      <3> QED
        BY ONLY HeapInv, <2>1, <2>2, <2>11, <3>1, MovesIt
    <2> QED
      BY <2>12, <2>13
  <1> QED
    BY <1>1, <1>2, <1>3, <1>4

\* Every step keeps the invariant, and is one of Alloc or none.
LEMMA StepInv ==
    ASSUME HeapInv, [Next \/ UserNext]_vars
    PROVE  HeapInv' /\ (Alloc!Next \/ UNCHANGED Alloc!vars)
  <1>1. CASE UNCHANGED vars
    BY <1>1, Stutters
  <1>2. ASSUME NEW bytes \in Bytes, Malloc(bytes) PROVE HeapInv' /\ Alloc!Next
    <2>1. PICK i : i = Best(heap, Ints(bytes))
      OBVIOUS
    <2>2. i # 0 /\ Become(Carve(heap, i, Ints(bytes))) /\ held' = Give(i + 1, bytes)
      BY <1>2, <2>1 DEF Malloc
    <2> QED
      BY <2>1, <2>2, GiveStep
  <1>3. ASSUME NEW p \in Index, Free(p) PROVE HeapInv' /\ Alloc!Next
    BY <1>3, WithoutStep DEF Free
  <1>4. ASSUME NEW p \in Index, NEW x \in Data, Write(p, x) PROVE HeapInv' /\ Alloc!Next
    <2>1. x \in Int
      BY HeapAssumption
    <2> QED
      BY <1>4, <2>1, WriteInv, StoresIt
  <1>5. CASE Next
    BY <1>2, <1>3, <1>4, <1>5 DEF Next
  <1>6. CASE UserNext
    BY <1>6, UserMallocStep, UserFreeStep, ReallocStep DEF UserNext
  <1> QED
    BY <1>1, <1>5, <1>6

\* The kernel's heap and the one of a user program have the invariant at every moment.
THEOREM HeapInvariant == HeapsSpec => []HeapInv
  <1>1. heap_init \/ Init => HeapInv
    BY InitInv
  <1>2. HeapInv /\ [Next \/ UserNext]_vars => HeapInv'
    BY StepInv
  <1> QED
    BY <1>1, <1>2, PTL DEF HeapsSpec

\* At every moment the tags and the list of available blocks (heap.cc:65-109) describe the
\* blocks the owners have.
THEOREM HeapIsWellFormed == HeapsSpec => []WellFormed
  BY HeapInvariant, InvWellFormed, PTL

\* malloc (heap.cc:145) fails only when there is nowhere such a run of ints outside of the
\* taken blocks.
THEOREM FailureIsTrue == HeapsSpec => []NoFalseFailure
  BY HeapInvariant, InvNoFalseFailure, PTL

\* Live blocks never overlap, and only their owners change their words, whatever malloc
\* splits, free merges and realloc moves.
THEOREM HeapIsAllocator == HeapsSpec => AllocatorSpec
  <1>1. heap_init \/ Init => Alloc!Init
    <2> SUFFICES ASSUME held = <<>> PROVE Alloc!Init
      BY DEF heap_init, Init, Formatted
    <2>1. PICK v : v = [a \in UNION {Owned(p) : p \in DOMAIN held} |-> array[a]]
      OBVIOUS
    <2>2. DOMAIN held = {}
      OBVIOUS
    <2>3. DOMAIN v = {}
      BY <2>1, <2>2
    <2>4. v = <<>>
      BY <2>1, <2>3
    <2> QED
      BY <2>1, <2>4 DEF Alloc!Init
  <1>2. HeapInv /\ [Next \/ UserNext]_vars => [Alloc!Next]_(Alloc!vars)
    BY StepInv
  <1> QED
    BY <1>1, <1>2, HeapInvariant, PTL DEF HeapsSpec, AllocatorSpec, Alloc!Spec
=============================================================================
