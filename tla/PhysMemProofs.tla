--------------------------- MODULE PhysMemProofs ---------------------------
(***************************************************************************)
(* Reference counting of frames is exact, for any number of cores, frames, *)
(* counts to a table and references to a frame, as long as the cores take  *)
(* turns at the tables that come and go (TakeTurns) and the references fit *)
(* in 16 bits (Fits).  Without the first it is not: see physmem_race.cfg.  *)
(*                                                                         *)
(* What is owned of a frame is a sum over the cores, a fold: sums are done *)
(* by induction over the subsets of a finite set, which comes down to that *)
(* a set of natural numbers has a least element.                           *)
(***************************************************************************)
EXTENDS PhysMem, Integers, FiniteSetTheorems, TLAPS

-----------------------------------------------------------------------------
(* Induction.                                                               *)

\* A set of natural numbers that is not empty has a least.
LEMMA LeastNat ==
    ASSUME NEW T, T \subseteq Nat, T # {}
    PROVE  \E n \in T : \A m \in T : n <= m
  <1> DEFINE R == {ss \in Nat \X Nat : ss[1] < ss[2]}
  <1>1. IsWellFoundedOn(R, Nat)
    BY NatLessThanWellFounded DEF OpToRel
  <1> HIDE DEF R
  <1>2. PICK n \in T : \A m \in T : ~ (<<m, n>> \in R)
    BY <1>1, WFMin
  <1>3. \A m \in T : ~(m < n)
    BY <1>2 DEF R
  <1> QED
    BY <1>3

\* Induction over the natural numbers, of the set of those that have the property.
LEMMA SetInduction ==
    ASSUME NEW S, 0 \in S, \A n \in Nat : n \in S => n + 1 \in S
    PROVE  Nat \subseteq S
  <1>1. SUFFICES ASSUME Nat \ S # {} PROVE FALSE
    OBVIOUS
  <1>2. PICK n \in Nat \ S : \A m \in Nat \ S : n <= m
    BY <1>1, LeastNat
  <1>3. n # 0 /\ n - 1 \in Nat /\ n - 1 \in S
    BY <1>2
  <1> QED
    BY <1>2, <1>3

-----------------------------------------------------------------------------
(* Sums over a finite set.                                                  *)

\* The element of s that is folded first, and what a fold that adds up g computes.
Pick(s) == CHOOSE x \in s : TRUE
IsSum(F, g, D) ==
    F = [s \in D |-> IF s = {} THEN 0 ELSE g[Pick(s)] + F[s \ {Pick(s)}]]

\* The element that is folded first is one.
LEMMA PickIn == ASSUME NEW s, s # {} PROVE Pick(s) \in s
  BY DEF Pick

\* The parts of S with at most n elements.
Upto(S, n) == {s \in SUBSET S : Cardinality(s) <= n}

\* A part of a finite set has a size, and one element less without its first.
LEMMA Picked ==
    ASSUME NEW S, IsFiniteSet(S), NEW s \in SUBSET S
    PROVE  /\ IsFiniteSet(s) /\ Cardinality(s) \in Nat /\ Cardinality(s) <= Cardinality(S)
           /\ Cardinality(s) = 0 <=> s = {}
           /\ s # {} => /\ Pick(s) \in s /\ s \ {Pick(s)} \in SUBSET S
                        /\ Cardinality(s \ {Pick(s)}) = Cardinality(s) - 1
  <1>1. IsFiniteSet(s) /\ Cardinality(s) \in Nat /\ Cardinality(s) <= Cardinality(S)
    BY FS_Subset, FS_CardinalityType
  <1>2. Cardinality(s) = 0 <=> s = {}
    BY <1>1, FS_EmptySet
  <1>3. ASSUME s # {}
        PROVE /\ Pick(s) \in s /\ s \ {Pick(s)} \in SUBSET S
              /\ Cardinality(s \ {Pick(s)}) = Cardinality(s) - 1
    BY <1>1, <1>3, PickIn, FS_RemoveElement
  <1> QED
    BY <1>1, <1>2, <1>3

\* Induction over the parts of a finite set, first elements first.
LEMMA SubsetInduction ==
    ASSUME NEW S, IsFiniteSet(S), NEW T, {} \in T,
           \A s \in SUBSET S : s # {} /\ s \ {Pick(s)} \in T => s \in T
    PROVE  SUBSET S \subseteq T
  <1> DEFINE N == {n \in Nat : Upto(S, n) \subseteq T}
  <1>1. 0 \in N
    <2>1. ASSUME NEW s \in Upto(S, 0) PROVE s = {}
      <3>1. s \in SUBSET S /\ Cardinality(s) <= 0
        BY DEF Upto
      <3>2. Cardinality(s) \in Nat /\ (Cardinality(s) = 0 <=> s = {})
        BY <3>1, Picked
      <3> QED
        BY <3>1, <3>2
    <2> QED
      BY <2>1
  <1>2. ASSUME NEW n \in Nat, n \in N PROVE n + 1 \in N
    <2>1. ASSUME NEW s \in Upto(S, n + 1), s # {} PROVE s \in T
      <3>1. s \in SUBSET S /\ Cardinality(s) <= n + 1
        BY DEF Upto
      <3>2. s \ {Pick(s)} \in SUBSET S /\ Cardinality(s \ {Pick(s)}) <= n
        BY <2>1, <3>1, Picked
      <3>3. s \ {Pick(s)} \in T
        BY <1>2, <3>2 DEF Upto
      <3> QED
        BY <2>1, <3>1, <3>3
    <2>2. Upto(S, n + 1) \subseteq T
      BY <2>1
    <2> QED
      BY <2>2
  <1> HIDE DEF N
  <1>3. Cardinality(S) \in N
    <2>1. Nat \subseteq N
      BY <1>1, <1>2, SetInduction
    <2> QED
      BY <2>1, Picked
  <1>4. SUBSET S \subseteq Upto(S, Cardinality(S))
    BY Picked DEF Upto
  <1> QED
    BY <1>3, <1>4 DEF N

\* There is a function that adds up as the fold does.
LEMMA SumExists ==
    ASSUME NEW S, IsFiniteSet(S), NEW g
    PROVE  \E F : IsSum(F, g, SUBSET S)
  <1> DEFINE T == {n \in Nat : \E F : IsSum(F, g, Upto(S, n))}
  <1>0. \A s \in SUBSET S : /\ IsFiniteSet(s) /\ Cardinality(s) \in Nat
                            /\ Cardinality(s) <= Cardinality(S) /\ (Cardinality(s) = 0 <=> s = {})
                            /\ s # {} => /\ Pick(s) \in s /\ s \ {Pick(s)} \in SUBSET S
                                         /\ Cardinality(s \ {Pick(s)}) = Cardinality(s) - 1
    BY Picked
  <1>1. 0 \in T
    <2>1. \A s \in Upto(S, 0) : s = {}
      <3>1. ASSUME NEW s \in Upto(S, 0) PROVE s = {}
        <4>1. s \in SUBSET S /\ Cardinality(s) <= 0
          BY DEF Upto
        <4>2. Cardinality(s) \in Nat
          BY <1>0, <4>1
        <4>3. Cardinality(s) = 0
          BY <4>1, <4>2
        <4> QED
          BY <1>0, <4>1, <4>3
      <3> QED
        BY <3>1
    <2>2. IsSum([s \in Upto(S, 0) |-> 0], g, Upto(S, 0))
      BY <2>1 DEF IsSum
    <2> QED
      BY <2>2
  <1>2. ASSUME NEW n \in Nat, n \in T PROVE n + 1 \in T
    <2>1. PICK F : IsSum(F, g, Upto(S, n))
      BY <1>2
    <2> DEFINE G == [s \in Upto(S, n + 1) |-> IF s \in Upto(S, n) THEN F[s]
                                             ELSE g[Pick(s)] + F[s \ {Pick(s)}]]
    <2>2. ASSUME NEW s \in Upto(S, n + 1)
          PROVE G[s] = IF s = {} THEN 0 ELSE g[Pick(s)] + G[s \ {Pick(s)}]
      <3>1. CASE s = {}
        <4>1. s \in Upto(S, n)
          <5>1. s \in SUBSET S /\ Cardinality(s) = 0
            BY <1>0, <3>1
          <5> QED
            BY ONLY <5>1, n \in Nat DEF Upto
        <4> QED
          BY <2>1, <3>1, <4>1 DEF IsSum
      <3>2. CASE s # {}
        <4>1. s \ {Pick(s)} \in Upto(S, n) /\ s \ {Pick(s)} \in Upto(S, n + 1)
          BY <1>0, <3>2 DEF Upto
        <4>2. G[s \ {Pick(s)}] = F[s \ {Pick(s)}]
          BY <4>1
        <4>3. G[s] = g[Pick(s)] + F[s \ {Pick(s)}]
          BY <2>1, <3>2 DEF IsSum
        <4> QED
          BY <3>2, <4>2, <4>3
      <3> QED
        BY <3>1, <3>2
    <2>3. IsSum(G, g, Upto(S, n + 1))
      BY ONLY <2>2 DEF IsSum
    <2> QED
      BY <2>3
  <1> HIDE DEF T
  <1>3. Cardinality(S) \in Nat /\ Upto(S, Cardinality(S)) = SUBSET S
    BY <1>0, FS_CardinalityType DEF Upto
  <1>4. Cardinality(S) \in T
    BY <1>1, <1>2, <1>3, SetInduction
  <1> QED
    BY <1>3, <1>4 DEF T

\* The fold of an addition is what such a function has for the whole set.
LEMMA SumIs ==
    ASSUME NEW S, IsFiniteSet(S), NEW g
    PROVE  \E F : IsSum(F, g, SUBSET S) /\ FoldFunctionOnSet(+, 0, g, S) = F[S]
  <1>1. PICK F : IsSum(F, g, SUBSET S)
    BY SumExists
  <1> DEFINE iter == CHOOSE f : f = [s \in SUBSET S |-> IF s = {} THEN 0 ELSE g[Pick(s)] + f[s \ {Pick(s)}]]
  <1>3. iter = [s \in SUBSET S |-> IF s = {} THEN 0 ELSE g[Pick(s)] + iter[s \ {Pick(s)}]]
    BY <1>1 DEF IsSum
  <1>4. FoldFunctionOnSet(+, 0, g, S) = iter[S]
    BY DEF FoldFunctionOnSet, MapThenFoldSet, Pick
  <1> HIDE DEF iter
  <1>5. IsSum(iter, g, SUBSET S)
    BY <1>3 DEF IsSum
  <1> QED
    BY <1>4, <1>5

\* The sum of g over S.
Sum(g, S) == SumFunctionOnSet(g, S)

\* A sum of natural numbers is one, and of zeros is zero.
LEMMA SumNat ==
    ASSUME NEW S, IsFiniteSet(S), NEW g, \A x \in S : g[x] \in Nat
    PROVE  Sum(g, S) \in Nat /\ ((\A x \in S : g[x] = 0) => Sum(g, S) = 0)
  <1>1. PICK F : IsSum(F, g, SUBSET S) /\ Sum(g, S) = F[S]
    BY SumIs DEF Sum, SumFunctionOnSet
  <1> DEFINE T == {s \in SUBSET S : F[s] \in Nat /\ ((\A x \in S : g[x] = 0) => F[s] = 0)}
  <1>2. {} \in T
    BY <1>1 DEF IsSum
  <1>3. ASSUME NEW s \in SUBSET S, s # {}, s \ {Pick(s)} \in T PROVE s \in T
    <2>1. F[s] = g[Pick(s)] + F[s \ {Pick(s)}] /\ Pick(s) \in S
      BY <1>1, <1>3, Picked DEF IsSum
    <2> QED
      BY <1>3, <2>1
  <1> HIDE DEF T
  <1>4. S \in T
    BY <1>2, <1>3, SubsetInduction
  <1> QED
    BY <1>1, <1>4 DEF T

\* One summand changes.
LEMMA SumChange ==
    ASSUME NEW S, IsFiniteSet(S), NEW g, \A x \in S : g[x] \in Nat,
           NEW h, NEW p \in S, h[p] \in Nat, \A x \in S : x # p => h[x] = g[x]
    PROVE  Sum(h, S) = Sum(g, S) - g[p] + h[p]
  <1>1. PICK F : IsSum(F, g, SUBSET S) /\ Sum(g, S) = F[S]
    BY SumIs DEF Sum, SumFunctionOnSet
  <1>2. PICK H : IsSum(H, h, SUBSET S) /\ Sum(h, S) = H[S]
    BY SumIs DEF Sum, SumFunctionOnSet
  <1> DEFINE T == {s \in SUBSET S : /\ F[s] \in Nat
                                    /\ H[s] = F[s] + IF p \in s THEN h[p] - g[p] ELSE 0}
  <1>3. {} \in T
    BY <1>1, <1>2 DEF IsSum
  <1>4. ASSUME NEW s \in SUBSET S, s # {}, s \ {Pick(s)} \in T PROVE s \in T
    <2>1. /\ F[s] = g[Pick(s)] + F[s \ {Pick(s)}] /\ Pick(s) \in S /\ Pick(s) \in s
          /\ H[s] = h[Pick(s)] + H[s \ {Pick(s)}]
      BY <1>1, <1>2, <1>4, Picked DEF IsSum
    <2>2. F[s] \in Nat
      BY <1>4, <2>1
    <2>3. CASE Pick(s) = p
      BY <1>4, <2>1, <2>2, <2>3
    <2>4. CASE Pick(s) # p
      BY <1>4, <2>1, <2>2, <2>4
    <2> QED
      BY <2>3, <2>4
  <1> HIDE DEF T
  <1>5. S \in T
    BY <1>3, <1>4, SubsetInduction
  <1> QED
    BY <1>1, <1>2, <1>5 DEF T

\* A summand is at most the sum.
LEMMA SumCovers ==
    ASSUME NEW S, IsFiniteSet(S), NEW g, \A x \in S : g[x] \in Nat, NEW p \in S
    PROVE  g[p] <= Sum(g, S)
  <1> DEFINE h == [x \in S |-> IF x = p THEN 0 ELSE g[x]]
  <1>1. Sum(h, S) = Sum(g, S) - g[p] + h[p]
    <2>1. h[p] = 0 /\ \A x \in S : x # p => h[x] = g[x]
      OBVIOUS
    <2> HIDE DEF h
    <2> QED
      BY <2>1, SumChange
  <1>2. Sum(h, S) \in Nat /\ Sum(g, S) \in Nat
    BY SumNat
  <1>3. h[p] = 0
    OBVIOUS
  <1> HIDE DEF h
  <1> QED
    BY <1>1, <1>2, <1>3

-----------------------------------------------------------------------------
(* Frames, tables and counting.                                             *)

\* The place of a count, and that every frame has one of its own.
LEMMA Places ==
    ASSUME PhysMemAssumption
    PROVE  /\ \A f \in Frame : f \in Nat /\ Ridx(f) \in Tables /\ Rofs(f) \in 0 .. PerTable - 1
           /\ \A f, g \in Frame : Ridx(f) = Ridx(g) /\ Rofs(f) = Rofs(g) => f = g
           /\ 0 \in Frame /\ Ridx(0) = 0 /\ Rofs(0) = 0 /\ 0 \in Tables
           /\ None \notin Frame
  <1>1. NFrames \in Nat /\ NFrames > 1 /\ PerTable \in Nat /\ PerTable > 0
    BY DEF PhysMemAssumption
  <1>2. \A f \in Nat : /\ f % PerTable \in 0 .. PerTable - 1
                       /\ f \div PerTable \in Nat
                       /\ f = PerTable * (f \div PerTable) + (f % PerTable)
    BY <1>1
  <1>3. 0 \div PerTable = 0 /\ 0 % PerTable = 0
    BY <1>1
  <1>4. \A f \in Frame : f \in Nat
    BY <1>1 DEF Frame
  <1>5. \A f \in Frame : Ridx(f) \in Tables /\ Rofs(f) \in 0 .. PerTable - 1
    BY <1>2, <1>4 DEF Tables, Rofs
  <1>6. ASSUME NEW f \in Frame, NEW g \in Frame, Ridx(f) = Ridx(g), Rofs(f) = Rofs(g)
        PROVE  f = g
    <2>1. f = PerTable * Ridx(f) + Rofs(f) /\ g = PerTable * Ridx(g) + Rofs(g)
      BY <1>2, <1>4 DEF Ridx, Rofs
    <2> QED
      BY <1>6, <2>1
  <1>7. 0 \in Frame /\ Ridx(0) = 0 /\ Rofs(0) = 0 /\ 0 \in Tables /\ None \notin Frame
    BY <1>1, <1>3 DEF Frame, Ridx, Rofs, Tables, None
  <1> QED
    BY <1>4, <1>5, <1>6, <1>7

\* Two finite sets that differ in x at most.
LEMMA CountChange ==
    ASSUME NEW S, NEW T, NEW x, IsFiniteSet(S), T \ {x} = S \ {x}
    PROVE  /\ IsFiniteSet(T)
           /\ Cardinality(S) \in Nat /\ Cardinality(T) \in Nat
           /\ Cardinality(T) = Cardinality(S) - (IF x \in S THEN 1 ELSE 0)
                                              + (IF x \in T THEN 1 ELSE 0)
  <1> DEFINE R == S \ {x}
  <1>1. IsFiniteSet(R) /\ Cardinality(R) = IF x \in S THEN Cardinality(S) - 1 ELSE Cardinality(S)
    BY FS_RemoveElement
  <1>2. x \notin R
    OBVIOUS
  <1>3. T = IF x \in T THEN R \cup {x} ELSE R
    OBVIOUS
  <1>4. /\ IsFiniteSet(R \cup {x})
        /\ Cardinality(R \cup {x}) = Cardinality(R) + 1
    BY <1>1, <1>2, FS_AddElement
  <1>5. Cardinality(S) \in Nat /\ Cardinality(R) \in Nat
    BY <1>1, FS_CardinalityType
  <1> HIDE DEF R
  <1>6. CASE x \in T
    <2>1. T = R \cup {x}
      BY <1>3, <1>6
    <2> QED
      BY <2>1, <1>1, <1>4, <1>5, <1>6
  <1>7. CASE x \notin T
    <2>1. T = R
      BY <1>3, <1>7
    <2> QED
      BY <2>1, <1>1, <1>5, <1>7
  <1> QED
    BY <1>6, <1>7

\* The size of a part of a finite set.
LEMMA CountPart ==
    ASSUME NEW S, IsFiniteSet(S), NEW T, T \subseteq S
    PROVE  /\ IsFiniteSet(T) /\ Cardinality(T) \in Nat /\ Cardinality(T) <= Cardinality(S)
           /\ Cardinality(S) \in Nat /\ (Cardinality(T) = 0 <=> T = {})
  BY FS_Subset, FS_CardinalityType, FS_EmptySet

-----------------------------------------------------------------------------
(* The inductive invariant.                                                 *)

TypeOK ==
    /\ avail \in Nat /\ avail <= NFrames
    /\ freeList \in Seq(Frame)
    /\ refs \in [Tables -> [fr : Frame \cup {None}, cnt : Nat]]
    /\ rtb \in [Frame -> [0 .. PerTable - 1 -> Nat]]
    /\ hold \in [Proc -> [Frame -> Nat]]
    /\ pc \in [Proc -> Pcs \ {"panic"}]
    /\ frame \in [Proc -> Frame \cup {None}]
    /\ tab \in [Proc -> Frame \cup {None}]

\* The free list has a frame once, and only what has been handed out.
Listed ==
    /\ \A i \in DOMAIN freeList : freeList[i] < avail
    /\ \A i, j \in DOMAIN freeList : freeList[i] = freeList[j] => i = j

\* A table that counts, or is about to; a frame with an owner, or in the hands of an operation;
\* an operation that is to free a table.
At(p, S, k) == pc[p] \in S /\ frame[p] # None /\ Ridx(frame[p]) = k
Live(k) == refs[k].cnt > 0 \/ \E p \in Proc : At(p, {"look", "add", "tally"}, k)
Held(f) ==
    \/ f = 0
    \/ \E p \in Proc : hold[p][f] > 0
    \/ \E p \in Proc : frame[p] = f /\ pc[p] # "untally"
Drops(p) == pc[p] = "dropTable"

\* What each frame is used for.
Lies(use) ==
    /\ DOMAIN use = Frame
    /\ \A f \in Frame : f \in Free <=> use[f] = <<"free", 0>>
    /\ \A f \in Frame : Held(f) <=> use[f] = <<"held", 0>>
    /\ \A k \in Tables : Live(k) => refs[k].fr \in Frame /\ use[refs[k].fr] = <<"table", k>>
    /\ \A p \in Proc : Drops(p) => tab[p] \in Frame /\ use[tab[p]] = <<"drop", p>>
    /\ \A f \in Frame :
           \/ use[f] = <<"free", 0>> \/ use[f] = <<"held", 0>>
           \/ \E k \in Tables : Live(k) /\ refs[k].fr = f
           \/ \E p \in Proc : Drops(p) /\ tab[p] = f
Placed == \E use : Lies(use)

\* Nobody else has to do with the frame p works on: it is new, or nobody refers to it any more.
Sole(p) ==
    /\ \A q \in Proc : hold[q][frame[p]] = 0
    /\ \A q \in Proc : q # p /\ frame[q] = frame[p] => pc[q] = "untally"

Proper(p) ==
    /\ pc[p] \in {"idle", "dropTable"} <=> frame[p] = None
    /\ frame[p] # 0 /\ hold[p][0] = 0
    /\ pc[p] \in {"check", "look", "add"} => Sole(p) \/ hold[p][frame[p]] > 0
    /\ pc[p] \in {"store", "tally", "dealloc"} => Sole(p)
    /\ pc[p] = "store" => refs[Ridx(frame[p])].cnt = 0
    /\ pc[p] \in {"dealloc", "untally"} => refs[Ridx(frame[p])].cnt > 0
    /\ pc[p] \in {"add", "tally", "sub"} => tab[p] = refs[Ridx(frame[p])].fr

\* Of every table but the first, one core at a time.
Turns ==
    \A p, q \in Proc :
        frame[p] # None /\ frame[q] # None /\ Ridx(frame[p]) = Ridx(frame[q]) /\ Ridx(frame[p]) # 0
            => p = q

\* The counts of a table that have been tallied: all but the first references to a frame
\* that are being made.
Tallied(k) ==
    {o \in 0 .. PerTable - 1 :
        /\ rtb[refs[k].fr][o] > 0
        /\ \A p \in Proc : ~(At(p, {"tally"}, k) /\ Rofs(frame[p]) = o)}
Leaving(k) == DoingIn({"dealloc", "untally"}, k)

ExactAt(k) ==
    IF Live(k)
    THEN /\ \A f \in Frame : Ridx(f) = k => rtb[refs[k].fr][Rofs(f)] = References(f)
         /\ refs[k].cnt = Cardinality(Tallied(k)) + Cardinality(Leaving(k))
    ELSE \A f \in Frame : Ridx(f) = k => References(f) = 0

\* The references to a frame fit in 16 bits.
Calls == {"check", "store", "look", "add", "tally", "rent", "sub"}
Claims(f) == Owned(f) + Cardinality(Doing(Calls, f))
Bounded == \A f \in Frame : Claims(f) <= MaxRefs + Cardinality(Proc)

PhysInv ==
    /\ TypeOK /\ Listed /\ Placed /\ (\A p \in Proc : Proper(p)) /\ Turns
    /\ (\A k \in Tables : ExactAt(k)) /\ Bounded

\* What the theorems take for granted: of every table but the first, whose frames include the
\* APIC's, cores work on the frames one at a time, and the references to a frame fit in 16 bits.
TakeTurns == Tables \ {0} \subseteq Alone
Fits == MaxRefs + Cardinality(Proc) <= MaxCount

-----------------------------------------------------------------------------
(* Steps.                                                                   *)

\* Nobody but p moves.
OnlyMoves(p) == \A q \in Proc : q # p => pc'[q] = pc[q] /\ frame'[q] = frame[q]
\* Nobody's references change but q's.
OnlyHolds(q) == \A r \in Proc : r # q => hold'[r] = hold[r]

Weighs(step, g, f) == IF step \in {"tally", "rent", "sub"} /\ g = f THEN 1 ELSE 0
Asks(step, g, f) == IF step \in Calls /\ g = f THEN 1 ELSE 0

\* What is owned of a frame is a number, and none exactly when nobody owns any.
LEMMA OwnedNat ==
    ASSUME PhysMemAssumption, TypeOK, NEW f \in Frame
    PROVE  /\ Owned(f) \in Nat /\ \A p \in Proc : hold[p][f] \in Nat /\ hold[p][f] <= Owned(f)
           /\ (\A p \in Proc : hold[p][f] = 0) <=> Owned(f) = 0
  <1> DEFINE g == [p \in Proc |-> hold[p][f]]
  <1>1. IsFiniteSet(Proc) /\ \A p \in Proc : g[p] = hold[p][f] /\ g[p] \in Nat
    BY DEF PhysMemAssumption, TypeOK
  <1>2. Owned(f) = Sum(g, Proc)
    BY DEF Owned, Sum, SumFunction, SumFunctionOnSet
  <1> HIDE DEF g
  <1>3. Sum(g, Proc) \in Nat /\ ((\A p \in Proc : g[p] = 0) => Sum(g, Proc) = 0)
    BY <1>1, SumNat
  <1>4. ASSUME NEW p \in Proc PROVE g[p] <= Sum(g, Proc)
    BY <1>1, SumCovers
  <1> QED
    BY <1>1, <1>2, <1>3, <1>4

\* One core's references to a frame change.
LEMMA OwnedChange ==
    ASSUME PhysMemAssumption, TypeOK, TypeOK', NEW q \in Proc, OnlyHolds(q), NEW f \in Frame
    PROVE  Owned(f)' = Owned(f) - hold[q][f] + hold'[q][f]
  <1> DEFINE g == [p \in Proc |-> hold[p][f]]
             h == [p \in Proc |-> hold'[p][f]]
  <1>1. /\ IsFiniteSet(Proc) /\ \A p \in Proc : g[p] = hold[p][f] /\ g[p] \in Nat
        /\ \A p \in Proc : h[p] = hold'[p][f] /\ h[p] \in Nat
    BY DEF PhysMemAssumption, TypeOK
  <1>2. Owned(f) = Sum(g, Proc)
    BY DEF Owned, Sum, SumFunction, SumFunctionOnSet
  <1>3. Owned(f)' = Sum(h, Proc)
    <2>1. Owned(f)' = SumFunction(h)
      BY DEF Owned
    <2>2. DOMAIN h = Proc
      OBVIOUS
    <2> HIDE DEF h
    <2> QED
      BY <2>1, <2>2 DEF Sum, SumFunction
  <1>4. \A p \in Proc : p # q => h[p] = g[p]
    BY DEF OnlyHolds
  <1> HIDE DEF g, h
  <1>5. Sum(h, Proc) = Sum(g, Proc) - g[q] + h[q]
    BY <1>1, <1>4, SumChange
  <1> QED
    BY <1>1, <1>2, <1>3, <1>5

\* What p's step does to the number of those at some places of some operations.
LEMMA DoingChange ==
    ASSUME PhysMemAssumption, NEW p \in Proc, OnlyMoves(p), NEW S, NEW f
    PROVE  /\ Cardinality(Doing(S, f)) \in Nat /\ Cardinality(Doing(S, f)') \in Nat
           /\ Cardinality(Doing(S, f)')
              = Cardinality(Doing(S, f)) - (IF pc[p] \in S /\ frame[p] = f THEN 1 ELSE 0)
                                         + (IF pc'[p] \in S /\ frame'[p] = f THEN 1 ELSE 0)
  <1>1. Doing(S, f) \subseteq Proc /\ Doing(S, f)' \subseteq Proc
    BY DEF Doing
  <1>2. IsFiniteSet(Doing(S, f))
    BY <1>1, CountPart DEF PhysMemAssumption
  <1>3. Doing(S, f)' \ {p} = Doing(S, f) \ {p}
    BY DEF Doing, OnlyMoves
  <1>4. /\ p \in Doing(S, f) <=> pc[p] \in S /\ frame[p] = f
        /\ p \in Doing(S, f)' <=> pc'[p] \in S /\ frame'[p] = f
    BY DEF Doing
  <1> QED
    BY <1>2, <1>3, <1>4, CountChange

\* What p's step does to the number of those that leave a table's tally.
LEMMA LeavingChange ==
    ASSUME PhysMemAssumption, NEW p \in Proc, OnlyMoves(p), NEW k
    PROVE  /\ Cardinality(Leaving(k)) \in Nat /\ Cardinality(Leaving(k)') \in Nat
           /\ Cardinality(Leaving(k)')
              = Cardinality(Leaving(k)) - (IF At(p, {"dealloc", "untally"}, k) THEN 1 ELSE 0)
                                        + (IF At(p, {"dealloc", "untally"}, k)' THEN 1 ELSE 0)
  <1>1. Leaving(k) \subseteq Proc /\ Leaving(k)' \subseteq Proc
    BY DEF Leaving, DoingIn
  <1>2. IsFiniteSet(Leaving(k))
    BY <1>1, CountPart DEF PhysMemAssumption
  <1>3. Leaving(k)' \ {p} = Leaving(k) \ {p}
    BY DEF Leaving, DoingIn, OnlyMoves
  <1>4. /\ p \in Leaving(k) <=> At(p, {"dealloc", "untally"}, k)
        /\ p \in Leaving(k)' <=> At(p, {"dealloc", "untally"}, k)'
    BY DEF Leaving, DoingIn, At
  <1> QED
    BY <1>2, <1>3, <1>4, CountChange

\* The references to a frame change by what a core comes to own and by what p does for one.
LEMMA ReferencesChange ==
    ASSUME PhysMemAssumption, TypeOK, TypeOK', NEW p \in Proc, OnlyMoves(p),
           NEW q \in Proc, OnlyHolds(q), NEW f \in Frame
    PROVE  /\ References(f) \in Nat
           /\ References(f)' = References(f) - hold[q][f] + hold'[q][f]
                               - Weighs(pc[p], frame[p], f) + Weighs(pc'[p], frame'[p], f)
           /\ Claims(f) \in Nat
           /\ Claims(f)' = Claims(f) - hold[q][f] + hold'[q][f]
                           - Asks(pc[p], frame[p], f) + Asks(pc'[p], frame'[p], f)
  <1>1. /\ Owned(f)' = Owned(f) - hold[q][f] + hold'[q][f] /\ Owned(f) \in Nat
        /\ hold[q][f] \in Nat /\ hold'[q][f] \in Nat
    <2>1. Owned(f)' = Owned(f) - hold[q][f] + hold'[q][f]
      BY OwnedChange
    <2>2. Owned(f) \in Nat
      BY OwnedNat
    <2>3. hold[q][f] \in Nat /\ hold'[q][f] \in Nat
      BY DEF TypeOK
    <2> QED
      BY <2>1, <2>2, <2>3
  <1>2. /\ Cardinality(Doing({"tally", "rent", "sub"}, f)) \in Nat
        /\ Cardinality(Doing({"tally", "rent", "sub"}, f)')
           = Cardinality(Doing({"tally", "rent", "sub"}, f)) - Weighs(pc[p], frame[p], f)
                                                             + Weighs(pc'[p], frame'[p], f)
    BY DoingChange DEF Weighs
  <1>3. /\ Cardinality(Doing(Calls, f)) \in Nat
        /\ Cardinality(Doing(Calls, f)')
           = Cardinality(Doing(Calls, f)) - Asks(pc[p], frame[p], f) + Asks(pc'[p], frame'[p], f)
    BY DoingChange DEF Asks
  <1> QED
    BY <1>1, <1>2, <1>3 DEF References, Claims, Weighs, Asks

-----------------------------------------------------------------------------
(* Lists of free frames.                                                    *)

\* The frame taken was free, and is not any more.
LEMMA Taken ==
    ASSUME PhysMemAssumption, TypeOK, Listed, UnsafeAlloc
    PROVE  /\ Top \in Frame /\ Top \in Free
           /\ avail' \in Nat /\ avail' <= NFrames /\ freeList' \in Seq(Frame)
           /\ Listed' /\ Free' = Free \ {Top}
  <1>1. CASE freeList # <<>>
    <2> DEFINE s == Tail(freeList)
    <2>1. freeList' = s /\ avail' = avail /\ Top = freeList[1]
      BY <1>1 DEF UnsafeAlloc, Top
    <2>2. /\ Len(freeList) \in Nat /\ Len(freeList) >= 1
          /\ \A i \in 1 .. Len(freeList) : freeList[i] \in Frame
          /\ DOMAIN freeList = 1 .. Len(freeList)
      BY <1>1 DEF TypeOK
    <2>3. /\ s \in Seq(Frame) /\ Len(s) = Len(freeList) - 1 /\ DOMAIN s = 1 .. Len(s)
          /\ \A i \in 1 .. Len(s) : s[i] = freeList[i + 1]
      BY <1>1 DEF TypeOK
    <2> HIDE DEF s
    <2>4. /\ \A i \in DOMAIN s : i + 1 \in DOMAIN freeList /\ s[i] = freeList[i + 1]
          /\ \A i \in DOMAIN freeList : i = 1 \/ (i - 1 \in DOMAIN s /\ s[i - 1] = freeList[i])
          /\ 1 \in DOMAIN freeList /\ \A i \in DOMAIN s : i \in Nat /\ i + 1 # 1
      BY <2>2, <2>3
    <2>5. \A i \in DOMAIN s : s[i] # freeList[1]
      BY <2>4 DEF Listed
    <2>6. Range(s) = Range(freeList) \ {freeList[1]}
      BY <2>4, <2>5 DEF Range
    <2>7. Listed'
      <3>1. \A i \in DOMAIN s : s[i] < avail
        BY <2>4 DEF Listed
      <3>2. \A i, j \in DOMAIN s : s[i] = s[j] => i = j
        <4> SUFFICES ASSUME NEW i \in DOMAIN s, NEW j \in DOMAIN s, s[i] = s[j] PROVE i = j
          OBVIOUS
        <4>1. i + 1 = j + 1 /\ i \in Nat /\ j \in Nat
          BY <2>4 DEF Listed
        <4> QED
          BY <4>1
      <3> QED
        BY <2>1, <3>1, <3>2 DEF Listed
    <2>8. freeList[1] \in Range(freeList) /\ freeList[1] \in Frame /\ freeList[1] < avail
      BY <2>2, <2>4 DEF Range, Listed
    <2>9. freeList[1] \notin avail .. NFrames - 1
      BY <2>8 DEF TypeOK, Frame
    <2>10. Free' = Free \ {Top} /\ Top \in Free
      BY <2>1, <2>6, <2>8, <2>9 DEF Free
    <2> QED
      BY <2>1, <2>3, <2>7, <2>8, <2>10 DEF TypeOK
  <1>2. CASE freeList = <<>>
    <2>1. avail' = avail + 1 /\ freeList' = freeList /\ Top = avail /\ avail < NFrames
      BY <1>2 DEF UnsafeAlloc, Top, Available
    <2>2. Range(freeList) = {} /\ DOMAIN freeList = {}
      BY <1>2 DEF Range
    <2>3. avail \in Nat /\ NFrames \in Nat
      BY DEF TypeOK, PhysMemAssumption
    <2>4. Free = avail .. NFrames - 1 /\ Free' = avail + 1 .. NFrames - 1
      BY <2>1, <2>2 DEF Free
    <2>5. avail \in Frame /\ avail + 1 .. NFrames - 1 = (avail .. NFrames - 1) \ {avail}
          /\ avail \in avail .. NFrames - 1
      BY <2>1, <2>3 DEF Frame
    <2>6. Listed'
      BY <2>1, <2>2 DEF Listed
    <2> QED
      BY <2>1, <2>3, <2>4, <2>5, <2>6 DEF TypeOK
  <1> QED
    BY <1>1, <1>2

\* The frame let go is free, and was not.
LEMMA GivenBack ==
    ASSUME PhysMemAssumption, TypeOK, Listed, NEW f \in Frame, f \notin Free, Dealloc(f)
    PROVE  /\ avail' = avail /\ freeList' \in Seq(Frame) /\ Listed' /\ Free' = Free \cup {f}
  <1> DEFINE s == <<f>> \o freeList
  <1>1. freeList' = s /\ avail' = avail
    BY DEF Dealloc
  <1>2. /\ Len(freeList) \in Nat /\ DOMAIN freeList = 1 .. Len(freeList)
        /\ \A i \in 1 .. Len(freeList) : freeList[i] \in Frame
    BY DEF TypeOK
  <1>3. /\ s \in Seq(Frame) /\ Len(s) = Len(freeList) + 1 /\ DOMAIN s = 1 .. Len(s) /\ s[1] = f
        /\ \A i \in 1 .. Len(freeList) : s[i + 1] = freeList[i]
    BY DEF TypeOK
  <1> HIDE DEF s
  <1>4. /\ \A i \in DOMAIN freeList : i + 1 \in DOMAIN s /\ s[i + 1] = freeList[i]
        /\ \A i \in DOMAIN s : i = 1 \/ (i - 1 \in DOMAIN freeList /\ s[i] = freeList[i - 1])
        /\ 1 \in DOMAIN s /\ s[1] = f /\ \A i \in DOMAIN s : i \in Nat
    <2>1. ASSUME NEW i \in DOMAIN s, i # 1
          PROVE  i - 1 \in DOMAIN freeList /\ s[i] = freeList[i - 1]
      <3>1. i - 1 \in 1 .. Len(freeList) /\ (i - 1) + 1 = i
        BY <1>2, <1>3, <2>1
      <3> QED
        BY <1>2, <1>3, <3>1
    <2> QED
      BY <1>2, <1>3, <2>1
  <1>5. f \notin Range(freeList) /\ f < avail /\ f \in Nat
    <2>1. f \notin avail .. NFrames - 1 /\ f \notin Range(freeList)
      BY DEF Free
    <2> QED
      BY <2>1 DEF TypeOK, Frame, PhysMemAssumption
  <1>6. Range(s) = Range(freeList) \cup {f}
    BY <1>4 DEF Range
  <1>7. \A i \in DOMAIN s : s[i] < avail
    BY <1>4, <1>5 DEF Listed
  <1>8. \A i, j \in DOMAIN s : s[i] = s[j] => i = j
    <2> SUFFICES ASSUME NEW i \in DOMAIN s, NEW j \in DOMAIN s, s[i] = s[j] PROVE i = j
      OBVIOUS
    <2>1. \A l \in DOMAIN freeList : freeList[l] # f
      BY <1>5 DEF Range
    <2>2. CASE i = 1 \/ j = 1
      BY <1>4, <2>1, <2>2
    <2>3. CASE i # 1 /\ j # 1
      <3>1. /\ i - 1 \in DOMAIN freeList /\ j - 1 \in DOMAIN freeList
            /\ freeList[i - 1] = freeList[j - 1] /\ i \in Nat /\ j \in Nat
        BY <1>4, <2>3
      <3>2. i - 1 = j - 1
        BY <3>1 DEF Listed
      <3> QED
        BY <3>1, <3>2
    <2> QED
      BY <2>2, <2>3
  <1>9. Listed'
    BY <1>1, <1>7, <1>8 DEF Listed
  <1>10. Free' = Free \cup {f}
    BY <1>1, <1>6 DEF Free
  <1> QED
    BY <1>1, <1>3, <1>9, <1>10

-----------------------------------------------------------------------------
(* What the invariant says of one frame and one table.                      *)

\* Who owns a frame, or works on it, holds it.
LEMMA ReferredHeld ==
    ASSUME PhysMemAssumption, TypeOK, NEW f \in Frame, References(f) > 0
    PROVE  Held(f)
  <1>1. IsFiniteSet(Doing({"tally", "rent", "sub"}, f))
    BY CountPart DEF Doing, PhysMemAssumption
  <1>2. CASE Owned(f) = 0 /\ Doing({"tally", "rent", "sub"}, f) = {} /\ f # 0
    <2>1. Cardinality(Doing({"tally", "rent", "sub"}, f)) = 0
      BY <1>2, FS_EmptySet
    <2> QED
      BY <1>2, <2>1 DEF References
  <1>3. CASE Owned(f) # 0
    <2>1. \E p \in Proc : hold[p][f] \in Nat /\ hold[p][f] # 0
      BY <1>3, OwnedNat
    <2> QED
      BY <2>1 DEF Held
  <1>4. CASE Doing({"tally", "rent", "sub"}, f) # {}
    BY <1>4 DEF Doing, Held
  <1> QED
    BY <1>2, <1>3, <1>4 DEF Held

\* Of a frame that one operation has to itself there is at most its reference.
LEMMA SoleCounts ==
    ASSUME PhysMemAssumption, TypeOK, NEW p \in Proc, Sole(p), frame[p] \in Frame, frame[p] # 0
    PROVE  /\ Owned(frame[p]) = 0
           /\ References(frame[p]) = IF pc[p] \in {"tally", "rent", "sub"} THEN 1 ELSE 0
  <1>1. Owned(frame[p]) = 0
    BY OwnedNat DEF Sole
  <1>2. Doing({"tally", "rent", "sub"}, frame[p])
        = IF pc[p] \in {"tally", "rent", "sub"} THEN {p} ELSE {}
    BY DEF Doing, Sole
  <1>3. Cardinality({p}) = 1 /\ Cardinality({}) = 0
    BY FS_Singleton, FS_EmptySet
  <1> QED
    BY <1>1, <1>2, <1>3 DEF References

\* A frame with references that is not being tallied is counted, in a table with a tally.
LEMMA Tallying ==
    ASSUME PhysMemAssumption, PhysInv, NEW f \in Frame, References(f) > 0,
           \A p \in Proc : ~(pc[p] = "tally" /\ frame[p] = f)
    PROVE  /\ Live(Ridx(f)) /\ refs[Ridx(f)].cnt > 0
           /\ rtb[refs[Ridx(f)].fr][Rofs(f)] = References(f)
           /\ Cardinality(Leaving(Ridx(f))) < refs[Ridx(f)].cnt
           /\ Cardinality(Leaving(Ridx(f))) \in Nat
  <1> DEFINE k == Ridx(f)
  <1>1. /\ k \in Tables /\ Rofs(f) \in 0 .. PerTable - 1
        /\ \A g \in Frame : Ridx(g) = Ridx(f) /\ Rofs(g) = Rofs(f) => g = f
    BY Places
  <1>2. Live(k)
    BY <1>1 DEF PhysInv, ExactAt
  <1>3. /\ rtb[refs[k].fr][Rofs(f)] = References(f)
        /\ refs[k].cnt = Cardinality(Tallied(k)) + Cardinality(Leaving(k))
    BY <1>1, <1>2 DEF PhysInv, ExactAt
  <1>4. Rofs(f) \in Tallied(k)
    BY <1>1, <1>3 DEF Tallied, At, PhysInv, TypeOK
  <1>5. Tallied(k) \subseteq 0 .. PerTable - 1 /\ IsFiniteSet(0 .. PerTable - 1)
    BY FS_Interval DEF Tallied, PhysMemAssumption
  <1>6. Cardinality(Tallied(k)) \in Nat /\ Cardinality(Tallied(k)) # 0
    BY <1>4, <1>5, CountPart
  <1>7. Cardinality(Leaving(k)) \in Nat
    BY CountPart DEF Leaving, DoingIn, PhysMemAssumption
  <1>8. refs[k].cnt \in Nat
    BY <1>1 DEF PhysInv, TypeOK
  <1> QED
    BY <1>2, <1>3, <1>6, <1>7, <1>8

\* The first table stays: nobody drops the APIC's reference.
LEMMA FirstTable ==
    ASSUME PhysMemAssumption, PhysInv
    PROVE  refs[0].cnt > 0
  <1>1. 0 \in Frame /\ Ridx(0) = 0
    BY Places
  <1>2. References(0) > 0
    <2>1. Owned(0) \in Nat
      BY <1>1, OwnedNat DEF PhysInv
    <2>2. Cardinality(Doing({"tally", "rent", "sub"}, 0)) \in Nat
      BY CountPart DEF Doing, PhysMemAssumption
    <2> QED
      BY <2>1, <2>2 DEF References
  <1>3. \A p \in Proc : frame[p] # 0
    BY DEF PhysInv, Proper
  <1> QED
    BY <1>1, <1>2, <1>3, Tallying

-----------------------------------------------------------------------------
(* What a step leaves as it was.                                            *)

\* A table's state, where the step neither writes it nor changes a reference to its frames.
LEMMA ExactKept ==
    ASSUME PhysMemAssumption, PhysInv, TypeOK', NEW p \in Proc, OnlyMoves(p), NEW k \in Tables,
           Live(k)' <=> Live(k), Live(k) => refs'[k] = refs[k],
           Live(k) => \A o \in 0 .. PerTable - 1 : rtb'[refs[k].fr][o] = rtb[refs[k].fr][o],
           \A f \in Frame : Ridx(f) = k => References(f)' = References(f),
           At(p, {"tally"}, k)' <=> At(p, {"tally"}, k),
           At(p, {"dealloc", "untally"}, k)' <=> At(p, {"dealloc", "untally"}, k),
           At(p, {"tally"}, k) => frame'[p] = frame[p]
    PROVE  ExactAt(k)'
  <1>1. ExactAt(k)
    BY DEF PhysInv
  <1>2. CASE ~Live(k)
    BY <1>1, <1>2 DEF ExactAt
  <1>3. CASE Live(k)
    <2>1. Live(k)' /\ refs'[k] = refs[k]
      BY <1>3
    <2>2. \A q \in Proc : At(q, {"tally"}, k)' <=> At(q, {"tally"}, k)
      BY DEF At, OnlyMoves
    <2>3. \A q \in Proc : At(q, {"tally"}, k) => frame'[q] = frame[q]
      BY DEF OnlyMoves
    <2>4. Tallied(k)' = Tallied(k)
      BY <1>3, <2>1, <2>2, <2>3 DEF Tallied
    <2>5. Cardinality(Leaving(k)') = Cardinality(Leaving(k))
      BY LeavingChange
    <2>6. \A f \in Frame : Ridx(f) = k => rtb'[refs'[k].fr][Rofs(f)] = References(f)'
      BY <1>1, <1>3, <2>1, Places DEF ExactAt
    <2>7. refs'[k].cnt = Cardinality(Tallied(k)') + Cardinality(Leaving(k)')
      BY <1>1, <1>3, <2>1, <2>4, <2>5 DEF ExactAt
    <2> QED
      BY <2>1, <2>6, <2>7 DEF ExactAt
  <1> QED
    BY <1>2, <1>3

\* Whether a table counts.
LEMMA LiveKept ==
    ASSUME NEW p \in Proc, OnlyMoves(p), NEW k,
           refs'[k].cnt = refs[k].cnt,
           \/ refs[k].cnt > 0
           \/ At(p, {"look", "add", "tally"}, k)' <=> At(p, {"look", "add", "tally"}, k)
    PROVE  Live(k)' <=> Live(k)
  BY DEF Live, At, OnlyMoves

\* What frames are used for.
LEMMA LiesKept ==
    ASSUME PhysInv, Free' = Free,
           \A f \in Frame : Held(f)' <=> Held(f),
           \A k \in Tables : Live(k)' <=> Live(k),
           \A k \in Tables : Live(k) => refs'[k].fr = refs[k].fr,
           \A q \in Proc : Drops(q)' <=> Drops(q),
           \A q \in Proc : Drops(q) => tab'[q] = tab[q]
    PROVE  Placed'
  <1>1. PICK use : Lies(use)
    BY DEF PhysInv, Placed
  <1>2. Lies(use)'
    BY <1>1 DEF Lies
  <1> QED
    BY <1>2 DEF Placed

\* Who holds a frame, when nobody's references change and p goes on with its frame.
LEMMA HeldKept ==
    ASSUME NEW p \in Proc, OnlyMoves(p), hold' = hold, frame' = frame,
           pc'[p] = "untally" <=> pc[p] = "untally", NEW f
    PROVE  Held(f)' <=> Held(f)
  BY DEF Held, OnlyMoves

\* A core that does not move.
LEMMA ProperKept ==
    ASSUME PhysInv, TypeOK', NEW p \in Proc, OnlyMoves(p), NEW q \in Proc, q # p,
           tab'[q] = tab[q], hold'[q][0] = 0,
           frame[q] # None =>
               /\ refs'[Ridx(frame[q])].fr = refs[Ridx(frame[q])].fr
               /\ refs'[Ridx(frame[q])].cnt > 0 <=> refs[Ridx(frame[q])].cnt > 0
               /\ refs'[Ridx(frame[q])].cnt = 0 <=> refs[Ridx(frame[q])].cnt = 0
               /\ hold[q][frame[q]] > 0 => hold'[q][frame[q]] > 0
               /\ pc[q] # "untally" /\ Sole(q) => Sole(q)'
    PROVE  Proper(q)'
  <1>1. pc'[q] = pc[q] /\ frame'[q] = frame[q] /\ Proper(q)
    BY DEF OnlyMoves, PhysInv
  <1> QED
    BY <1>1 DEF Proper

\* Nobody comes to have to do with a frame that q has to itself.
LEMMA SoleKept ==
    ASSUME NEW p \in Proc, OnlyMoves(p), NEW q \in Proc, q # p, Sole(q),
           \A r \in Proc : hold'[r][frame[q]] = hold[r][frame[q]],
           frame'[p] = frame[q] => pc'[p] = "untally"
    PROVE  Sole(q)'
  BY DEF Sole, OnlyMoves

\* The cores keep taking turns when p goes on with its frame, or lets it go.
LEMMA TurnsKept ==
    ASSUME PhysInv, NEW p \in Proc, OnlyMoves(p), frame'[p] \in {frame[p], None}
    PROVE  Turns'
  BY DEF PhysInv, Turns, OnlyMoves

\* p waited for its turn to work on f.
LEMMA TurnsNext ==
    ASSUME PhysMemAssumption, TakeTurns, PhysInv, NEW p \in Proc, OnlyMoves(p), NEW f \in Frame,
           frame'[p] = f, Turn(f)
    PROVE  Turns'
  <1>1. Ridx(f) # 0 => \A q \in Proc : frame[q] # None => Ridx(frame[q]) # Ridx(f)
    <2> SUFFICES ASSUME Ridx(f) # 0, NEW q \in Proc, frame[q] # None PROVE Ridx(frame[q]) # Ridx(f)
      OBVIOUS
    <2>1. DoingIn(Pcs, Ridx(f)) = {}
      BY Places DEF Turn, TakeTurns
    <2>2. pc[q] \in Pcs
      BY DEF PhysInv, TypeOK
    <2> QED
      BY <2>1, <2>2 DEF DoingIn
  <1> QED
    BY <1>1 DEF PhysInv, Turns, OnlyMoves

\* No frame is claimed more often.
LEMMA BoundedKept ==
    ASSUME PhysMemAssumption, PhysInv, TypeOK', NEW p \in Proc, OnlyMoves(p), NEW q \in Proc,
           OnlyHolds(q),
           \A f \in Frame : hold'[q][f] + Asks(pc'[p], frame'[p], f)
                            <= hold[q][f] + Asks(pc[p], frame[p], f)
    PROVE  Bounded'
  <1> SUFFICES ASSUME NEW f \in Frame PROVE Claims(f)' <= MaxRefs + Cardinality(Proc)
    BY DEF Bounded
  <1>1. /\ Claims(f) \in Nat
        /\ Claims(f)' = Claims(f) - hold[q][f] + hold'[q][f]
                        - Asks(pc[p], frame[p], f) + Asks(pc'[p], frame'[p], f)
    BY ReferencesChange DEF PhysInv
  <1>2. Claims(f) <= MaxRefs + Cardinality(Proc)
    BY DEF PhysInv, Bounded
  <1>3. MaxRefs \in Nat /\ Cardinality(Proc) \in Nat
    BY FS_CardinalityType DEF PhysMemAssumption
  <1>4. /\ hold'[q][f] \in Nat /\ hold[q][f] \in Nat
        /\ Asks(pc[p], frame[p], f) \in Nat /\ Asks(pc'[p], frame'[p], f) \in Nat
    BY DEF Asks, PhysInv, TypeOK
  <1>5. hold'[q][f] + Asks(pc'[p], frame'[p], f) <= hold[q][f] + Asks(pc[p], frame[p], f)
    OBVIOUS
  <1> HIDE DEF Claims
  <1> QED
    BY ONLY <1>1, <1>2, <1>3, <1>4, <1>5

\* References stay what they are when p neither makes nor gives up one.
LEMMA ReferencesKept ==
    ASSUME PhysMemAssumption, TypeOK, TypeOK', NEW p \in Proc, OnlyMoves(p), hold' = hold,
           NEW f \in Frame, Weighs(pc'[p], frame'[p], f) = Weighs(pc[p], frame[p], f)
    PROVE  References(f)' = References(f)
  <1>1. OnlyHolds(p)
    BY DEF OnlyHolds
  <1>2. /\ References(f) \in Nat
        /\ References(f)' = References(f) - hold[p][f] + hold'[p][f]
                            - Weighs(pc[p], frame[p], f) + Weighs(pc'[p], frame'[p], f)
    BY <1>1, ReferencesChange
  <1>3. hold[p][f] \in Nat /\ hold'[p][f] = hold[p][f] /\ Weighs(pc[p], frame[p], f) \in Nat
    BY DEF TypeOK, Weighs
  <1> QED
    BY <1>2, <1>3


-----------------------------------------------------------------------------
(* The actions.                                                             *)

\* An owner's frame that nobody is making the first reference to is counted.
LEMMA OwnedCounted ==
    ASSUME PhysMemAssumption, PhysInv, NEW q \in Proc, NEW f \in Frame, hold[q][f] > 0
    PROVE  /\ refs[Ridx(f)].cnt > 0 /\ References(f) > 0
           /\ \A p \in Proc : ~(pc[p] = "tally" /\ frame[p] = f)
  <1>1. Owned(f) >= hold[q][f] /\ Owned(f) \in Nat /\ hold[q][f] \in Nat
    BY OwnedNat DEF PhysInv
  <1>2. References(f) > 0
    <2>1. Cardinality(Doing({"tally", "rent", "sub"}, f)) \in Nat
      BY CountPart DEF Doing, PhysMemAssumption
    <2> QED
      BY <1>1, <2>1 DEF References
  <1>3. \A p \in Proc : ~(pc[p] = "tally" /\ frame[p] = f)
    BY DEF PhysInv, Proper, Sole
  <1> QED
    BY <1>2, <1>3, Tallying

\* An operation that has a frame.
LEMMA Working ==
    ASSUME PhysMemAssumption, PhysInv, NEW p \in Proc, pc[p] \notin {"idle", "dropTable"}
    PROVE  /\ frame[p] \in Frame /\ frame[p] # None /\ frame[p] # 0
           /\ Ridx(frame[p]) \in Tables /\ Rofs(frame[p]) \in 0 .. PerTable - 1
           /\ refs[Ridx(frame[p])].cnt \in Nat
           /\ refs[Ridx(frame[p])].fr \in Frame \cup {None}
  <1>1. frame[p] \in Frame \cup {None} /\ frame[p] # None /\ frame[p] # 0
    BY DEF Proper, PhysInv, TypeOK
  <1>2. Ridx(frame[p]) \in Tables /\ Rofs(frame[p]) \in 0 .. PerTable - 1
    BY <1>1, Places
  <1> QED
    BY <1>1, <1>2 DEF PhysInv, TypeOK

\* p goes to another step.
LEMMA Goes ==
    ASSUME PhysInv, NEW p \in Proc, NEW step \in Pcs \ {"panic"}, Goto(p, step)
    PROVE  /\ pc'[p] = step /\ pc' \in [Proc -> Pcs \ {"panic"}]
           /\ \A q \in Proc : q # p => pc'[q] = pc[q]
  BY DEF Goto, PhysInv, TypeOK

\* A step that only brings p on, with the frame it has.
LEMMA Onward ==
    ASSUME PhysMemAssumption, PhysInv, TypeOK', NEW p \in Proc, OnlyMoves(p),
           pc[p] \in {"check", "look", "add", "rent", "sub"},
           pc'[p] \in {"check", "store", "look", "add", "rent", "sub"},
           pc[p] \in {"rent", "sub"} <=> pc'[p] \in {"rent", "sub"},
           \/ refs[Ridx(frame[p])].cnt > 0
           \/ pc[p] \in {"look", "add"} <=> pc'[p] \in {"look", "add"},
           UNCHANGED <<avail, freeList, refs, rtb, hold, frame>>,
           \A q \in Proc : q # p => tab'[q] = tab[q],
           (Sole(p)' <=> Sole(p)) => Proper(p)'
    PROVE  PhysInv'
  <1> DEFINE f == frame[p]
             k == Ridx(f)
  <1>1. f \in Frame /\ f # None /\ k \in Tables /\ refs[k].cnt \in Nat
    BY Working
  <1>2. Listed' /\ Free' = Free
    BY DEF PhysInv, Listed, Free
  <1>3. \A l \in Tables : Live(l)' <=> Live(l)
    <2> TAKE l \in Tables
    <2>1. CASE l = k /\ refs[k].cnt > 0
      BY <2>1, LiveKept
    <2>2. CASE l # k
      <3>1. At(p, {"look", "add", "tally"}, l)' <=> At(p, {"look", "add", "tally"}, l)
        BY <2>2 DEF At
      <3> QED
        BY <3>1, LiveKept
    <2>3. CASE pc[p] \in {"look", "add"} <=> pc'[p] \in {"look", "add"}
      <3>1. At(p, {"look", "add", "tally"}, l)' <=> At(p, {"look", "add", "tally"}, l)
        BY <2>3 DEF At
      <3> QED
        BY <3>1, LiveKept
    <2> QED
      BY <2>1, <2>2, <2>3
  <1>4. Placed'
    <2>1. \A g \in Frame : Held(g)' <=> Held(g)
      BY HeldKept
    <2>2. \A q \in Proc : Drops(q)' <=> Drops(q)
      BY DEF Drops, OnlyMoves
    <2>3. \A q \in Proc : Drops(q) => tab'[q] = tab[q]
      BY DEF Drops
    <2> QED
      BY <1>2, <1>3, <2>1, <2>2, <2>3, LiesKept
  <1>5. Proper(p)'
    BY DEF Sole, OnlyMoves
  <1>6. ASSUME NEW q \in Proc, q # p PROVE Proper(q)'
    <2>1. Proper(q) /\ hold'[q][0] = 0
      BY DEF PhysInv, Proper
    <2>2. pc[q] # "untally" /\ Sole(q) => Sole(q)'
      <3>1. Sole(q) => frame[p] # frame[q]
        BY <1>6 DEF Sole
      <3> QED
        BY <1>6, <3>1, SoleKept
    <2> QED
      BY <1>6, <2>1, <2>2, ProperKept
  <1>7. Turns'
    BY TurnsKept
  <1>8. ASSUME NEW l \in Tables PROVE ExactAt(l)'
    <2>1. \A g \in Frame : References(g)' = References(g)
      BY ReferencesKept DEF Weighs, PhysInv
    <2>2. /\ At(p, {"tally"}, l)' <=> At(p, {"tally"}, l)
          /\ At(p, {"dealloc", "untally"}, l)' <=> At(p, {"dealloc", "untally"}, l)
      BY DEF At
    <2> QED
      BY <1>3, <2>1, <2>2, ExactKept
  <1>9. Bounded'
    <2>1. OnlyHolds(p) /\ \A g \in Frame : hold[p][g] \in Nat
      BY DEF OnlyHolds, PhysInv, TypeOK
    <2>2. \A g \in Frame : Asks(pc'[p], frame'[p], g) = Asks(pc[p], frame[p], g)
                           /\ Asks(pc[p], frame[p], g) \in Nat
      BY DEF Asks, Calls
    <2> QED
      BY <2>1, <2>2, BoundedKept
  <1> QED
    BY <1>2, <1>4, <1>5, <1>6, <1>7, <1>8, <1>9 DEF PhysInv

\* incref looks whether there is a table: there is, when somebody has a reference already.
LEMMA CheckOK ==
    ASSUME PhysMemAssumption, PhysInv, NEW p \in Proc, Check(p)
    PROVE  PhysInv'
  <1> DEFINE k == Ridx(frame[p])
  <1>1. /\ pc[p] = "check" /\ Proper(p)
        /\ UNCHANGED <<avail, freeList, refs, rtb, hold, frame, tab>>
        /\ Goto(p, IF refs[k].cnt = 0 THEN "store" ELSE "look")
    BY DEF Check, PhysInv
  <1>2. /\ frame[p] \in Frame /\ frame[p] # None /\ frame[p] # 0 /\ refs[k].cnt \in Nat
    BY <1>1, Working
  <1>3. /\ pc'[p] = IF refs[k].cnt = 0 THEN "store" ELSE "look"
        /\ pc' \in [Proc -> Pcs \ {"panic"}] /\ OnlyMoves(p)
    BY <1>1, Goes DEF Pcs, OnlyMoves
  <1>4. TypeOK'
    BY <1>1, <1>3 DEF PhysInv, TypeOK
  <1>5. refs[k].cnt = 0 => Sole(p)
    BY <1>1, <1>2, OwnedCounted DEF Proper
  <1>6. (Sole(p)' <=> Sole(p)) => Proper(p)'
    BY <1>1, <1>2, <1>3, <1>5 DEF Proper
  <1> QED
    BY <1>1, <1>2, <1>3, <1>4, <1>6, Onward

\* incref reads where the table is.
LEMMA LookOK ==
    ASSUME PhysMemAssumption, PhysInv, NEW p \in Proc, Look(p)
    PROVE  PhysInv'
  <1> DEFINE k == Ridx(frame[p])
  <1>1. /\ pc[p] = "look" /\ Proper(p) /\ Goto(p, "add")
        /\ tab \in [Proc -> Frame \cup {None}] /\ tab' = [tab EXCEPT ![p] = refs[k].fr]
        /\ UNCHANGED <<avail, freeList, refs, rtb, hold, frame>>
    BY DEF Look, PhysInv, TypeOK
  <1>2. frame[p] # None /\ frame[p] # 0 /\ refs[k].fr \in Frame \cup {None}
    BY <1>1, Working
  <1>3. pc'[p] = "add" /\ pc' \in [Proc -> Pcs \ {"panic"}] /\ OnlyMoves(p)
    BY <1>1, Goes DEF Pcs, OnlyMoves
  <1>4. tab'[p] = refs[k].fr /\ \A q \in Proc : q # p => tab'[q] = tab[q]
    BY <1>1
  <1>5. TypeOK'
    BY <1>1, <1>2, <1>3 DEF PhysInv, TypeOK
  <1>6. (Sole(p)' <=> Sole(p)) => Proper(p)'
    BY <1>1, <1>2, <1>3, <1>4 DEF Proper
  <1> QED
    BY <1>1, <1>2, <1>3, <1>4, <1>5, <1>6, Onward

\* decref reads where the table is, and finds one.
LEMMA RentOK ==
    ASSUME PhysMemAssumption, PhysInv, NEW p \in Proc, Rent(p)
    PROVE  PhysInv'
  <1> DEFINE k == Ridx(frame[p])
  <1>1. /\ pc[p] = "rent" /\ Proper(p)
        /\ Goto(p, IF refs[k].cnt = 0 THEN "panic" ELSE "sub")
        /\ tab \in [Proc -> Frame \cup {None}] /\ tab' = [tab EXCEPT ![p] = refs[k].fr]
        /\ UNCHANGED <<avail, freeList, refs, rtb, hold, frame>>
    BY DEF Rent, PhysInv, TypeOK
  <1>2. /\ frame[p] \in Frame /\ frame[p] # None /\ frame[p] # 0
        /\ refs[k].fr \in Frame \cup {None} /\ refs[k].cnt \in Nat
    BY <1>1, Working
  <1>3. refs[k].cnt > 0
    <2>1. References(frame[p]) > 0
      <3>1. Cardinality(Doing({"tally", "rent", "sub"}, frame[p])) > 0
        <4>1. p \in Doing({"tally", "rent", "sub"}, frame[p])
          BY <1>1 DEF Doing
        <4>2. /\ Cardinality(Doing({"tally", "rent", "sub"}, frame[p])) \in Nat
              /\ Cardinality(Doing({"tally", "rent", "sub"}, frame[p])) # 0
          BY <4>1, CountPart DEF Doing, PhysMemAssumption
        <4> QED
          BY <4>2
      <3>2. Cardinality(Doing({"tally", "rent", "sub"}, frame[p])) \in Nat
        BY CountPart DEF Doing, PhysMemAssumption
      <3>3. Owned(frame[p]) \in Nat
        BY <1>2, OwnedNat DEF PhysInv
      <3> QED
        BY <3>1, <3>2, <3>3 DEF References
    <2>2. \A q \in Proc : ~(pc[q] = "tally" /\ frame[q] = frame[p])
      BY <1>1 DEF PhysInv, Proper, Sole
    <2> QED
      BY <1>2, <2>1, <2>2, Tallying
  <1>4. pc'[p] = "sub" /\ pc' \in [Proc -> Pcs \ {"panic"}] /\ OnlyMoves(p)
    BY <1>1, <1>3, Goes DEF Pcs, OnlyMoves
  <1>5. tab'[p] = refs[k].fr /\ \A q \in Proc : q # p => tab'[q] = tab[q]
    BY <1>1
  <1>6. TypeOK'
    BY <1>1, <1>2, <1>4 DEF PhysInv, TypeOK
  <1>7. Proper(p)'
    BY <1>1, <1>2, <1>4, <1>5 DEF Proper
  <1> QED
    BY <1>1, <1>3, <1>4, <1>5, <1>6, <1>7, Onward

\* A step that takes up a frame.
LEMMA Begins ==
    ASSUME PhysMemAssumption, TakeTurns, PhysInv, TypeOK', NEW p \in Proc, OnlyMoves(p),
           OnlyHolds(p), NEW f \in Frame, f # 0, frame'[p] = f, Turn(f),
           pc[p] = "idle", pc'[p] \in {"check", "rent"},
           \A g \in Frame : g # f => hold'[p][g] = hold[p][g],
           hold'[p][f] = hold[p][f] - (IF pc'[p] = "rent" THEN 1 ELSE 0),
           pc'[p] = "check" => Sole(p)' \/ hold'[p][f] > 0,
           pc'[p] = "check" => Owned(f) <= MaxRefs,
           \A q \in Proc : q # p /\ frame[q] = f => pc[q] = "untally" \/ ~Sole(q),
           UNCHANGED <<refs, tab>>
    PROVE  /\ \A q \in Proc : Proper(q)'
           /\ Turns' /\ Bounded'
           /\ \A g \in Frame : References(g)' = References(g)
           /\ \A l \in Tables : /\ Live(l)' <=> Live(l)
                                /\ At(p, {"tally"}, l)' <=> At(p, {"tally"}, l)
                                /\ At(p, {"dealloc", "untally"}, l)' <=> At(p, {"dealloc", "untally"}, l)
                                /\ ~At(p, {"tally"}, l)
           /\ \A q \in Proc : Drops(q)' <=> Drops(q)
  <1>1. /\ frame[p] = None /\ frame'[p] # None /\ hold[p][0] = 0
        /\ \A g \in Frame : hold[p][g] \in Nat /\ hold'[p][g] \in Nat
    <2>1. Proper(p) /\ f # None
      BY Places DEF PhysInv
    <2>2. \A g \in Frame : hold[p][g] \in Nat /\ hold'[p][g] \in Nat
      BY DEF PhysInv, TypeOK
    <2> QED
      BY <2>1, <2>2 DEF Proper
  <1>2. hold'[p][0] = 0
    BY <1>1, Places
  <1>3. Proper(p)'
    BY <1>1, <1>2 DEF Proper
  <1>4. ASSUME NEW q \in Proc, q # p PROVE Proper(q)'
    <2>1. Proper(q) /\ hold'[q][0] = 0 /\ hold'[q] = hold[q]
      BY <1>4 DEF PhysInv, Proper, OnlyHolds
    <2>2. pc[q] # "untally" /\ Sole(q) /\ frame[q] # None => Sole(q)'
      <3> SUFFICES ASSUME pc[q] # "untally", Sole(q), frame[q] # None PROVE Sole(q)'
        OBVIOUS
      <3>1. frame[q] # f /\ frame[q] \in Frame
        BY <1>4 DEF PhysInv, TypeOK
      <3>2. \A r \in Proc : hold'[r][frame[q]] = hold[r][frame[q]]
        BY <3>1 DEF OnlyHolds
      <3> QED
        BY <1>4, <3>1, <3>2, SoleKept
    <2> QED
      BY <1>4, <2>1, <2>2, ProperKept
  <1>5. Turns'
    BY TurnsNext
  <1>6. ASSUME NEW g \in Frame
        PROVE  /\ References(g) \in Nat /\ Claims(g) \in Nat
               /\ References(g)' = References(g)
               /\ g # f => Claims(g)' = Claims(g)
               /\ pc'[p] = "rent" => Claims(g)' = Claims(g)
    <2>1. /\ References(g) \in Nat
          /\ References(g)' = References(g) - hold[p][g] + hold'[p][g]
                              - Weighs(pc[p], frame[p], g) + Weighs(pc'[p], frame'[p], g)
          /\ Claims(g) \in Nat
          /\ Claims(g)' = Claims(g) - hold[p][g] + hold'[p][g]
                          - Asks(pc[p], frame[p], g) + Asks(pc'[p], frame'[p], g)
      BY ReferencesChange DEF PhysInv
    <2>2. /\ Weighs(pc[p], frame[p], g) = 0 /\ Asks(pc[p], frame[p], g) = 0
          /\ Weighs(pc'[p], frame'[p], g) = IF g = f /\ pc'[p] = "rent" THEN 1 ELSE 0
          /\ Asks(pc'[p], frame'[p], g) = IF g = f THEN 1 ELSE 0
      BY DEF Weighs, Asks, Calls
    <2>3. /\ hold[p][g] \in Nat /\ hold'[p][g] \in Nat
          /\ hold'[p][g] = hold[p][g] - (IF g = f /\ pc'[p] = "rent" THEN 1 ELSE 0)
      BY <1>1
    <2> QED
      BY <2>1, <2>2, <2>3
  <1>7. ASSUME NEW g \in Frame PROVE Claims(g)' <= MaxRefs + Cardinality(Proc)
    <2>1. CASE g # f \/ pc'[p] = "rent"
      BY <1>6, <2>1 DEF PhysInv, Bounded
    <2>2. CASE g = f /\ pc'[p] = "check"
      <3>1. Claims(g)' = Owned(g)' + Cardinality(Doing(Calls, g)')
        BY DEF Claims
      <3>2. Owned(g)' = Owned(g) - hold[p][g] + hold'[p][g] /\ Owned(g) \in Nat
        BY OwnedChange, OwnedNat DEF PhysInv
      <3>3. /\ Cardinality(Doing(Calls, g)') \in Nat /\ Cardinality(Proc) \in Nat
            /\ Cardinality(Doing(Calls, g)') <= Cardinality(Proc)
        BY CountPart DEF Doing, PhysMemAssumption
      <3>4. hold'[p][g] = hold[p][g] /\ hold[p][g] \in Nat /\ Owned(g) <= MaxRefs /\ MaxRefs \in Nat
        BY <1>1, <2>2 DEF PhysMemAssumption
      <3> QED
        BY <3>1, <3>2, <3>3, <3>4
    <2> QED
      BY <2>1, <2>2
  <1>8. Bounded'
    BY <1>7 DEF Bounded
  <1>9. ASSUME NEW l \in Tables
        PROVE  /\ Live(l)' <=> Live(l)
               /\ At(p, {"tally"}, l)' <=> At(p, {"tally"}, l)
               /\ At(p, {"dealloc", "untally"}, l)' <=> At(p, {"dealloc", "untally"}, l)
               /\ ~At(p, {"tally"}, l)
    <2>1. At(p, {"look", "add", "tally"}, l)' <=> At(p, {"look", "add", "tally"}, l)
      BY DEF At
    <2> QED
      BY <2>1, LiveKept DEF At
  <1>10. \A q \in Proc : Drops(q)' <=> Drops(q)
    BY DEF Drops, OnlyMoves
  <1> QED
    BY <1>3, <1>4, <1>5, <1>6, <1>8, <1>9, <1>10

\* A step that takes up a frame that p has a reference to.
LEMMA BeginsOwn ==
    ASSUME PhysMemAssumption, TakeTurns, PhysInv, TypeOK', NEW p \in Proc, OnlyMoves(p),
           OnlyHolds(p), NEW f \in Frame, frame'[p] = f, Turn(f), hold[p][f] > 0,
           pc[p] = "idle", pc'[p] \in {"check", "rent"},
           \A g \in Frame : g # f => hold'[p][g] = hold[p][g],
           hold'[p][f] = hold[p][f] - (IF pc'[p] = "rent" THEN 1 ELSE 0),
           pc'[p] = "check" => Owned(f) <= MaxRefs,
           UNCHANGED <<avail, freeList, refs, rtb, tab>>
    PROVE  PhysInv'
  <1>1. f # 0 /\ frame[p] = None
    BY DEF PhysInv, Proper
  <1>2. \A q \in Proc : q # p /\ frame[q] = f => ~Sole(q)
    BY DEF Sole
  <1>3. pc'[p] = "check" => hold'[p][f] > 0
    BY DEF PhysInv, TypeOK
  <1>4. /\ \A q \in Proc : Proper(q)'
        /\ Turns' /\ Bounded'
        /\ \A g \in Frame : References(g)' = References(g)
        /\ \A l \in Tables : /\ Live(l)' <=> Live(l)
                             /\ At(p, {"tally"}, l)' <=> At(p, {"tally"}, l)
                             /\ At(p, {"dealloc", "untally"}, l)' <=> At(p, {"dealloc", "untally"}, l)
                             /\ ~At(p, {"tally"}, l)
        /\ \A q \in Proc : Drops(q)' <=> Drops(q)
    BY <1>1, <1>2, <1>3, Begins
  <1>5. Listed' /\ Free' = Free
    BY DEF PhysInv, Listed, Free
  <1>6. ASSUME NEW g \in Frame PROVE Held(g)' <=> Held(g)
    <2>1. frame[p] # g
      BY <1>1, Places
    <2>2. CASE g = f
      BY <2>2 DEF Held
    <2>3. CASE g # f
      <3>1. \A q \in Proc : hold'[q][g] = hold[q][g]
        BY <2>3 DEF OnlyHolds
      <3>2. \A q \in Proc : frame'[q] = g /\ pc'[q] # "untally" <=> frame[q] = g /\ pc[q] # "untally"
        BY <2>1, <2>3 DEF OnlyMoves
      <3> QED
        BY <3>1, <3>2 DEF Held
    <2> QED
      BY <2>2, <2>3
  <1>7. Placed'
    BY <1>4, <1>5, <1>6, LiesKept
  <1>8. ASSUME NEW l \in Tables PROVE ExactAt(l)'
    BY <1>4, ExactKept
  <1> QED
    BY <1>4, <1>5, <1>7, <1>8 DEF PhysInv

\* A core begins to share a frame it has.
LEMMA ShareOK ==
    ASSUME PhysMemAssumption, TakeTurns, PhysInv, NEW p \in Proc, Share(p)
    PROVE  PhysInv'
  <1>1. PICK f \in Frame : hold[p][f] > 0 /\ Owned(f) < MaxRefs /\ Turn(f)
                           /\ frame' = [frame EXCEPT ![p] = f]
    BY DEF Share
  <1>2. /\ pc[p] = "idle" /\ Goto(p, "check")
        /\ UNCHANGED <<avail, freeList, refs, rtb, hold, tab>>
    BY DEF Share
  <1>3. pc'[p] = "check" /\ pc' \in [Proc -> Pcs \ {"panic"}]
    BY <1>2, Goes DEF Pcs
  <1>4. OnlyMoves(p) /\ frame'[p] = f /\ frame' \in [Proc -> Frame \cup {None}]
    BY <1>1, <1>2, Goes DEF Pcs, OnlyMoves, PhysInv, TypeOK
  <1>5. TypeOK' /\ OnlyHolds(p)
    BY <1>2, <1>3, <1>4 DEF PhysInv, TypeOK, OnlyHolds
  <1>6. hold'[p][f] = hold[p][f] - 0 /\ Owned(f) <= MaxRefs
    BY <1>1, <1>2, OwnedNat DEF PhysInv, TypeOK, PhysMemAssumption
  <1> QED
    BY <1>1, <1>2, <1>3, <1>4, <1>5, <1>6, BeginsOwn

\* A core begins to give up a reference.
LEMMA DropOK ==
    ASSUME PhysMemAssumption, TakeTurns, PhysInv, NEW p \in Proc, Drop(p)
    PROVE  PhysInv'
  <1>1. PICK f \in Frame : /\ hold[p][f] > 0 /\ Turn(f)
                           /\ hold' = [hold EXCEPT ![p][f] = @ - 1]
                           /\ frame' = [frame EXCEPT ![p] = f]
    BY DEF Drop
  <1>2. /\ pc[p] = "idle" /\ Goto(p, "rent")
        /\ UNCHANGED <<avail, freeList, refs, rtb, tab>>
    BY DEF Drop
  <1>3. pc'[p] = "rent" /\ pc' \in [Proc -> Pcs \ {"panic"}]
    BY <1>2, Goes DEF Pcs
  <1>4. OnlyMoves(p) /\ frame'[p] = f /\ frame' \in [Proc -> Frame \cup {None}]
    BY <1>1, <1>2, Goes DEF Pcs, OnlyMoves, PhysInv, TypeOK
  <1>5. /\ hold' \in [Proc -> [Frame -> Nat]] /\ hold'[p][f] = hold[p][f] - 1
        /\ \A g \in Frame : g # f => hold'[p][g] = hold[p][g]
        /\ OnlyHolds(p)
    <2>1. hold \in [Proc -> [Frame -> Nat]]
      BY DEF PhysInv, TypeOK
    <2>2. hold[p][f] - 1 \in Nat
      BY <1>1, <2>1
    <2> QED
      BY <1>1, <2>1, <2>2 DEF OnlyHolds
  <1>6. TypeOK'
    BY <1>2, <1>3, <1>4, <1>5 DEF PhysInv, TypeOK
  <1> QED
    BY <1>1, <1>2, <1>3, <1>4, <1>5, <1>6, BeginsOwn

\* Nobody has anything to do with a free frame, but who has freed it and must still tally that.
LEMMA FreeOnes ==
    ASSUME PhysMemAssumption, PhysInv, NEW f \in Frame, f \in Free
    PROVE  /\ ~Held(f) /\ f # 0
           /\ \A q \in Proc : hold[q][f] = 0 /\ (frame[q] = f => pc[q] = "untally")
           /\ Owned(f) = 0
           /\ \A l \in Tables : Live(l) => refs[l].fr # f
           /\ \A q \in Proc : Drops(q) => tab[q] # f
  <1>1. PICK use : Lies(use)
    BY DEF PhysInv, Placed
  <1>2. use[f] = <<"free", 0>>
    BY <1>1 DEF Lies
  <1>3. ~Held(f)
    BY <1>1, <1>2 DEF Lies
  <1>4. \A q \in Proc : hold[q][f] = 0
    BY <1>3 DEF Held, PhysInv, TypeOK
  <1>5. Owned(f) = 0
    BY <1>4, OwnedNat DEF PhysInv
  <1>6. \A l \in Tables : Live(l) => refs[l].fr # f
    BY <1>1, <1>2 DEF Lies
  <1>7. \A q \in Proc : Drops(q) => tab[q] # f
    BY <1>1, <1>2 DEF Lies
  <1> QED
    BY <1>3, <1>4, <1>5, <1>6, <1>7 DEF Held

\* One frame comes to be used for something else.
LEMMA LiesChange ==
    ASSUME NEW use, Lies(use), NEW f \in Frame, NEW what,
           \A g \in Frame : g # f => /\ g \in Free' <=> g \in Free
                                     /\ Held(g)' <=> Held(g),
           f \in Free' <=> what = <<"free", 0>>,
           Held(f)' <=> what = <<"held", 0>>,
           \A l \in Tables : Live(l)' => IF what = <<"table", l>> THEN refs'[l].fr = f
                                         ELSE /\ Live(l) /\ refs'[l].fr = refs[l].fr
                                              /\ refs[l].fr # f,
           \A l \in Tables : Live(l) /\ refs[l].fr # f => Live(l)' /\ refs'[l].fr = refs[l].fr,
           \A q \in Proc : Drops(q)' => IF what = <<"drop", q>> THEN tab'[q] = f
                                        ELSE Drops(q) /\ tab'[q] = tab[q] /\ tab[q] # f,
           \A q \in Proc : Drops(q) /\ tab[q] # f => Drops(q)' /\ tab'[q] = tab[q],
           \/ what = <<"free", 0>> \/ what = <<"held", 0>>
           \/ \E l \in Tables : what = <<"table", l>> /\ Live(l)'
           \/ \E q \in Proc : what = <<"drop", q>> /\ Drops(q)'
    PROVE  Placed'
  <1> DEFINE to == [use EXCEPT ![f] = what]
  <1>1. DOMAIN to = Frame /\ to[f] = what /\ \A g \in Frame : g # f => to[g] = use[g]
    BY DEF Lies
  <1> HIDE DEF to
  <1>2. \A g \in Frame : /\ g \in Free' <=> to[g] = <<"free", 0>>
                         /\ Held(g)' <=> to[g] = <<"held", 0>>
    <2>1. /\ f \in Free' <=> to[f] = <<"free", 0>>
          /\ Held(f)' <=> to[f] = <<"held", 0>>
      BY <1>1
    <2>2. ASSUME NEW g \in Frame, g # f
          PROVE  /\ g \in Free' <=> to[g] = <<"free", 0>>
                 /\ Held(g)' <=> to[g] = <<"held", 0>>
      <3>1. /\ g \in Free <=> use[g] = <<"free", 0>>
            /\ Held(g) <=> use[g] = <<"held", 0>>
        BY DEF Lies
      <3>2. to[g] = use[g] /\ (g \in Free' <=> g \in Free) /\ (Held(g)' <=> Held(g))
        BY <1>1, <2>2
      <3> QED
        BY <3>1, <3>2
    <2> QED
      BY <2>1, <2>2
  <1>3. ASSUME NEW l \in Tables, Live(l)'
        PROVE  refs'[l].fr \in Frame /\ to[refs'[l].fr] = <<"table", l>>
    <2>1. CASE what = <<"table", l>>
      BY <1>1, <1>3, <2>1
    <2>2. CASE what # <<"table", l>>
      <3>1. Live(l) /\ refs'[l].fr = refs[l].fr /\ refs[l].fr # f
        BY <1>3, <2>2
      <3>2. refs[l].fr \in Frame /\ use[refs[l].fr] = <<"table", l>>
        BY <3>1 DEF Lies
      <3> QED
        BY <1>1, <3>1, <3>2
    <2> QED
      BY <2>1, <2>2
  <1>4. ASSUME NEW q \in Proc, Drops(q)'
        PROVE  tab'[q] \in Frame /\ to[tab'[q]] = <<"drop", q>>
    <2>1. CASE what = <<"drop", q>>
      BY <1>1, <1>4, <2>1
    <2>2. CASE what # <<"drop", q>>
      <3>1. Drops(q) /\ tab'[q] = tab[q] /\ tab[q] # f
        BY <1>4, <2>2
      <3>2. tab[q] \in Frame /\ use[tab[q]] = <<"drop", q>>
        BY <3>1 DEF Lies
      <3> QED
        BY <1>1, <3>1, <3>2
    <2> QED
      BY <2>1, <2>2
  <1>5. ASSUME NEW g \in Frame
        PROVE  \/ to[g] = <<"free", 0>> \/ to[g] = <<"held", 0>>
               \/ \E l \in Tables : Live(l)' /\ refs'[l].fr = g
               \/ \E q \in Proc : Drops(q)' /\ tab'[q] = g
    <2>1. CASE g = f
      BY <1>1, <2>1
    <2>2. CASE g # f
      <3>1. \/ use[g] = <<"free", 0>> \/ use[g] = <<"held", 0>>
            \/ \E l \in Tables : Live(l) /\ refs[l].fr = g
            \/ \E q \in Proc : Drops(q) /\ tab[q] = g
        BY DEF Lies
      <3> QED
        BY <1>1, <2>2, <3>1
    <2> QED
      BY <2>1, <2>2
  <1>6. Lies(to)'
    BY <1>1, <1>2, <1>3, <1>4, <1>5 DEF Lies
  <1> QED
    BY <1>6 DEF Placed

\* A core takes a new frame.
LEMMA AllocOK ==
    ASSUME PhysMemAssumption, TakeTurns, PhysInv, NEW p \in Proc, Alloc(p)
    PROVE  PhysInv'
  <1> DEFINE f == Top
  <1>1. /\ pc[p] = "idle" /\ Goto(p, "check") /\ UnsafeAlloc /\ Turn(f)
        /\ frame' = [frame EXCEPT ![p] = f] /\ rtb' = [rtb EXCEPT ![f] = Blank]
        /\ UNCHANGED <<refs, reflock, hold, tab>>
    BY DEF Alloc, UnsafeAlloc, Zeroed
  <1>2. /\ f \in Frame /\ f \in Free /\ avail' \in Nat /\ avail' <= NFrames
        /\ freeList' \in Seq(Frame) /\ Listed' /\ Free' = Free \ {f}
    BY <1>1, Taken DEF PhysInv
  <1> HIDE DEF f
  <1>3. /\ ~Held(f) /\ f # 0
        /\ \A q \in Proc : hold[q][f] = 0 /\ (frame[q] = f => pc[q] = "untally")
        /\ Owned(f) = 0
        /\ \A l \in Tables : Live(l) => refs[l].fr # f
    BY <1>2, FreeOnes
  <1>4. /\ pc'[p] = "check" /\ pc' \in [Proc -> Pcs \ {"panic"}]
        /\ OnlyMoves(p) /\ frame'[p] = f /\ frame' \in [Proc -> Frame \cup {None}]
    BY <1>1, <1>2, Goes DEF Pcs, OnlyMoves, PhysInv, TypeOK
  <1>5. rtb' \in [Frame -> [0 .. PerTable - 1 -> Nat]]
        /\ \A g \in Frame : g # f => rtb'[g] = rtb[g]
    BY <1>1 DEF PhysInv, TypeOK, Blank
  <1>6. TypeOK' /\ OnlyHolds(p)
    BY <1>1, <1>2, <1>4, <1>5 DEF PhysInv, TypeOK, OnlyHolds
  <1>7. hold'[p][f] = hold[p][f] - 0 /\ Owned(f) <= MaxRefs /\ frame[p] = None
    BY <1>1, <1>3 DEF PhysInv, Proper, PhysMemAssumption
  <1>8. Sole(p)'
    BY <1>1, <1>3, <1>4 DEF Sole, OnlyMoves
  <1>9. /\ \A q \in Proc : Proper(q)'
        /\ Turns' /\ Bounded'
        /\ \A g \in Frame : References(g)' = References(g)
        /\ \A l \in Tables : /\ Live(l)' <=> Live(l)
                             /\ At(p, {"tally"}, l)' <=> At(p, {"tally"}, l)
                             /\ At(p, {"dealloc", "untally"}, l)' <=> At(p, {"dealloc", "untally"}, l)
                             /\ ~At(p, {"tally"}, l)
        /\ \A q \in Proc : Drops(q)' <=> Drops(q)
    BY <1>1, <1>2, <1>3, <1>4, <1>6, <1>7, <1>8, Begins
  <1>10. \A g \in Frame : Held(g)' <=> (Held(g) \/ g = f)
    <2> TAKE g \in Frame
    <2>1. frame[p] # g
      BY <1>7, Places
    <2> QED
      BY <1>1, <1>4, <2>1 DEF Held, OnlyMoves
  <1>11. Placed'
    <2>1. PICK use : Lies(use)
      BY DEF PhysInv, Placed
    <2> DEFINE what == <<"held", 0>>
    <2>2. /\ what # <<"free", 0>> /\ what = <<"held", 0>>
          /\ \A l \in Tables : what # <<"table", l>>
          /\ \A q \in Proc : what # <<"drop", q>>
      OBVIOUS
    <2> HIDE DEF what
    <2>3. \A q \in Proc : Drops(q) => tab[q] # f
      BY <1>2, FreeOnes
    <2> QED
      BY <1>1, <1>2, <1>3, <1>9, <1>10, <2>1, <2>2, <2>3, LiesChange
  <1>12. ASSUME NEW l \in Tables PROVE ExactAt(l)'
    <2>1. Live(l) => refs[l].fr \in Frame
      BY DEF PhysInv, Placed, Lies
    <2> QED
      BY <1>1, <1>3, <1>4, <1>5, <1>6, <1>9, <2>1, ExactKept
  <1> QED
    BY <1>2, <1>6, <1>9, <1>11, <1>12 DEF PhysInv

\* A table that nothing is counted in is not the first, so that who works on its frames is alone.
LEMMA AloneThere ==
    ASSUME PhysMemAssumption, PhysInv, NEW p \in Proc, pc[p] \notin {"idle", "dropTable"},
           refs[Ridx(frame[p])].cnt = 0
    PROVE  /\ Ridx(frame[p]) # 0
           /\ \A q \in Proc : q # p /\ frame[q] # None => Ridx(frame[q]) # Ridx(frame[p])
  <1>1. Ridx(frame[p]) # 0
    BY FirstTable
  <1>2. frame[p] # None
    BY Working
  <1> QED
    BY <1>1, <1>2 DEF PhysInv, Turns

\* A core makes a table.
LEMMA StoreOK ==
    ASSUME PhysMemAssumption, PhysInv, NEW p \in Proc, Store(p)
    PROVE  PhysInv'
  <1>a. PICK k : k = Ridx(frame[p])
    OBVIOUS
  <1>b. PICK t : t = Top
    OBVIOUS
  <1>1. /\ pc[p] = "store" /\ Goto(p, "look") /\ UnsafeAlloc /\ Proper(p)
        /\ refs' = [refs EXCEPT ![k] = [fr |-> t, cnt |-> 0]] /\ rtb' = [rtb EXCEPT ![t] = Blank]
        /\ UNCHANGED <<hold, frame, tab>>
    BY <1>a, <1>b DEF Store, UnsafeAlloc, Zeroed, PhysInv
  <1>2. /\ t \in Frame /\ t \in Free /\ avail' \in Nat /\ avail' <= NFrames
        /\ freeList' \in Seq(Frame) /\ Listed' /\ Free' = Free \ {t}
    BY <1>1, <1>b, Taken DEF PhysInv
  <1>3. /\ frame[p] \in Frame /\ frame[p] # None /\ frame[p] # 0 /\ k \in Tables
        /\ refs[k].cnt = 0 /\ Sole(p)
    BY <1>1, <1>a, Working DEF Proper
  <1>4. \A q \in Proc : q # p /\ frame[q] # None => Ridx(frame[q]) # k
    BY <1>1, <1>3, <1>a, AloneThere
  <1>5. /\ pc'[p] = "look" /\ pc' \in [Proc -> Pcs \ {"panic"}] /\ OnlyMoves(p) /\ OnlyHolds(p)
    BY <1>1, Goes DEF Pcs, OnlyMoves, OnlyHolds
  <1>6. /\ rtb' \in [Frame -> [0 .. PerTable - 1 -> Nat]]
        /\ \A g \in Frame : g # t => rtb'[g] = rtb[g]
        /\ \A o \in 0 .. PerTable - 1 : rtb'[t][o] = 0
    BY <1>1, <1>2 DEF PhysInv, TypeOK, Blank
  <1>7. /\ refs' \in [Tables -> [fr : Frame \cup {None}, cnt : Nat]]
        /\ refs'[k].fr = t /\ refs'[k].cnt = 0 /\ \A l \in Tables : l # k => refs'[l] = refs[l]
    BY <1>1, <1>2, <1>3 DEF PhysInv, TypeOK
  <1>8. TypeOK'
    BY <1>1, <1>2, <1>5, <1>6, <1>7 DEF PhysInv, TypeOK
  <1>9. ~Live(k) /\ Live(k)' /\ \A l \in Tables : l # k => (Live(l)' <=> Live(l))
    <2>1. ~Live(k)
      BY <1>a, <1>1, <1>3, <1>4 DEF Live, At
    <2>2. Live(k)'
      BY <1>a, <1>1, <1>3, <1>5 DEF Live, At
    <2>3. ASSUME NEW l \in Tables, l # k PROVE Live(l)' <=> Live(l)
      <3>1. At(p, {"look", "add", "tally"}, l)' <=> At(p, {"look", "add", "tally"}, l)
        BY <1>a, <1>1, <2>3 DEF At
      <3> QED
        BY <1>5, <1>7, <2>3, <3>1, LiveKept
    <2> QED
      BY <2>1, <2>2, <2>3
  <1>10. Placed'
    <2>1. \A g \in Frame : Held(g)' <=> Held(g)
      BY <1>1, <1>5, HeldKept
    <2>2. \A q \in Proc : Drops(q)' <=> Drops(q)
      BY <1>1, <1>5 DEF Drops, OnlyMoves
    <2>3. PICK use : Lies(use)
      BY DEF PhysInv, Placed
    <2> DEFINE what == <<"table", k>>
    <2>4. /\ what # <<"free", 0>> /\ what # <<"held", 0>>
          /\ \A l \in Tables : what = <<"table", l>> <=> l = k
          /\ \A q \in Proc : what # <<"drop", q>>
      OBVIOUS
    <2> HIDE DEF what
    <2>5. /\ ~Held(t) /\ \A l \in Tables : Live(l) => refs[l].fr # t
          /\ \A q \in Proc : Drops(q) => tab[q] # t
      BY <1>2, FreeOnes
    <2> QED
      BY <1>1, <1>2, <1>3, <1>7, <1>9, <2>1, <2>2, <2>3, <2>4, <2>5, LiesChange
  <1>11. Proper(p)'
    <2>1. Sole(p)'
      BY <1>1, <1>3, <1>5 DEF Sole, OnlyMoves
    <2> QED
      BY <1>a, <1>1, <1>3, <1>5, <2>1 DEF Proper
  <1>12. ASSUME NEW q \in Proc, q # p PROVE Proper(q)'
    <2>1. Proper(q) /\ hold'[q][0] = 0
      BY <1>1 DEF PhysInv, Proper
    <2>2. pc[q] # "untally" /\ Sole(q) => Sole(q)'
      <3>1. Sole(q) => frame[p] # frame[q]
        BY <1>1, <1>12 DEF Sole
      <3> QED
        BY <1>1, <1>5, <1>12, <3>1, SoleKept
    <2>3. frame[q] # None => refs'[Ridx(frame[q])] = refs[Ridx(frame[q])]
      <3> SUFFICES ASSUME frame[q] # None PROVE refs'[Ridx(frame[q])] = refs[Ridx(frame[q])]
        OBVIOUS
      <3>1. frame[q] \in Frame
        BY DEF PhysInv, TypeOK
      <3>2. Ridx(frame[q]) # k /\ Ridx(frame[q]) \in Tables
        BY <1>4, <1>12, <3>1, Places
      <3> QED
        BY <1>7, <3>2
    <2> QED
      BY <1>1, <1>5, <1>8, <1>12, <2>1, <2>2, <2>3, ProperKept
  <1>13. Turns'
    BY <1>1, <1>5, TurnsKept
  <1>14. \A g \in Frame : References(g)' = References(g)
    BY <1>1, <1>5, <1>8, ReferencesKept DEF Weighs, PhysInv
  <1>15. ExactAt(k)'
    <2>1. \A g \in Frame : Ridx(g) = k => rtb'[refs'[k].fr][Rofs(g)] = References(g)'
      BY <1>3, <1>6, <1>7, <1>9, <1>14, Places DEF PhysInv, ExactAt
    <2>2. Tallied(k)' = {}
      BY <1>6, <1>7 DEF Tallied
    <2>3. Leaving(k)' = {}
      BY <1>a, <1>1, <1>4, <1>5 DEF Leaving, DoingIn, OnlyMoves
    <2>4. refs'[k].cnt = Cardinality(Tallied(k)') + Cardinality(Leaving(k)')
      BY <1>7, <2>2, <2>3, FS_EmptySet
    <2> QED
      BY <1>9, <2>1, <2>4 DEF ExactAt
  <1>16. ASSUME NEW l \in Tables, l # k PROVE ExactAt(l)'
    <2>1. Live(l) => refs[l].fr \in Frame /\ refs[l].fr # t
      <3>1. Live(l) => refs[l].fr \in Frame
        BY DEF PhysInv, Placed, Lies
      <3> QED
        BY <1>2, <3>1, FreeOnes
    <2>2. /\ At(p, {"tally"}, l)' <=> At(p, {"tally"}, l)
          /\ At(p, {"dealloc", "untally"}, l)' <=> At(p, {"dealloc", "untally"}, l)
      BY <1>a, <1>1, <1>16 DEF At
    <2> QED
      BY <1>1, <1>5, <1>6, <1>7, <1>8, <1>9, <1>14, <1>16, <2>1, <2>2, ExactKept
  <1>17. Bounded'
    <2>1. \A g \in Frame : hold[p][g] \in Nat
      BY DEF PhysInv, TypeOK
    <2>2. \A g \in Frame : Asks(pc'[p], frame'[p], g) = Asks(pc[p], frame[p], g)
                           /\ Asks(pc[p], frame[p], g) \in Nat
      BY <1>1, <1>5 DEF Asks, Calls
    <2> QED
      BY <1>1, <1>5, <1>8, <2>1, <2>2, BoundedKept
  <1> QED
    BY <1>2, <1>8, <1>10, <1>11, <1>12, <1>13, <1>15, <1>16, <1>17 DEF PhysInv

\* A table in use lies in a frame of its own.
LEMMA TablesApart ==
    ASSUME PhysInv, NEW k \in Tables, Live(k)
    PROVE  /\ refs[k].fr \in Frame
           /\ \A l \in Tables : Live(l) /\ l # k => refs[l].fr # refs[k].fr
  <1>1. PICK use : Lies(use)
    BY DEF PhysInv, Placed
  <1>2. refs[k].fr \in Frame /\ use[refs[k].fr] = <<"table", k>>
    BY <1>1 DEF Lies
  <1>3. \A l \in Tables : Live(l) => use[refs[l].fr] = <<"table", l>>
    BY <1>1 DEF Lies
  <1> QED
    BY <1>2, <1>3

\* The other tables, when p works on a frame of table k.
LEMMA ExactElsewhere ==
    ASSUME PhysMemAssumption, PhysInv, TypeOK', NEW p \in Proc, OnlyMoves(p),
           NEW k \in Tables, NEW l \in Tables, l # k, Live(k),
           frame[p] # None => Ridx(frame[p]) = k, frame'[p] \in {frame[p], None},
           refs'[l] = refs[l],
           \A g \in Frame : g # refs[k].fr => rtb'[g] = rtb[g],
           \A g \in Frame : Ridx(g) = l => References(g)' = References(g)
    PROVE  ExactAt(l)' /\ (Live(l)' <=> Live(l))
  <1>1. \A S : ~At(p, S, l)' /\ ~At(p, S, l)
    BY DEF At
  <1>2. Live(l)' <=> Live(l)
    BY <1>1, LiveKept
  <1>3. Live(l) => rtb'[refs[l].fr] = rtb[refs[l].fr]
    BY TablesApart
  <1>4. ExactAt(l)'
    BY <1>1, <1>2, <1>3, ExactKept
  <1> QED
    BY <1>2, <1>4

\* The table that has the count p writes.
LEMMA ExactHere ==
    ASSUME PhysMemAssumption, PhysInv, NEW k \in Tables, Live(k), Live(k)',
           refs'[k].fr = refs[k].fr, NEW f \in Frame, Ridx(f) = k,
           rtb'[refs[k].fr][Rofs(f)] = References(f)',
           \A o \in 0 .. PerTable - 1 : o # Rofs(f) => rtb'[refs[k].fr][o] = rtb[refs[k].fr][o],
           \A g \in Frame : g # f => References(g)' = References(g),
           refs'[k].cnt = Cardinality(Tallied(k)') + Cardinality(Leaving(k)')
    PROVE  ExactAt(k)'
  <1>1. ASSUME NEW g \in Frame, Ridx(g) = k PROVE rtb'[refs'[k].fr][Rofs(g)] = References(g)'
    <2>1. rtb[refs[k].fr][Rofs(g)] = References(g)
      BY <1>1 DEF PhysInv, ExactAt
    <2>2. g = f \/ (Rofs(g) # Rofs(f) /\ Rofs(g) \in 0 .. PerTable - 1)
      BY <1>1, Places
    <2> QED
      BY <2>1, <2>2
  <1> QED
    BY <1>1 DEF ExactAt

\* What is known of a core that counts: its table is in use, and its count exact.
LEMMA Counting ==
    ASSUME PhysMemAssumption, PhysInv, NEW p \in Proc, pc[p] \in {"add", "tally", "sub"}
    PROVE  /\ Live(Ridx(frame[p])) /\ tab[p] = refs[Ridx(frame[p])].fr /\ tab[p] \in Frame
           /\ rtb[tab[p]][Rofs(frame[p])] = References(frame[p])
           /\ References(frame[p]) \in Nat
           /\ Rofs(frame[p]) \in Tallied(Ridx(frame[p])) <=>
                  References(frame[p]) > 0 /\ \A q \in Proc : ~(pc[q] = "tally" /\ frame[q] = frame[p])
           /\ IsFiniteSet(Tallied(Ridx(frame[p])))
           /\ refs[Ridx(frame[p])].cnt = Cardinality(Tallied(Ridx(frame[p])))
                                         + Cardinality(Leaving(Ridx(frame[p])))
  <1>a. PICK f : f = frame[p]
    OBVIOUS
  <1>b. PICK k : k = Ridx(f)
    OBVIOUS
  <1>1. /\ f \in Frame /\ f # None /\ k \in Tables /\ Rofs(f) \in 0 .. PerTable - 1
        /\ Proper(p)
    BY <1>a, <1>b, Working DEF PhysInv
  <1>2. tab[p] = refs[k].fr
    BY <1>a, <1>b, <1>1 DEF Proper
  <1>3. References(f) \in Nat
    <2>1. Cardinality(Doing({"tally", "rent", "sub"}, f)) \in Nat
      BY CountPart DEF Doing, PhysMemAssumption
    <2>2. Owned(f) \in Nat
      BY <1>1, OwnedNat DEF PhysInv
    <2> QED
      BY <2>1, <2>2 DEF References
  <1>4. Live(k)
    <2>1. CASE pc[p] \in {"add", "tally"}
      BY <1>a, <1>b, <1>1, <2>1 DEF Live, At
    <2>2. CASE pc[p] = "sub"
      <3>1. Cardinality(Doing({"tally", "rent", "sub"}, f)) > 0
        <4>1. p \in Doing({"tally", "rent", "sub"}, f)
          BY <1>a, <2>2 DEF Doing
        <4>2. /\ Cardinality(Doing({"tally", "rent", "sub"}, f)) \in Nat
              /\ Cardinality(Doing({"tally", "rent", "sub"}, f)) # 0
          BY <4>1, CountPart DEF Doing, PhysMemAssumption
        <4> QED
          BY <4>2
      <3>2. Cardinality(Doing({"tally", "rent", "sub"}, f)) \in Nat /\ Owned(f) \in Nat
        BY <1>1, OwnedNat, CountPart DEF Doing, PhysMemAssumption, PhysInv
      <3>3. References(f) > 0
        BY <3>1, <3>2 DEF References
      <3> QED
        BY <1>b, <1>1, <3>3 DEF PhysInv, ExactAt
    <2> QED
      BY <2>1, <2>2
  <1>5. refs[k].fr \in Frame
    BY <1>1, <1>4, TablesApart
  <1>6. /\ rtb[refs[k].fr][Rofs(f)] = References(f)
        /\ refs[k].cnt = Cardinality(Tallied(k)) + Cardinality(Leaving(k))
    BY <1>b, <1>1, <1>4 DEF PhysInv, ExactAt
  <1>7. Rofs(f) \in Tallied(k) <=>
            References(f) > 0 /\ \A q \in Proc : ~(pc[q] = "tally" /\ frame[q] = f)
    <2>1. ASSUME NEW q \in Proc
          PROVE  At(q, {"tally"}, k) /\ Rofs(frame[q]) = Rofs(f) <=> pc[q] = "tally" /\ frame[q] = f
      <3>1. frame[q] \in Frame \cup {None}
        BY DEF PhysInv, TypeOK
      <3> QED
        BY <1>b, <1>1, <3>1, Places DEF At
    <2> QED
      BY <1>1, <1>6, <2>1 DEF Tallied
  <1>8. IsFiniteSet(Tallied(k))
    <2>1. Tallied(k) \subseteq 0 .. PerTable - 1 /\ IsFiniteSet(0 .. PerTable - 1)
      BY FS_Interval DEF Tallied, PhysMemAssumption
    <2> QED
      BY <2>1, FS_Subset
  <1> QED
    BY <1>a, <1>b, <1>2, <1>3, <1>4, <1>5, <1>6, <1>7, <1>8

\* A step of one core on the frame it works on, and, of one core's references, on those to it.
LEMMA Others ==
    ASSUME PhysMemAssumption, PhysInv, TypeOK', NEW p \in Proc, OnlyMoves(p),
           NEW f \in Frame, f = frame[p], frame'[p] \in {f, None},
           pc[p] # "untally", frame'[p] = f => pc'[p] # "untally",
           NEW r \in Proc, OnlyHolds(r), \A g \in Frame : g # f => hold'[r][g] = hold[r][g],
           hold'[r][f] >= hold[r][f],
           \A q \in Proc : q # p => tab'[q] = tab[q],
           refs'[Ridx(f)].fr = refs[Ridx(f)].fr,
           refs'[Ridx(f)].cnt = 0 <=> refs[Ridx(f)].cnt = 0,
           \A l \in Tables : l # Ridx(f) => refs'[l] = refs[l]
    PROVE  /\ \A q \in Proc : q # p => Proper(q)'
           /\ hold'[p][0] = 0
           /\ \A g \in Frame : g # f => (Held(g)' <=> Held(g))
           /\ Held(f)
  <1>1. f # 0 /\ f # None /\ Ridx(f) \in Tables
    BY Places DEF PhysInv, Proper
  <1>2. \A q \in Proc : hold'[q][0] = 0
    BY <1>1, Places DEF PhysInv, Proper, OnlyHolds
  <1>3. ASSUME NEW q \in Proc, q # p PROVE Proper(q)'
    <2>1. Sole(q) => frame[q] # f
      BY <1>3 DEF Sole
    <2>2. CASE frame[q] = None
      BY <1>2, <1>3, <2>2, ProperKept
    <2>3. CASE frame[q] # None
      <3>1. frame[q] \in Frame /\ Ridx(frame[q]) \in Tables
        BY <2>3, Places DEF PhysInv, TypeOK
      <3>2. /\ refs'[Ridx(frame[q])].fr = refs[Ridx(frame[q])].fr
            /\ refs'[Ridx(frame[q])].cnt = 0 <=> refs[Ridx(frame[q])].cnt = 0
        BY <3>1
      <3>3. refs'[Ridx(frame[q])].cnt \in Nat /\ refs[Ridx(frame[q])].cnt \in Nat
        BY <3>1 DEF PhysInv, TypeOK
      <3>4. hold[q][frame[q]] > 0 => hold'[q][frame[q]] > 0
        <4>1. /\ \A g \in Frame : hold'[q][g] = hold[q][g] \/ (q = r /\ g = f)
              /\ hold[r][f] \in Nat /\ hold'[r][f] \in Nat
          <5>1. hold[r][f] \in Nat /\ hold'[r][f] \in Nat
            BY DEF PhysInv, TypeOK
          <5>2. q # r => hold'[q] = hold[q]
            BY DEF OnlyHolds
          <5>3. \A g \in Frame : hold'[q][g] = hold[q][g] \/ (q = r /\ g = f)
            BY <5>2
          <5> QED
            BY <5>1, <5>3
        <4> QED
          BY <3>1, <4>1
      <3>5. Sole(q) => Sole(q)'
        <4> SUFFICES ASSUME Sole(q) PROVE Sole(q)'
          OBVIOUS
        <4>1. \A s \in Proc : hold'[s][frame[q]] = hold[s][frame[q]]
          BY <2>1, <3>1 DEF OnlyHolds
        <4>2. frame'[p] = frame[q] => pc'[p] = "untally"
          BY <2>1, <2>3
        <4> QED
          BY <1>3, <4>1, <4>2, SoleKept
      <3>6. /\ refs'[Ridx(frame[q])].cnt > 0 <=> refs[Ridx(frame[q])].cnt > 0
        BY <3>2, <3>3
      <3> QED
        BY <1>2, <1>3, <3>2, <3>4, <3>5, <3>6, ProperKept
    <2> QED
      BY <2>2, <2>3
  <1>4. Held(f)
    BY DEF Held
  <1>5. ASSUME NEW g \in Frame, g # f PROVE Held(g)' <=> Held(g)
    <2>1. \A q \in Proc : hold'[q][g] = hold[q][g]
      BY <1>5 DEF OnlyHolds
    <2>2. frame[p] # g /\ frame'[p] # g
      BY <1>5, Places
    <2>3. \A q \in Proc : frame'[q] = g /\ pc'[q] # "untally" <=> frame[q] = g /\ pc[q] # "untally"
      BY <2>2 DEF OnlyMoves
    <2> QED
      BY <2>1, <2>3 DEF Held
  <1> QED
    BY <1>2, <1>3, <1>4, <1>5

\* A count is written.
LEMMA Written ==
    ASSUME rtb \in [Frame -> [0 .. PerTable - 1 -> Nat]],
           NEW t \in Frame, NEW o \in 0 .. PerTable - 1, NEW n \in Nat,
           rtb' = [rtb EXCEPT ![t][o] = n]
    PROVE  /\ rtb' \in [Frame -> [0 .. PerTable - 1 -> Nat]]
           /\ rtb'[t][o] = n
           /\ \A i \in 0 .. PerTable - 1 : i # o => rtb'[t][i] = rtb[t][i]
           /\ \A g \in Frame : g # t => rtb'[g] = rtb[g]
  OBVIOUS

\* incref counts a reference: the first one is still to be tallied, another is handed over.
LEMMA AddOK ==
    ASSUME PhysMemAssumption, PhysInv, NEW p \in Proc, Add(p)
    PROVE  PhysInv'
  <1>a. PICK f : f = frame[p]
    OBVIOUS
  <1>b. PICK k : k = Ridx(f)
    OBVIOUS
  <1>c. PICK c : c = rtb[tab[p]][Rofs(f)]
    OBVIOUS
  <1>1. /\ pc[p] = "add" /\ Proper(p)
        /\ rtb' = [rtb EXCEPT ![tab[p]][Rofs(f)] = c + 1]
        /\ UNCHANGED <<avail, freeList, refs>>
    BY <1>a, <1>c DEF Add, Counted, PhysInv
  <1>2. /\ f \in Frame /\ f # None /\ f # 0 /\ k \in Tables /\ Rofs(f) \in 0 .. PerTable - 1
    BY <1>1, <1>a, <1>b, Working
  <1>3. /\ Live(k) /\ tab[p] = refs[k].fr /\ tab[p] \in Frame
        /\ c = References(f) /\ c \in Nat
        /\ Rofs(f) \in Tallied(k) <=>
              c > 0 /\ \A q \in Proc : ~(pc[q] = "tally" /\ frame[q] = f)
        /\ refs[k].cnt = Cardinality(Tallied(k)) + Cardinality(Leaving(k))
    BY <1>1, <1>a, <1>b, <1>c, Counting
  <1>4. /\ rtb' \in [Frame -> [0 .. PerTable - 1 -> Nat]]
        /\ rtb'[refs[k].fr][Rofs(f)] = c + 1
        /\ \A o \in 0 .. PerTable - 1 : o # Rofs(f) => rtb'[refs[k].fr][o] = rtb[refs[k].fr][o]
        /\ \A g \in Frame : g # refs[k].fr => rtb'[g] = rtb[g]
    <2>1. PICK t \in Frame : t = tab[p]
      BY <1>3
    <2>2. rtb \in [Frame -> [0 .. PerTable - 1 -> Nat]] /\ c + 1 \in Nat
      BY <1>3 DEF PhysInv, TypeOK
    <2>3. rtb' = [rtb EXCEPT ![t][Rofs(f)] = c + 1]
      BY <1>1, <2>1
    <2>4. /\ rtb' \in [Frame -> [0 .. PerTable - 1 -> Nat]]
          /\ rtb'[t][Rofs(f)] = c + 1
          /\ \A o \in 0 .. PerTable - 1 : o # Rofs(f) => rtb'[t][o] = rtb[t][o]
          /\ \A g \in Frame : g # t => rtb'[g] = rtb[g]
      BY <1>2, <2>2, <2>3, Written
    <2> QED
      BY <1>3, <2>1, <2>4
  <1>5. \A q \in Proc : ~(pc[q] = "tally" /\ frame[q] = f)
    BY <1>1, <1>a DEF PhysInv, Proper, Sole
  <1>6. Listed' /\ Free' = Free
    BY <1>1 DEF PhysInv, Listed, Free
  <1>7. CASE c = 0
    <2>1. Goto(p, "tally") /\ UNCHANGED <<hold, frame, tab>>
      BY <1>7, <1>a, <1>c DEF Add, First
    <2>2. /\ pc'[p] = "tally" /\ pc' \in [Proc -> Pcs \ {"panic"}] /\ OnlyMoves(p) /\ OnlyHolds(p)
      BY <2>1, Goes DEF Pcs, OnlyMoves, OnlyHolds
    <2>3. TypeOK'
      BY <1>1, <1>4, <2>1, <2>2 DEF PhysInv, TypeOK
    <2>4. \A l \in Tables : Live(l)' <=> Live(l)
      <3> TAKE l \in Tables
      <3>1. At(p, {"look", "add", "tally"}, l)' <=> At(p, {"look", "add", "tally"}, l)
        BY <1>1, <2>1, <2>2 DEF At
      <3> QED
        BY <1>1, <2>2, <3>1, LiveKept
    <2>5. /\ \A q \in Proc : q # p => Proper(q)'
          /\ \A g \in Frame : g # f => (Held(g)' <=> Held(g))
          /\ Held(f)
      <3>1. hold'[p][f] >= hold[p][f]
        BY <1>2, <2>1 DEF PhysInv, TypeOK
      <3> QED
        BY <1>1, <1>2, <1>a, <2>1, <2>2, <2>3, <3>1, Others
    <2>6. Placed'
      <3>1. Held(f)'
        BY <1>a, <2>1, <2>2 DEF Held
      <3>2. \A q \in Proc : Drops(q)' <=> Drops(q)
        BY <1>1, <2>2 DEF Drops, OnlyMoves
      <3> QED
        BY <1>1, <1>6, <2>1, <2>4, <2>5, <3>1, <3>2, LiesKept
    <2>7. Proper(p)'
      <3>1. Sole(p)
        <4>1. hold[p][f] > 0 => c > 0
          BY <1>2, <1>3, OwnedCounted
        <4> QED
          BY <1>1, <1>7, <1>a, <4>1 DEF Proper
      <3>2. Sole(p)'
        BY <2>1, <2>2, <3>1 DEF Sole, OnlyMoves
      <3> QED
        BY <1>1, <1>2, <1>3, <1>a, <1>b, <2>1, <2>2, <3>2 DEF Proper
    <2>8. Turns'
      BY <2>1, <2>2, TurnsKept
    <2>9. \A g \in Frame : References(g)' = IF g = f THEN 1 ELSE References(g)
      <3> TAKE g \in Frame
      <3>1. /\ References(g) \in Nat
            /\ References(g)' = References(g) - hold[p][g] + hold'[p][g]
                                - Weighs(pc[p], frame[p], g) + Weighs(pc'[p], frame'[p], g)
        BY <2>2, <2>3, ReferencesChange DEF PhysInv
      <3>2. /\ hold[p][g] \in Nat /\ hold'[p][g] = hold[p][g]
            /\ Weighs(pc[p], frame[p], g) = 0
            /\ Weighs(pc'[p], frame'[p], g) = IF g = f THEN 1 ELSE 0
        BY <1>1, <1>a, <2>1, <2>2 DEF Weighs, PhysInv, TypeOK
      <3>3. References(g)' = References(g) + Weighs(pc'[p], frame'[p], g)
        BY <3>1, <3>2
      <3>4. CASE g = f
        <4>1. References(g) = 0
          BY <1>3, <1>7, <3>4
        <4>2. Weighs(pc'[p], frame'[p], g) = 1
          BY <3>2, <3>4
        <4> QED
          BY <3>3, <3>4, <4>1, <4>2
      <3>5. CASE g # f
        BY <3>1, <3>2, <3>3, <3>5
      <3> QED
        BY <3>4, <3>5
    <2>10. ExactAt(k)'
      <3>1. Tallied(k)' = Tallied(k)
        <4>1. \A q \in Proc : q # p => (At(q, {"tally"}, k)' <=> At(q, {"tally"}, k)) /\ frame'[q] = frame[q]
          BY <2>2 DEF At, OnlyMoves
        <4>2. ~At(p, {"tally"}, k) /\ At(p, {"tally"}, k)' /\ frame'[p] = f
          BY <1>1, <1>2, <1>a, <1>b, <2>1, <2>2 DEF At
        <4>3. refs'[k].fr = refs[k].fr
          BY <1>1
        <4>4. ASSUME NEW o \in 0 .. PerTable - 1, o # Rofs(f) PROVE o \in Tallied(k)' <=> o \in Tallied(k)
          BY <1>4, <4>1, <4>2, <4>3, <4>4 DEF Tallied
        <4>5. Rofs(f) \notin Tallied(k)' /\ Rofs(f) \notin Tallied(k)
          BY <1>3, <1>7, <4>2 DEF Tallied
        <4>6. Tallied(k)' \subseteq 0 .. PerTable - 1 /\ Tallied(k) \subseteq 0 .. PerTable - 1
          BY DEF Tallied
        <4> QED
          BY <4>4, <4>5, <4>6
      <3>2. Cardinality(Leaving(k)') = Cardinality(Leaving(k))
        <4>1. ~At(p, {"dealloc", "untally"}, k) /\ ~At(p, {"dealloc", "untally"}, k)'
          BY <1>1, <2>2 DEF At
        <4> QED
          BY <2>2, <4>1, LeavingChange
      <3>3. refs'[k].cnt = Cardinality(Tallied(k)') + Cardinality(Leaving(k)')
        BY <1>1, <1>3, <3>1, <3>2
      <3>4. rtb'[refs[k].fr][Rofs(f)] = References(f)'
        BY <1>2, <1>4, <1>7, <2>9
      <3>5. \A g \in Frame : g # f => References(g)' = References(g)
        BY <2>9
      <3>6. Live(k)' /\ refs'[k].fr = refs[k].fr
        BY <1>1, <1>2, <1>3, <2>4
      <3> QED
        BY <1>2, <1>3, <1>4, <1>b, <3>3, <3>4, <3>5, <3>6, ExactHere
    <2>11. ASSUME NEW l \in Tables, l # k PROVE ExactAt(l)'
      <3>1. \A g \in Frame : Ridx(g) = l => References(g)' = References(g)
        BY <1>b, <2>9, <2>11
      <3> QED
        BY <1>1, <1>2, <1>3, <1>4, <1>a, <1>b, <2>1, <2>2, <2>3, <2>11, <3>1, ExactElsewhere
    <2>12. Bounded'
      <3>1. \A g \in Frame : /\ Asks(pc'[p], frame'[p], g) = Asks(pc[p], frame[p], g)
                             /\ Asks(pc[p], frame[p], g) \in Nat
                             /\ hold'[p][g] = hold[p][g] /\ hold[p][g] \in Nat
        BY <1>1, <2>1, <2>2 DEF Asks, Calls, PhysInv, TypeOK
      <3> QED
        BY <2>2, <2>3, <3>1, BoundedKept
    <2> QED
      BY <1>6, <2>3, <2>5, <2>6, <2>7, <2>8, <2>10, <2>11, <2>12 DEF PhysInv
  <1>8. CASE c # 0
    <2>1. PICK r \in Proc : /\ Goto(p, "idle") /\ hold' = [hold EXCEPT ![r][f] = @ + 1]
                           /\ frame' = [frame EXCEPT ![p] = None] /\ tab' = [tab EXCEPT ![p] = None]
      BY <1>8, <1>a, <1>c DEF Add, First
    <2>2. /\ pc'[p] = "idle" /\ pc' \in [Proc -> Pcs \ {"panic"}] /\ OnlyMoves(p)
          /\ frame'[p] = None /\ frame' \in [Proc -> Frame \cup {None}]
          /\ tab' \in [Proc -> Frame \cup {None}] /\ \A q \in Proc : q # p => tab'[q] = tab[q]
      BY <2>1, Goes DEF Pcs, OnlyMoves, PhysInv, TypeOK
    <2>3. /\ hold' \in [Proc -> [Frame -> Nat]] /\ OnlyHolds(r)
          /\ hold'[r][f] = hold[r][f] + 1 /\ hold[r][f] \in Nat
          /\ \A g \in Frame : g # f => hold'[r][g] = hold[r][g]
      BY <1>2, <2>1 DEF OnlyHolds, PhysInv, TypeOK
    <2>4. TypeOK'
      BY <1>1, <1>4, <2>2, <2>3 DEF PhysInv, TypeOK
    <2>5. refs[k].cnt > 0
      BY <1>2, <1>3, <1>5, <1>8, <1>b, Tallying
    <2>6. \A l \in Tables : Live(l)' <=> Live(l)
      <3> TAKE l \in Tables
      <3>1. l # k => (At(p, {"look", "add", "tally"}, l)' <=> At(p, {"look", "add", "tally"}, l))
        BY <1>a, <1>b, <2>2 DEF At
      <3> QED
        BY <1>1, <2>2, <2>5, <3>1, LiveKept
    <2>7. /\ \A q \in Proc : q # p => Proper(q)'
          /\ hold'[p][0] = 0
          /\ \A g \in Frame : g # f => (Held(g)' <=> Held(g))
          /\ Held(f)
      <3>1. hold'[r][f] >= hold[r][f]
        BY <2>3
      <3> QED
        BY <1>1, <1>2, <1>a, <2>2, <2>3, <2>4, <3>1, Places, Others
    <2>8. Placed'
      <3>1. Held(f)'
        BY <2>3 DEF Held
      <3>2. \A q \in Proc : Drops(q)' <=> Drops(q)
        BY <1>1, <2>2 DEF Drops, OnlyMoves
      <3>3. \A q \in Proc : Drops(q) => tab'[q] = tab[q]
        BY <1>1, <2>2 DEF Drops
      <3> QED
        BY <1>1, <1>6, <2>6, <2>7, <3>1, <3>2, <3>3, LiesKept
    <2>9. Proper(p)'
      BY <2>2, <2>7, Places DEF Proper
    <2>10. Turns'
      BY <2>2, TurnsKept
    <2>11. \A g \in Frame : References(g)' = IF g = f THEN c + 1 ELSE References(g)
      <3> TAKE g \in Frame
      <3>1. /\ References(g) \in Nat
            /\ References(g)' = References(g) - hold[r][g] + hold'[r][g]
                                - Weighs(pc[p], frame[p], g) + Weighs(pc'[p], frame'[p], g)
        BY <2>2, <2>3, <2>4, ReferencesChange DEF PhysInv
      <3>2. /\ hold[r][g] \in Nat /\ hold'[r][g] = IF g = f THEN hold[r][g] + 1 ELSE hold[r][g]
            /\ Weighs(pc[p], frame[p], g) = 0
            /\ Weighs(pc'[p], frame'[p], g) = 0
        BY <1>1, <2>2, <2>3 DEF Weighs, PhysInv, TypeOK
      <3> QED
        BY <1>3, <3>1, <3>2
    <2>12. ExactAt(k)'
      <3>1. Tallied(k)' = Tallied(k)
        <4>1. \A q \in Proc : q # p => (At(q, {"tally"}, k)' <=> At(q, {"tally"}, k)) /\ frame'[q] = frame[q]
          BY <2>2 DEF At, OnlyMoves
        <4>2. ~At(p, {"tally"}, k) /\ ~At(p, {"tally"}, k)'
          BY <1>1, <2>2 DEF At
        <4>3. refs'[k].fr = refs[k].fr
          BY <1>1
        <4>4. ASSUME NEW o \in 0 .. PerTable - 1 PROVE o \in Tallied(k)' <=> o \in Tallied(k)
          <5>1. rtb'[refs[k].fr][o] > 0 <=> rtb[refs[k].fr][o] > 0
            <6>1. c > 0 /\ c + 1 > 0 /\ rtb[refs[k].fr][Rofs(f)] = c
              BY <1>3, <1>8, <1>c
            <6> QED
              BY <1>4, <6>1
          <5> QED
            BY <4>1, <4>2, <4>3, <5>1 DEF Tallied
        <4>5. Tallied(k)' \subseteq 0 .. PerTable - 1 /\ Tallied(k) \subseteq 0 .. PerTable - 1
          BY DEF Tallied
        <4> QED
          BY <4>4, <4>5
      <3>2. Cardinality(Leaving(k)') = Cardinality(Leaving(k))
        <4>1. ~At(p, {"dealloc", "untally"}, k) /\ ~At(p, {"dealloc", "untally"}, k)'
          BY <1>1, <2>2 DEF At
        <4> QED
          BY <2>2, <4>1, LeavingChange
      <3>3. refs'[k].cnt = Cardinality(Tallied(k)') + Cardinality(Leaving(k)')
        BY <1>1, <1>3, <3>1, <3>2
      <3>4. rtb'[refs[k].fr][Rofs(f)] = References(f)'
        BY <1>2, <1>4, <2>11
      <3>5. \A g \in Frame : g # f => References(g)' = References(g)
        BY <2>11
      <3>6. Live(k)' /\ refs'[k].fr = refs[k].fr
        BY <1>1, <1>2, <1>3, <2>6
      <3> QED
        BY <1>2, <1>3, <1>4, <1>b, <3>3, <3>4, <3>5, <3>6, ExactHere
    <2>13. ASSUME NEW l \in Tables, l # k PROVE ExactAt(l)'
      <3>1. \A g \in Frame : Ridx(g) = l => References(g)' = References(g)
        BY <1>b, <2>11, <2>13
      <3> QED
        BY <1>1, <1>2, <1>3, <1>4, <1>a, <1>b, <2>2, <2>4, <2>13, <3>1, ExactElsewhere
    <2>14. Bounded'
      <3>1. ASSUME NEW g \in Frame
            PROVE hold'[r][g] + Asks(pc'[p], frame'[p], g) <= hold[r][g] + Asks(pc[p], frame[p], g)
        <4>1. /\ Asks(pc'[p], frame'[p], g) = 0
              /\ Asks(pc[p], frame[p], g) = IF g = f THEN 1 ELSE 0
              /\ hold'[r][g] = IF g = f THEN hold[r][g] + 1 ELSE hold[r][g]
              /\ hold[r][g] \in Nat
          BY <1>1, <1>a, <2>2, <2>3 DEF Asks, Calls, PhysInv, TypeOK
        <4> QED
          BY <4>1
      <3> QED
        BY <2>2, <2>3, <2>4, <3>1, BoundedKept
    <2> QED
      BY <1>6, <2>4, <2>7, <2>8, <2>9, <2>10, <2>12, <2>13, <2>14 DEF PhysInv
  <1> QED
    BY <1>7, <1>8

\* A tally is written.
LEMMA TallyWritten ==
    ASSUME refs \in [Tables -> [fr : Frame \cup {None}, cnt : Nat]],
           NEW k \in Tables, NEW n \in Nat, refs' = [refs EXCEPT ![k].cnt = n]
    PROVE  /\ refs' \in [Tables -> [fr : Frame \cup {None}, cnt : Nat]]
           /\ refs'[k].fr = refs[k].fr /\ refs'[k].cnt = n
           /\ \A l \in Tables : l # k => refs'[l] = refs[l]
  OBVIOUS

\* incref tallies a first reference.
LEMMA TallyOK ==
    ASSUME PhysMemAssumption, PhysInv, NEW p \in Proc, Tally(p)
    PROVE  PhysInv'
  <1>a. PICK f : f = frame[p]
    OBVIOUS
  <1>b. PICK k : k = Ridx(f)
    OBVIOUS
  <1>1. /\ pc[p] = "tally" /\ Proper(p) /\ Goto(p, "idle")
        /\ refs' = [refs EXCEPT ![k].cnt = @ + 1] /\ hold' = [hold EXCEPT ![p][f] = @ + 1]
        /\ frame' = [frame EXCEPT ![p] = None] /\ tab' = [tab EXCEPT ![p] = None]
        /\ UNCHANGED <<avail, freeList, rtb>>
    BY <1>a, <1>b DEF Tally, PhysInv
  <1>2. /\ f \in Frame /\ f # None /\ f # 0 /\ k \in Tables /\ Rofs(f) \in 0 .. PerTable - 1
        /\ refs[k].cnt \in Nat /\ Sole(p)
    BY <1>1, <1>a, <1>b, Working DEF Proper
  <1>3. /\ Live(k) /\ rtb[refs[k].fr][Rofs(f)] = References(f)
        /\ Rofs(f) \in Tallied(k) <=>
              References(f) > 0 /\ \A q \in Proc : ~(pc[q] = "tally" /\ frame[q] = f)
        /\ IsFiniteSet(Tallied(k))
        /\ refs[k].cnt = Cardinality(Tallied(k)) + Cardinality(Leaving(k))
    BY <1>1, <1>a, <1>b, Counting
  <1>4. /\ pc'[p] = "idle" /\ pc' \in [Proc -> Pcs \ {"panic"}] /\ OnlyMoves(p)
        /\ frame'[p] = None /\ frame' \in [Proc -> Frame \cup {None}]
        /\ tab' \in [Proc -> Frame \cup {None}] /\ \A q \in Proc : q # p => tab'[q] = tab[q]
    BY <1>1, Goes DEF Pcs, OnlyMoves, PhysInv, TypeOK
  <1>5. /\ hold' \in [Proc -> [Frame -> Nat]] /\ OnlyHolds(p)
        /\ hold'[p][f] = hold[p][f] + 1 /\ hold[p][f] \in Nat
        /\ \A g \in Frame : g # f => hold'[p][g] = hold[p][g]
    BY <1>1, <1>2 DEF OnlyHolds, PhysInv, TypeOK
  <1>6. /\ refs' \in [Tables -> [fr : Frame \cup {None}, cnt : Nat]]
        /\ refs'[k].fr = refs[k].fr /\ refs'[k].cnt = refs[k].cnt + 1
        /\ \A l \in Tables : l # k => refs'[l] = refs[l]
    <2>1. refs \in [Tables -> [fr : Frame \cup {None}, cnt : Nat]] /\ refs[k].cnt + 1 \in Nat
      BY <1>2 DEF PhysInv, TypeOK
    <2>2. refs' = [refs EXCEPT ![k].cnt = refs[k].cnt + 1]
      BY <1>1
    <2> QED
      BY <1>2, <2>1, <2>2, TallyWritten
  <1>7. TypeOK' /\ Listed' /\ Free' = Free
    BY <1>1, <1>4, <1>5, <1>6 DEF PhysInv, TypeOK, Listed, Free
  <1>8. References(f) = 1 /\ \A g \in Frame : References(g)' = References(g)
    <2>1. References(f) = 1
      BY <1>1, <1>2, <1>a, SoleCounts DEF PhysInv
    <2>2. ASSUME NEW g \in Frame PROVE References(g)' = References(g)
      <3>1. /\ References(g) \in Nat
            /\ References(g)' = References(g) - hold[p][g] + hold'[p][g]
                                - Weighs(pc[p], frame[p], g) + Weighs(pc'[p], frame'[p], g)
        BY <1>4, <1>5, <1>7, ReferencesChange DEF PhysInv
      <3>2. /\ hold[p][g] \in Nat /\ hold'[p][g] = hold[p][g] + (IF g = f THEN 1 ELSE 0)
            /\ Weighs(pc[p], frame[p], g) = IF g = f THEN 1 ELSE 0
            /\ Weighs(pc'[p], frame'[p], g) = 0
        BY <1>1, <1>4, <1>5, <1>a DEF Weighs, PhysInv, TypeOK
      <3> QED
        BY <3>1, <3>2
    <2> QED
      BY <2>1, <2>2
  <1>9. Live(k)' /\ \A l \in Tables : Live(l)' <=> Live(l)
    <2>1. Live(k)'
      BY <1>2, <1>6 DEF Live
    <2>2. ASSUME NEW l \in Tables, l # k PROVE Live(l)' <=> Live(l)
      <3>1. At(p, {"look", "add", "tally"}, l)' <=> At(p, {"look", "add", "tally"}, l)
        BY <1>4, <1>a, <1>b, <2>2 DEF At
      <3> QED
        BY <1>4, <1>6, <2>2, <3>1, LiveKept
    <2> QED
      BY <1>3, <2>1, <2>2
  <1>10. /\ \A q \in Proc : q # p => Proper(q)'
         /\ hold'[p][0] = 0
         /\ \A g \in Frame : g # f => (Held(g)' <=> Held(g))
         /\ Held(f)
    <2>1. CASE refs[k].cnt > 0
      <3>1. /\ refs'[k].cnt = 0 <=> refs[k].cnt = 0
            /\ hold'[p][f] >= hold[p][f]
        BY <1>2, <1>5, <1>6, <2>1
      <3> QED
        BY <1>1, <1>2, <1>a, <1>b, <1>4, <1>5, <1>6, <1>7, <3>1, Places, Others
    <2>2. CASE refs[k].cnt = 0
      <3>1. \A q \in Proc : q # p /\ frame[q] # None => Ridx(frame[q]) # k
        BY <1>1, <1>a, <1>b, <2>2, AloneThere
      <3>2. \A q \in Proc : hold'[q][0] = 0
        BY <1>2, <1>5, Places DEF PhysInv, Proper, OnlyHolds
      <3>3. ASSUME NEW q \in Proc, q # p PROVE Proper(q)'
        <4>1. CASE frame[q] = None
          BY <1>4, <1>7, <3>2, <3>3, <4>1, ProperKept
        <4>2. CASE frame[q] # None
          <5>1. /\ frame[q] \in Frame /\ Ridx(frame[q]) \in Tables /\ Ridx(frame[q]) # k
                /\ frame[q] # f
            BY <1>b, <3>1, <3>3, <4>2, Places DEF PhysInv, TypeOK
          <5>2. /\ refs'[Ridx(frame[q])] = refs[Ridx(frame[q])]
                /\ hold'[q][frame[q]] = hold[q][frame[q]]
            BY <1>5, <1>6, <5>1 DEF OnlyHolds
          <5>3. Sole(q) => Sole(q)'
            <6>1. \A s \in Proc : hold'[s][frame[q]] = hold[s][frame[q]]
              BY <1>5, <5>1 DEF OnlyHolds
            <6> QED
              BY <1>4, <3>3, <4>2, <6>1, SoleKept
          <5> QED
            BY <1>4, <1>7, <3>2, <3>3, <5>2, <5>3, ProperKept
        <4> QED
          BY <4>1, <4>2
      <3>4. ASSUME NEW g \in Frame, g # f PROVE Held(g)' <=> Held(g)
        <4>1. \A q \in Proc : hold'[q][g] = hold[q][g]
          BY <1>5, <3>4 DEF OnlyHolds
        <4>2. \A q \in Proc : frame'[q] = g /\ pc'[q] # "untally" <=> frame[q] = g /\ pc[q] # "untally"
          BY <1>4, <1>a, <3>4, Places DEF OnlyMoves
        <4> QED
          BY <4>1, <4>2 DEF Held
      <3>5. Held(f)
        BY <1>1, <1>a DEF Held
      <3> QED
        BY <3>2, <3>3, <3>4, <3>5
    <2> QED
      BY <1>2, <2>1, <2>2
  <1>11. Placed'
    <2>1. Held(f)'
      BY <1>5 DEF Held
    <2>2. \A q \in Proc : Drops(q)' <=> Drops(q)
      BY <1>1, <1>4 DEF Drops, OnlyMoves
    <2>3. \A q \in Proc : Drops(q) => tab'[q] = tab[q]
      BY <1>1, <1>4 DEF Drops
    <2>4. \A l \in Tables : refs'[l].fr = refs[l].fr
      BY <1>6
    <2> QED
      BY <1>7, <1>9, <1>10, <2>1, <2>2, <2>3, <2>4, LiesKept
  <1>12. Proper(p)'
    BY <1>4, <1>10, Places DEF Proper
  <1>13. Turns'
    BY <1>4, TurnsKept
  <1>14. ExactAt(k)'
    <2>1. Tallied(k)' = Tallied(k) \cup {Rofs(f)}
      <3>1. \A q \in Proc : q # p => (At(q, {"tally"}, k)' <=> At(q, {"tally"}, k)) /\ frame'[q] = frame[q]
        BY <1>4 DEF At, OnlyMoves
      <3>2. At(p, {"tally"}, k) /\ ~At(p, {"tally"}, k)'
        BY <1>1, <1>2, <1>4, <1>a, <1>b DEF At
      <3>3. rtb' = rtb /\ refs'[k].fr = refs[k].fr
        BY <1>1, <1>6
      <3>4. ASSUME NEW o \in 0 .. PerTable - 1, o # Rofs(f) PROVE o \in Tallied(k)' <=> o \in Tallied(k)
        BY <1>a, <3>1, <3>2, <3>3, <3>4 DEF Tallied
      <3>5. Rofs(f) \in Tallied(k)'
        <4>1. rtb'[refs'[k].fr][Rofs(f)] > 0
          BY <1>3, <1>8, <3>3
        <4>2. ASSUME NEW q \in Proc, At(q, {"tally"}, k)' PROVE Rofs(frame'[q]) # Rofs(f)
          <5>1. q # p /\ At(q, {"tally"}, k) /\ frame'[q] = frame[q]
            BY <3>1, <3>2, <4>2
          <5>2. pc[q] = "tally" /\ Ridx(frame[q]) = k /\ frame[q] \in Frame
            BY <5>1 DEF At, PhysInv, TypeOK
          <5>3. frame[q] # f
            BY <1>2, <1>a, <5>1, <5>2 DEF Sole
          <5> QED
            BY <1>2, <1>b, <5>1, <5>2, <5>3, Places
        <4> QED
          BY <1>2, <4>1, <4>2 DEF Tallied
      <3>6. Tallied(k)' \subseteq 0 .. PerTable - 1 /\ Tallied(k) \subseteq 0 .. PerTable - 1
        BY DEF Tallied
      <3> QED
        BY <1>2, <3>4, <3>5, <3>6
    <2>2. Rofs(f) \notin Tallied(k)
      BY <1>1, <1>3, <1>a
    <2>3. Cardinality(Tallied(k)') = Cardinality(Tallied(k)) + 1 /\ Cardinality(Tallied(k)) \in Nat
      BY <1>3, <2>1, <2>2, FS_AddElement, FS_CardinalityType
    <2>4. Cardinality(Leaving(k)') = Cardinality(Leaving(k)) /\ Cardinality(Leaving(k)) \in Nat
      <3>1. ~At(p, {"dealloc", "untally"}, k) /\ ~At(p, {"dealloc", "untally"}, k)'
        BY <1>1, <1>4 DEF At
      <3> QED
        BY <1>4, <3>1, LeavingChange
    <2>5. refs'[k].cnt = Cardinality(Tallied(k)') + Cardinality(Leaving(k)')
      BY <1>3, <1>6, <2>3, <2>4
    <2>6. rtb'[refs[k].fr][Rofs(f)] = References(f)'
      BY <1>1, <1>2, <1>3, <1>8
    <2> QED
      BY <1>1, <1>2, <1>3, <1>6, <1>8, <1>9, <1>b, <2>5, <2>6, ExactHere
  <1>15. ASSUME NEW l \in Tables, l # k PROVE ExactAt(l)'
    BY <1>1, <1>2, <1>3, <1>4, <1>6, <1>7, <1>8, <1>15, <1>a, <1>b, ExactElsewhere
  <1>16. Bounded'
    <2>1. ASSUME NEW g \in Frame
          PROVE  hold'[p][g] + Asks(pc'[p], frame'[p], g) <= hold[p][g] + Asks(pc[p], frame[p], g)
      <3>1. /\ Asks(pc'[p], frame'[p], g) = 0
            /\ Asks(pc[p], frame[p], g) = IF g = f THEN 1 ELSE 0
            /\ hold'[p][g] = IF g = f THEN hold[p][g] + 1 ELSE hold[p][g]
            /\ hold[p][g] \in Nat
        BY <1>1, <1>4, <1>5, <1>a DEF Asks, Calls, PhysInv, TypeOK
      <3> QED
        BY <3>1
    <2> QED
      BY <1>4, <1>5, <1>7, <2>1, BoundedKept
  <1> QED
    BY <1>7, <1>10, <1>11, <1>12, <1>13, <1>14, <1>15, <1>16 DEF PhysInv

\* The operations that have a reference to the frame they work on.
LEMMA OneAsks ==
    ASSUME PhysMemAssumption, PhysInv, NEW p \in Proc, pc[p] \in {"tally", "rent", "sub"}
    PROVE  /\ References(frame[p]) \in Nat /\ References(frame[p]) >= 1
           /\ References(frame[p]) <= Claims(frame[p])
           /\ References(frame[p]) = 1 => /\ \A q \in Proc : hold[q][frame[p]] = 0
                                          /\ Doing({"tally", "rent", "sub"}, frame[p]) = {p}
  <1>a. PICK f : f = frame[p]
    OBVIOUS
  <1>b. PICK D : D = Doing({"tally", "rent", "sub"}, f)
    OBVIOUS
  <1>1. f \in Frame /\ f # 0
    BY <1>a, Working
  <1>2. p \in D /\ D \subseteq Proc /\ D \subseteq Doing(Calls, f) /\ Doing(Calls, f) \subseteq Proc
    BY <1>a, <1>b DEF Doing, Calls
  <1>3. IsFiniteSet(D) /\ IsFiniteSet(Doing(Calls, f)) /\ IsFiniteSet(D \ {p})
    BY <1>2, CountPart, FS_RemoveElement DEF PhysMemAssumption
  <1>4. /\ Cardinality(D) \in Nat /\ Cardinality(D) # 0
        /\ Cardinality(D) <= Cardinality(Doing(Calls, f)) /\ Cardinality(Doing(Calls, f)) \in Nat
    BY <1>2, <1>3, CountPart
  <1>5. /\ Cardinality(D \ {p}) = Cardinality(D) - 1
        /\ Cardinality(D \ {p}) = 0 => D \ {p} = {}
    BY <1>2, <1>3, FS_RemoveElement, CountPart
  <1>6. Owned(f) \in Nat /\ (Owned(f) = 0 => \A q \in Proc : hold[q][f] = 0)
    BY <1>1, OwnedNat DEF PhysInv
  <1>7. References(f) = Owned(f) + Cardinality(D) /\ Claims(f) = Owned(f) + Cardinality(Doing(Calls, f))
    BY <1>1, <1>4, <1>6, <1>b DEF References, Claims
  <1>8. References(f) \in Nat /\ References(f) >= 1 /\ References(f) <= Claims(f)
    BY <1>4, <1>6, <1>7
  <1>9. ASSUME References(f) = 1 PROVE (\A q \in Proc : hold[q][f] = 0) /\ D = {p}
    <2>1. Owned(f) = 0 /\ Cardinality(D) = 1
      BY <1>4, <1>6, <1>7, <1>9
    <2> QED
      BY <1>2, <1>5, <1>6, <2>1
  <1> QED
    BY <1>8, <1>9, <1>a, <1>b

\* decref counts a reference less; the operation that gives up the last has the frame to itself.
LEMMA SubOK ==
    ASSUME PhysMemAssumption, Fits, PhysInv, NEW p \in Proc, Sub(p)
    PROVE  PhysInv'
  <1>a. PICK f : f = frame[p]
    OBVIOUS
  <1>b. PICK k : k = Ridx(f)
    OBVIOUS
  <1>c. PICK c : c = rtb[tab[p]][Rofs(f)]
    OBVIOUS
  <1>1. /\ pc[p] = "sub" /\ Proper(p)
        /\ rtb' = [rtb EXCEPT ![tab[p]][Rofs(f)] = (c + MaxCount) % (MaxCount + 1)]
        /\ UNCHANGED <<avail, freeList, refs, hold>>
    BY <1>a, <1>c DEF Sub, PhysInv
  <1>2. /\ f \in Frame /\ f # None /\ f # 0 /\ k \in Tables /\ Rofs(f) \in 0 .. PerTable - 1
    BY <1>1, <1>a, <1>b, Working
  <1>3. /\ Live(k) /\ tab[p] = refs[k].fr /\ tab[p] \in Frame
        /\ c = References(f) /\ c \in Nat
        /\ Rofs(f) \in Tallied(k) <=>
              c > 0 /\ \A q \in Proc : ~(pc[q] = "tally" /\ frame[q] = f)
        /\ IsFiniteSet(Tallied(k))
        /\ refs[k].cnt = Cardinality(Tallied(k)) + Cardinality(Leaving(k))
    BY <1>1, <1>a, <1>b, <1>c, Counting
  <1>4. /\ c >= 1 /\ c <= Claims(f)
        /\ c = 1 => /\ \A q \in Proc : hold[q][f] = 0
                    /\ Doing({"tally", "rent", "sub"}, f) = {p}
    BY <1>1, <1>3, <1>a, OneAsks
  <1>5. c <= MaxCount
    <2>1. Claims(f) <= MaxRefs + Cardinality(Proc)
      BY <1>2 DEF PhysInv, Bounded
    <2>2. Claims(f) \in Nat
      <3>1. Owned(f) \in Nat
        BY <1>2, OwnedNat DEF PhysInv
      <3>2. Cardinality(Doing(Calls, f)) \in Nat
        BY CountPart DEF Doing, PhysMemAssumption
      <3> QED
        BY <3>1, <3>2 DEF Claims
    <2>3. MaxRefs \in Nat /\ Cardinality(Proc) \in Nat
      BY FS_CardinalityType DEF PhysMemAssumption
    <2> HIDE DEF Claims
    <2> QED
      BY <1>3, <1>4, <2>1, <2>2, <2>3 DEF Fits, MaxCount
  <1>6. (c + MaxCount) % (MaxCount + 1) = c - 1
    BY <1>3, <1>4, <1>5 DEF MaxCount
  <1>7. /\ rtb' \in [Frame -> [0 .. PerTable - 1 -> Nat]]
        /\ rtb'[refs[k].fr][Rofs(f)] = c - 1
        /\ \A o \in 0 .. PerTable - 1 : o # Rofs(f) => rtb'[refs[k].fr][o] = rtb[refs[k].fr][o]
        /\ \A g \in Frame : g # refs[k].fr => rtb'[g] = rtb[g]
    <2>1. PICK t \in Frame : t = tab[p]
      BY <1>3
    <2>2. rtb \in [Frame -> [0 .. PerTable - 1 -> Nat]] /\ c - 1 \in Nat
      <3>1. rtb \in [Frame -> [0 .. PerTable - 1 -> Nat]]
        BY DEF PhysInv, TypeOK
      <3>2. c \in Nat /\ c >= 1
        BY <1>3, <1>4
      <3> QED
        BY ONLY <3>1, <3>2
    <2>3. rtb' = [rtb EXCEPT ![t][Rofs(f)] = c - 1]
      BY <1>1, <1>6, <2>1
    <2>4. /\ rtb' \in [Frame -> [0 .. PerTable - 1 -> Nat]]
          /\ rtb'[t][Rofs(f)] = c - 1
          /\ \A o \in 0 .. PerTable - 1 : o # Rofs(f) => rtb'[t][o] = rtb[t][o]
          /\ \A g \in Frame : g # t => rtb'[g] = rtb[g]
      BY <1>2, <2>2, <2>3, Written
    <2> QED
      BY <1>3, <2>1, <2>4
  <1>8. \A q \in Proc : ~(pc[q] = "tally" /\ frame[q] = f)
    BY <1>1, <1>a DEF PhysInv, Proper, Sole
  <1>9. /\ refs[k].cnt > 0 /\ refs[k].cnt \in Nat
        /\ Rofs(f) \in Tallied(k)
    <2>1. References(f) > 0 /\ c > 0
      BY <1>3, <1>4
    <2>2. refs[k].cnt > 0
      BY <1>2, <1>8, <1>b, <2>1, Tallying
    <2>3. refs[k].cnt \in Nat
      BY <1>2 DEF PhysInv, TypeOK
    <2> QED
      BY <1>3, <1>8, <2>1, <2>2, <2>3
  <1>10. /\ pc'[p] \in {"dealloc", "idle"} /\ pc' \in [Proc -> Pcs \ {"panic"}] /\ OnlyMoves(p)
         /\ frame' \in [Proc -> Frame \cup {None}] /\ tab' \in [Proc -> Frame \cup {None}]
         /\ \A q \in Proc : q # p => tab'[q] = tab[q]
         /\ IF c = 1 THEN pc'[p] = "dealloc" /\ frame'[p] = f ELSE pc'[p] = "idle" /\ frame'[p] = None
         /\ OnlyHolds(p)
    <2>1. CASE c = 1
      <3>1. Goto(p, "dealloc") /\ UNCHANGED <<frame, tab>>
        BY <2>1, <1>a, <1>c DEF Sub, Last
      <3> QED
        BY <1>1, <1>a, <2>1, <3>1, Goes DEF Pcs, OnlyMoves, OnlyHolds, PhysInv, TypeOK
    <2>2. CASE c # 1
      <3>1. /\ Goto(p, "idle") /\ frame' = [frame EXCEPT ![p] = None]
            /\ tab' = [tab EXCEPT ![p] = None]
        BY <2>2, <1>a, <1>c DEF Sub, Last
      <3> QED
        BY <1>1, <2>2, <3>1, Goes DEF Pcs, OnlyMoves, OnlyHolds, PhysInv, TypeOK
    <2> QED
      BY <2>1, <2>2
  <1>11. TypeOK' /\ Listed' /\ Free' = Free
    BY <1>1, <1>7, <1>10 DEF PhysInv, TypeOK, Listed, Free
  <1>12. \A l \in Tables : Live(l)' <=> Live(l)
    <2> TAKE l \in Tables
    <2>1. At(p, {"look", "add", "tally"}, l)' <=> At(p, {"look", "add", "tally"}, l)
      BY <1>1, <1>10 DEF At
    <2> QED
      BY <1>1, <1>10, <2>1, LiveKept
  <1>13. /\ \A q \in Proc : q # p => Proper(q)'
         /\ hold'[p][0] = 0
         /\ \A g \in Frame : g # f => (Held(g)' <=> Held(g))
         /\ Held(f)
    <2>1. hold'[p][f] >= hold[p][f]
      BY <1>1, <1>2 DEF PhysInv, TypeOK
    <2>2. frame'[p] = f => pc'[p] # "untally"
      BY <1>10
    <2> QED
      BY <1>1, <1>2, <1>a, <1>10, <1>11, <2>1, <2>2, Others
  <1>14. \A g \in Frame : References(g)' = IF g = f THEN c - 1 ELSE References(g)
    <2> TAKE g \in Frame
    <2>1. /\ References(g) \in Nat
          /\ References(g)' = References(g) - hold[p][g] + hold'[p][g]
                              - Weighs(pc[p], frame[p], g) + Weighs(pc'[p], frame'[p], g)
      BY <1>10, <1>11, ReferencesChange DEF PhysInv
    <2>2. /\ hold[p][g] \in Nat /\ hold'[p][g] = hold[p][g]
          /\ Weighs(pc[p], frame[p], g) = IF g = f THEN 1 ELSE 0
          /\ Weighs(pc'[p], frame'[p], g) = 0
      BY <1>1, <1>10, <1>a DEF Weighs, PhysInv, TypeOK
    <2>3. References(g)' = References(g) - Weighs(pc[p], frame[p], g)
      BY <2>1, <2>2
    <2>4. CASE g = f
      <3>1. References(g) = c
        BY <1>3, <2>4
      <3>2. Weighs(pc[p], frame[p], g) = 1
        BY <2>2, <2>4
      <3> QED
        BY <2>3, <2>4, <3>1, <3>2
    <2>5. CASE g # f
      BY <2>1, <2>2, <2>3, <2>5
    <2> QED
      BY <2>4, <2>5
  <1>15. Held(f)'
    <2>1. CASE c = 1
      BY <1>10, <2>1 DEF Held
    <2>2. CASE c # 1
      <3>1. PICK q \in Proc : hold[q][f] > 0 \/ (q # p /\ q \in Doing({"tally", "rent", "sub"}, f))
        <4>1. References(f) # 1
          BY <1>3, <2>2
        <4>2. CASE \E q \in Proc : hold[q][f] # 0
          BY <1>2, <4>2 DEF PhysInv, TypeOK
        <4>3. CASE \A q \in Proc : hold[q][f] = 0
          <5>1. Owned(f) = 0
            BY <1>2, <4>3, OwnedNat DEF PhysInv
          <5>2. Doing({"tally", "rent", "sub"}, f) # {p}
            <6>1. Cardinality({p}) = 1
              BY FS_Singleton
            <6> QED
              BY <1>2, <4>1, <5>1, <6>1 DEF References
          <5>3. p \in Doing({"tally", "rent", "sub"}, f)
            BY <1>1, <1>a DEF Doing
          <5>4. Doing({"tally", "rent", "sub"}, f) \subseteq Proc
            BY DEF Doing
          <5> QED
            BY <5>2, <5>3, <5>4
        <4> QED
          BY <4>2, <4>3
      <3> QED
        BY <1>1, <1>10, <3>1 DEF Held, Doing, OnlyMoves
    <2> QED
      BY <2>1, <2>2
  <1>16. Placed'
    <2>1. \A q \in Proc : Drops(q)' <=> Drops(q)
      BY <1>1, <1>10 DEF Drops, OnlyMoves
    <2>2. \A q \in Proc : Drops(q) => tab'[q] = tab[q]
      BY <1>1, <1>10 DEF Drops
    <2> QED
      BY <1>1, <1>11, <1>12, <1>13, <1>15, <2>1, <2>2, LiesKept
  <1>17. Proper(p)'
    <2>1. CASE c # 1
      BY <1>10, <1>13, <2>1, Places DEF Proper
    <2>2. CASE c = 1
      <3>1. ASSUME NEW q \in Proc, q # p, frame[q] = f PROVE pc[q] = "untally"
        <4>1. Proper(q) /\ pc[q] \in Pcs \ {"panic"} /\ hold[q][f] = 0
          BY <1>4, <2>2 DEF PhysInv, TypeOK
        <4>2. ~Sole(q)
          BY <1>1, <1>a, <3>1 DEF Sole
        <4>3. pc[q] \notin {"tally", "rent", "sub"}
          BY <1>4, <2>2, <3>1 DEF Doing
        <4> QED
          BY <1>2, <3>1, <4>1, <4>2, <4>3 DEF Proper, Pcs
      <3>2. Sole(p)'
        BY <1>1, <1>4, <1>10, <2>2, <3>1 DEF Sole, OnlyMoves
      <3> QED
        BY <1>1, <1>2, <1>9, <1>10, <1>13, <1>b, <2>2, <3>2 DEF Proper
    <2> QED
      BY <2>1, <2>2
  <1>18. Turns'
    BY <1>10, <1>a, TurnsKept
  <1>19. ExactAt(k)'
    <2>1. \A q \in Proc : q # p => (At(q, {"tally"}, k)' <=> At(q, {"tally"}, k)) /\ frame'[q] = frame[q]
      BY <1>10 DEF At, OnlyMoves
    <2>2. ~At(p, {"tally"}, k) /\ ~At(p, {"tally"}, k)'
      BY <1>1, <1>10 DEF At
    <2>3. refs'[k].fr = refs[k].fr
      BY <1>1
    <2>4. ASSUME NEW o \in 0 .. PerTable - 1, o # Rofs(f) PROVE o \in Tallied(k)' <=> o \in Tallied(k)
      BY <1>7, <2>1, <2>2, <2>3, <2>4 DEF Tallied
    <2>5. Rofs(f) \in Tallied(k)' <=> c # 1
      <3>1. rtb'[refs[k].fr][Rofs(f)] > 0 <=> c # 1
        BY <1>3, <1>4, <1>7
      <3> QED
        BY <1>2, <1>9, <2>1, <2>2, <2>3, <3>1 DEF Tallied
    <2>6. Tallied(k)' \subseteq 0 .. PerTable - 1 /\ Tallied(k) \subseteq 0 .. PerTable - 1
      BY DEF Tallied
    <2>7. Tallied(k)' \ {Rofs(f)} = Tallied(k) \ {Rofs(f)}
      BY <2>4, <2>6
    <2>8. /\ Cardinality(Tallied(k)) \in Nat /\ Cardinality(Tallied(k)') \in Nat
          /\ Cardinality(Tallied(k)') = Cardinality(Tallied(k)) - 1 + (IF c # 1 THEN 1 ELSE 0)
      BY <1>3, <1>9, <2>5, <2>7, CountChange
    <2>9. /\ Cardinality(Leaving(k)) \in Nat /\ Cardinality(Leaving(k)') \in Nat
          /\ Cardinality(Leaving(k)') = Cardinality(Leaving(k)) + (IF c = 1 THEN 1 ELSE 0)
      <3>1. ~At(p, {"dealloc", "untally"}, k) /\ (At(p, {"dealloc", "untally"}, k)' <=> c = 1)
        BY <1>1, <1>2, <1>10, <1>b DEF At
      <3> QED
        BY <1>10, <3>1, LeavingChange
    <2>10. refs'[k].cnt = Cardinality(Tallied(k)') + Cardinality(Leaving(k)')
      BY <1>1, <1>3, <2>8, <2>9
    <2>11. rtb'[refs[k].fr][Rofs(f)] = References(f)'
      BY <1>2, <1>7, <1>14
    <2>12. \A g \in Frame : g # f => References(g)' = References(g)
      BY <1>14
    <2>13. Live(k)'
      BY <1>2, <1>3, <1>12
    <2> QED
      BY <1>2, <1>3, <1>7, <1>b, <2>3, <2>10, <2>11, <2>12, <2>13, ExactHere
  <1>20. ASSUME NEW l \in Tables, l # k PROVE ExactAt(l)'
    <2>1. \A g \in Frame : Ridx(g) = l => References(g)' = References(g)
      BY <1>b, <1>14, <1>20
    <2> QED
      BY <1>1, <1>2, <1>3, <1>7, <1>10, <1>11, <1>20, <1>a, <1>b, <2>1, ExactElsewhere
  <1>21. Bounded'
    <2>1. ASSUME NEW g \in Frame
          PROVE  hold'[p][g] + Asks(pc'[p], frame'[p], g) <= hold[p][g] + Asks(pc[p], frame[p], g)
      <3>1. /\ Asks(pc'[p], frame'[p], g) = 0
            /\ Asks(pc[p], frame[p], g) \in {0, 1}
            /\ hold'[p][g] = hold[p][g] /\ hold[p][g] \in Nat
        BY <1>1, <1>10 DEF Asks, Calls, PhysInv, TypeOK
      <3> QED
        BY <3>1
    <2> QED
      BY <1>10, <1>11, <2>1, BoundedKept
  <1> QED
    BY <1>11, <1>13, <1>16, <1>17, <1>18, <1>19, <1>20, <1>21 DEF PhysInv

\* decref frees the frame nobody refers to any more.
LEMMA DeallocFrameOK ==
    ASSUME PhysMemAssumption, PhysInv, NEW p \in Proc, DeallocFrame(p)
    PROVE  PhysInv'
  <1>a. PICK f : f = frame[p]
    OBVIOUS
  <1>b. PICK k : k = Ridx(f)
    OBVIOUS
  <1>1. /\ pc[p] = "dealloc" /\ Proper(p) /\ Dealloc(f) /\ Goto(p, "untally")
        /\ rtb' = [rtb EXCEPT ![f] = Used]
        /\ UNCHANGED <<refs, hold, frame, tab>>
    BY <1>a DEF DeallocFrame, PhysInv
  <1>2. /\ f \in Frame /\ f # None /\ f # 0 /\ Sole(p)
    BY <1>1, <1>a, Working DEF Proper
  <1>3. PICK use : Lies(use)
    BY DEF PhysInv, Placed
  <1>4. /\ use[f] = <<"held", 0>> /\ f \notin Free
        /\ \A l \in Tables : Live(l) => refs[l].fr # f
        /\ \A q \in Proc : Drops(q) => tab[q] # f
    <2>1. Held(f)
      BY <1>1, <1>a DEF Held
    <2>2. use[f] = <<"held", 0>>
      BY <1>2, <1>3, <2>1 DEF Lies
    <2> QED
      BY <1>2, <1>3, <2>2 DEF Lies
  <1>5. avail' = avail /\ freeList' \in Seq(Frame) /\ Listed' /\ Free' = Free \cup {f}
    BY <1>1, <1>2, <1>4, GivenBack DEF PhysInv
  <1>6. /\ pc'[p] = "untally" /\ pc' \in [Proc -> Pcs \ {"panic"}] /\ OnlyMoves(p) /\ OnlyHolds(p)
    BY <1>1, Goes DEF Pcs, OnlyMoves, OnlyHolds
  <1>7. rtb' \in [Frame -> [0 .. PerTable - 1 -> Nat]] /\ \A g \in Frame : g # f => rtb'[g] = rtb[g]
    BY <1>1 DEF PhysInv, TypeOK, Used
  <1>8. TypeOK'
    BY <1>1, <1>5, <1>6, <1>7 DEF PhysInv, TypeOK
  <1>9. \A l \in Tables : Live(l)' <=> Live(l)
    <2> TAKE l \in Tables
    <2>1. At(p, {"look", "add", "tally"}, l)' <=> At(p, {"look", "add", "tally"}, l)
      BY <1>1, <1>6 DEF At
    <2> QED
      BY <1>1, <1>6, <2>1, LiveKept
  <1>10. Placed'
    <2>1. ASSUME NEW g \in Frame, g # f
          PROVE  (g \in Free' <=> g \in Free) /\ (Held(g)' <=> Held(g))
      <3>1. \A q \in Proc : frame'[q] = g /\ pc'[q] # "untally" <=> frame[q] = g /\ pc[q] # "untally"
        BY <1>1, <1>6, <1>a, <2>1 DEF OnlyMoves
      <3> QED
        BY <1>1, <1>5, <2>1, <3>1 DEF Held
    <2>2. ~Held(f)'
      <3>1. \A q \in Proc : hold'[q][f] = 0
        BY <1>1, <1>2, <1>a DEF Sole
      <3>2. \A q \in Proc : frame'[q] = f => pc'[q] = "untally"
        BY <1>1, <1>2, <1>6, <1>a DEF Sole, OnlyMoves
      <3> QED
        BY <1>2, <3>1, <3>2 DEF Held
    <2>3. \A q \in Proc : Drops(q)' <=> Drops(q)
      BY <1>1, <1>6 DEF Drops, OnlyMoves
    <2> DEFINE what == <<"free", 0>>
    <2>4. /\ what = <<"free", 0>> /\ what # <<"held", 0>>
          /\ \A l \in Tables : what # <<"table", l>>
          /\ \A q \in Proc : what # <<"drop", q>>
      OBVIOUS
    <2> HIDE DEF what
    <2> QED
      BY <1>1, <1>2, <1>3, <1>4, <1>5, <1>9, <2>1, <2>2, <2>3, <2>4, LiesChange
  <1>11. Proper(p)'
    BY <1>1, <1>2, <1>6, <1>a DEF Proper
  <1>12. ASSUME NEW q \in Proc, q # p PROVE Proper(q)'
    <2>1. Proper(q) /\ hold'[q][0] = 0
      BY <1>1 DEF PhysInv, Proper
    <2>2. Sole(q) => Sole(q)'
      BY <1>1, <1>6, <1>12, SoleKept
    <2> QED
      BY <1>1, <1>6, <1>8, <1>12, <2>1, <2>2, ProperKept
  <1>13. Turns'
    BY <1>1, <1>6, TurnsKept
  <1>14. ASSUME NEW l \in Tables PROVE ExactAt(l)'
    <2>1. \A g \in Frame : References(g)' = References(g)
      BY <1>1, <1>6, <1>8, ReferencesKept DEF Weighs, PhysInv
    <2>2. /\ At(p, {"tally"}, l)' <=> At(p, {"tally"}, l)
          /\ At(p, {"dealloc", "untally"}, l)' <=> At(p, {"dealloc", "untally"}, l)
      BY <1>1, <1>6 DEF At
    <2>3. Live(l) => rtb'[refs[l].fr] = rtb[refs[l].fr]
      BY <1>4, <1>7, TablesApart
    <2> QED
      BY <1>1, <1>6, <1>8, <1>9, <2>1, <2>2, <2>3, ExactKept
  <1>15. Bounded'
    <2>1. \A g \in Frame : /\ Asks(pc'[p], frame'[p], g) = 0
                           /\ Asks(pc[p], frame[p], g) = 0
                           /\ hold'[p][g] = hold[p][g] /\ hold[p][g] \in Nat
      BY <1>1, <1>6 DEF Asks, Calls, PhysInv, TypeOK
    <2> QED
      BY <1>6, <1>8, <2>1, BoundedKept
  <1> QED
    BY <1>5, <1>8, <1>10, <1>11, <1>12, <1>13, <1>14, <1>15 DEF PhysInv

\* decref frees the table that counts nothing any more.
LEMMA DropTableOK ==
    ASSUME PhysMemAssumption, PhysInv, NEW p \in Proc, DropTable(p)
    PROVE  PhysInv'
  <1>a. PICK t : t = tab[p]
    OBVIOUS
  <1>1. /\ pc[p] = "dropTable" /\ Proper(p) /\ Dealloc(t) /\ Goto(p, "idle")
        /\ tab' = [tab EXCEPT ![p] = None]
        /\ UNCHANGED <<refs, rtb, hold, frame>>
    BY <1>a DEF DropTable, PhysInv
  <1>2. frame[p] = None
    BY <1>1 DEF Proper
  <1>3. PICK use : Lies(use)
    BY DEF PhysInv, Placed
  <1>4. /\ t \in Frame /\ use[t] = <<"drop", p>> /\ t \notin Free /\ ~Held(t)
        /\ \A l \in Tables : Live(l) => refs[l].fr # t
        /\ \A q \in Proc : q # p /\ Drops(q) => tab[q] # t
    <2>1. t \in Frame /\ use[t] = <<"drop", p>>
      BY <1>1, <1>3, <1>a DEF Lies, Drops
    <2> QED
      BY <1>3, <2>1 DEF Lies
  <1>5. avail' = avail /\ freeList' \in Seq(Frame) /\ Listed' /\ Free' = Free \cup {t}
    BY <1>1, <1>4, GivenBack DEF PhysInv
  <1>6. /\ pc'[p] = "idle" /\ pc' \in [Proc -> Pcs \ {"panic"}] /\ OnlyMoves(p) /\ OnlyHolds(p)
        /\ tab' \in [Proc -> Frame \cup {None}] /\ \A q \in Proc : q # p => tab'[q] = tab[q]
    BY <1>1, Goes DEF Pcs, OnlyMoves, OnlyHolds, PhysInv, TypeOK
  <1>7. TypeOK'
    BY <1>1, <1>5, <1>6 DEF PhysInv, TypeOK
  <1>8. \A S, l : ~At(p, S, l) /\ ~At(p, S, l)'
    BY <1>1, <1>2 DEF At
  <1>9. \A l \in Tables : Live(l)' <=> Live(l)
    BY <1>1, <1>6, <1>8, LiveKept
  <1>10. \A g \in Frame : Held(g)' <=> Held(g)
    <2> TAKE g \in Frame
    <2>1. frame[p] # g
      BY <1>2, Places
    <2> QED
      BY <1>1, <1>6, <2>1 DEF Held, OnlyMoves
  <1>11. Placed'
    <2>1. \A q \in Proc : Drops(q)' <=> q # p /\ Drops(q)
      BY <1>6 DEF Drops, OnlyMoves
    <2> DEFINE what == <<"free", 0>>
    <2>2. /\ what = <<"free", 0>> /\ what # <<"held", 0>>
          /\ \A l \in Tables : what # <<"table", l>>
          /\ \A q \in Proc : what # <<"drop", q>>
      OBVIOUS
    <2> HIDE DEF what
    <2> QED
      BY <1>1, <1>3, <1>4, <1>5, <1>6, <1>9, <1>10, <1>a, <2>1, <2>2, LiesChange
  <1>12. Proper(p)'
    BY <1>1, <1>2, <1>6, Places DEF Proper
  <1>13. ASSUME NEW q \in Proc, q # p PROVE Proper(q)'
    <2>1. Proper(q) /\ hold'[q][0] = 0
      BY <1>1 DEF PhysInv, Proper
    <2>2. frame[q] # None /\ Sole(q) => Sole(q)'
      BY <1>1, <1>2, <1>6, <1>13, SoleKept
    <2> QED
      BY <1>1, <1>6, <1>7, <1>13, <2>1, <2>2, ProperKept
  <1>14. Turns'
    BY <1>1, <1>6, TurnsKept
  <1>15. ASSUME NEW l \in Tables PROVE ExactAt(l)'
    <2>1. \A g \in Frame : References(g)' = References(g)
      BY <1>1, <1>6, <1>7, ReferencesKept DEF Weighs, PhysInv
    <2> QED
      BY <1>1, <1>6, <1>7, <1>8, <1>9, <2>1, ExactKept
  <1>16. Bounded'
    <2>1. \A g \in Frame : /\ Asks(pc'[p], frame'[p], g) = 0
                           /\ Asks(pc[p], frame[p], g) = 0
                           /\ hold'[p][g] = hold[p][g] /\ hold[p][g] \in Nat
      BY <1>1, <1>6 DEF Asks, Calls, PhysInv, TypeOK
    <2> QED
      BY <1>6, <1>7, <2>1, BoundedKept
  <1> QED
    BY <1>5, <1>7, <1>11, <1>12, <1>13, <1>14, <1>15, <1>16 DEF PhysInv

\* decref takes a frame out of the tally; the table goes with the last.
LEMMA UntallyOK ==
    ASSUME PhysMemAssumption, PhysInv, NEW p \in Proc, Untally(p)
    PROVE  PhysInv'
  <1>a. PICK f : f = frame[p]
    OBVIOUS
  <1>b. PICK k : k = Ridx(f)
    OBVIOUS
  <1>c. PICK c : c = refs[k].cnt
    OBVIOUS
  <1>1. /\ pc[p] = "untally" /\ Proper(p)
        /\ refs' = [refs EXCEPT ![k].cnt = c - 1]
        /\ frame' = [frame EXCEPT ![p] = None]
        /\ UNCHANGED <<avail, freeList, rtb, hold>>
    BY <1>a, <1>b, <1>c DEF Untally, PhysInv
  <1>2. /\ f \in Frame /\ f # None /\ f # 0 /\ k \in Tables /\ c \in Nat /\ c > 0
        /\ refs[k].fr \in Frame \cup {None}
    BY <1>1, <1>a, <1>b, <1>c, Working DEF Proper
  <1>3. /\ refs' \in [Tables -> [fr : Frame \cup {None}, cnt : Nat]]
        /\ refs'[k].fr = refs[k].fr /\ refs'[k].cnt = c - 1
        /\ \A l \in Tables : l # k => refs'[l] = refs[l]
    <2>1. refs \in [Tables -> [fr : Frame \cup {None}, cnt : Nat]] /\ c - 1 \in Nat
      BY <1>2 DEF PhysInv, TypeOK
    <2> QED
      BY <1>1, <1>2, <2>1, TallyWritten
  <1>4. /\ pc'[p] \in {"idle", "dropTable"} /\ pc' \in [Proc -> Pcs \ {"panic"}] /\ OnlyMoves(p)
        /\ OnlyHolds(p) /\ frame'[p] = None /\ frame' \in [Proc -> Frame \cup {None}]
        /\ tab' \in [Proc -> Frame \cup {None}] /\ \A q \in Proc : q # p => tab'[q] = tab[q]
        /\ IF c = 1 THEN pc'[p] = "dropTable" /\ tab'[p] = refs[k].fr ELSE pc'[p] = "idle"
    <2>1. CASE c = 1
      <3>1. Goto(p, "dropTable") /\ tab' = [tab EXCEPT ![p] = refs[k].fr]
        BY <2>1, <1>a, <1>b, <1>c DEF Untally
      <3> QED
        BY <1>1, <1>2, <2>1, <3>1, Goes DEF Pcs, OnlyMoves, OnlyHolds, PhysInv, TypeOK
    <2>2. CASE c # 1
      <3>1. Goto(p, "idle") /\ tab' = [tab EXCEPT ![p] = None]
        BY <2>2, <1>a, <1>b, <1>c DEF Untally
      <3> QED
        BY <1>1, <2>2, <3>1, Goes DEF Pcs, OnlyMoves, OnlyHolds, PhysInv, TypeOK
    <2> QED
      BY <2>1, <2>2
  <1>5. TypeOK' /\ Listed' /\ Free' = Free
    BY <1>1, <1>3, <1>4 DEF PhysInv, TypeOK, Listed, Free
  <1>6. /\ \A g \in Frame : References(g)' = References(g)
    BY <1>1, <1>4, <1>5, ReferencesKept DEF Weighs, PhysInv
  <1>7. /\ Live(k) /\ c = Cardinality(Tallied(k)) + Cardinality(Leaving(k))
    <2>1. Live(k)
      BY <1>2, <1>c DEF Live
    <2> QED
      BY <1>2, <1>c, <2>1 DEF PhysInv, ExactAt
  <1>8. /\ Cardinality(Leaving(k)) \in Nat /\ Cardinality(Leaving(k)) > 0
        /\ Cardinality(Leaving(k)') = Cardinality(Leaving(k)) - 1
    <2>1. p \in Leaving(k) /\ Leaving(k) \subseteq Proc
      BY <1>1, <1>2, <1>a, <1>b DEF Leaving, DoingIn
    <2>2. Cardinality(Leaving(k)) \in Nat /\ Cardinality(Leaving(k)) # 0
      BY <2>1, CountPart DEF PhysMemAssumption
    <2>3. At(p, {"dealloc", "untally"}, k) /\ ~At(p, {"dealloc", "untally"}, k)'
      BY <1>1, <1>2, <1>4, <1>a, <1>b DEF At
    <2>4. Cardinality(Leaving(k)') = Cardinality(Leaving(k)) - 1
      BY <1>4, <2>3, LeavingChange
    <2> QED
      BY <2>2, <2>4
  <1>9. c = 1 => \A q \in Proc : q # p /\ frame[q] # None => Ridx(frame[q]) # k
    <2> SUFFICES ASSUME c = 1 PROVE k # 0
      BY <1>2, <1>a, <1>b DEF PhysInv, Turns
    <2> SUFFICES ASSUME k = 0 PROVE FALSE
      OBVIOUS
    <2>1. 0 \in Frame /\ Ridx(0) = 0
      BY Places
    <2>2. References(0) > 0
      <3>1. Owned(0) \in Nat
        BY <2>1, OwnedNat DEF PhysInv
      <3>2. Cardinality(Doing({"tally", "rent", "sub"}, 0)) \in Nat
        BY CountPart DEF Doing, PhysMemAssumption
      <3> QED
        BY <3>1, <3>2 DEF References
    <2>3. \A q \in Proc : ~(pc[q] = "tally" /\ frame[q] = 0)
      BY DEF PhysInv, Proper
    <2>4. Cardinality(Leaving(0)) < refs[0].cnt
      BY <2>1, <2>2, <2>3, Tallying
    <2> QED
      BY <1>8, <1>c, <2>4
  <1>10. /\ \A l \in Tables : l # k => (Live(l)' <=> Live(l))
         /\ Live(k)' <=> c # 1
    <2>1. ASSUME NEW l \in Tables, l # k PROVE Live(l)' <=> Live(l)
      <3>1. At(p, {"look", "add", "tally"}, l)' <=> At(p, {"look", "add", "tally"}, l)
        BY <1>1, <1>4 DEF At
      <3> QED
        BY <1>3, <1>4, <2>1, <3>1, LiveKept
    <2>2. c # 1 => Live(k)'
      BY <1>2, <1>3 DEF Live
    <2>3. c = 1 => ~Live(k)'
      BY <1>3, <1>4, <1>9 DEF Live, At, OnlyMoves
    <2> QED
      BY <2>1, <2>2, <2>3
  <1>11. \A g \in Frame : Held(g)' <=> Held(g)
    <2> TAKE g \in Frame
    <2>1. frame'[p] # g
      BY <1>4, Places
    <2>2. \A q \in Proc : frame'[q] = g /\ pc'[q] # "untally" <=> frame[q] = g /\ pc[q] # "untally"
      BY <1>1, <1>4, <2>1 DEF OnlyMoves
    <2> QED
      BY <1>1, <2>2 DEF Held
  <1>12. Placed'
    <2>1. CASE c # 1
      <3>1. /\ \A q \in Proc : Drops(q)' <=> Drops(q)
            /\ \A q \in Proc : Drops(q) => tab'[q] = tab[q]
        BY <1>1, <1>4, <2>1 DEF Drops, OnlyMoves
      <3>2. \A l \in Tables : (Live(l)' <=> Live(l)) /\ refs'[l].fr = refs[l].fr
        BY <1>3, <1>7, <1>10, <2>1
      <3> QED
        BY <1>5, <1>11, <3>1, <3>2, LiesKept
    <2>2. CASE c = 1
      <3>1. PICK use : Lies(use)
        BY DEF PhysInv, Placed
      <3>2. PICK t \in Frame : t = refs[k].fr
        BY <1>2, <1>7, TablesApart
      <3>3. use[t] = <<"table", k>>
        BY <1>2, <1>7, <3>1, <3>2 DEF Lies
      <3>4. /\ t \notin Free /\ ~Held(t)
            /\ \A l \in Tables : Live(l) /\ l # k => refs[l].fr # t
            /\ \A q \in Proc : Drops(q) => tab[q] # t
        BY <3>1, <3>3 DEF Lies
      <3>5. /\ \A q \in Proc : Drops(q)' <=> q = p \/ Drops(q)
            /\ ~Drops(p) /\ Drops(p)' /\ tab'[p] = t
        BY <1>1, <1>4, <2>2, <3>2 DEF Drops, OnlyMoves
      <3> DEFINE what == <<"drop", p>>
      <3>6. /\ what # <<"free", 0>> /\ what # <<"held", 0>> /\ what = <<"drop", p>>
            /\ \A l \in Tables : what # <<"table", l>>
            /\ \A q \in Proc : what = <<"drop", q>> <=> q = p
        OBVIOUS
      <3> HIDE DEF what
      <3>7. /\ \A l \in Tables : Live(l)' => Live(l) /\ refs'[l].fr = refs[l].fr /\ refs[l].fr # t
            /\ \A l \in Tables : Live(l) /\ refs[l].fr # t => Live(l)' /\ refs'[l].fr = refs[l].fr
        BY <1>3, <1>10, <2>2, <3>2, <3>4
      <3>8. /\ \A q \in Proc : Drops(q)' => IF what = <<"drop", q>> THEN tab'[q] = t
                                            ELSE Drops(q) /\ tab'[q] = tab[q] /\ tab[q] # t
            /\ \A q \in Proc : Drops(q) /\ tab[q] # t => Drops(q)' /\ tab'[q] = tab[q]
        BY <1>4, <3>4, <3>5, <3>6
      <3> QED
        BY <1>5, <1>11, <3>1, <3>4, <3>5, <3>6, <3>7, <3>8, LiesChange
    <2> QED
      BY <2>1, <2>2
  <1>13. Proper(p)'
    BY <1>1, <1>4, Places DEF Proper
  <1>14. ASSUME NEW q \in Proc, q # p PROVE Proper(q)'
    <2>1. Proper(q) /\ hold'[q][0] = 0
      BY <1>1 DEF PhysInv, Proper
    <2>2. frame[q] # None /\ Sole(q) => Sole(q)'
      BY <1>1, <1>4, <1>14, SoleKept
    <2>3. CASE frame[q] = None
      BY <1>4, <1>5, <1>14, <2>1, <2>3, ProperKept
    <2>4. CASE frame[q] # None
      <3>1. frame[q] \in Frame /\ Ridx(frame[q]) \in Tables
        BY <2>4, Places DEF PhysInv, TypeOK
      <3>2. refs'[Ridx(frame[q])].fr = refs[Ridx(frame[q])].fr
        BY <1>3, <3>1
      <3>3. /\ refs'[Ridx(frame[q])].cnt > 0 <=> refs[Ridx(frame[q])].cnt > 0
            /\ refs'[Ridx(frame[q])].cnt = 0 <=> refs[Ridx(frame[q])].cnt = 0
        <4>1. CASE Ridx(frame[q]) = k
          <5>1. c # 1
            BY <1>9, <1>14, <2>4, <4>1
          <5> QED
            BY <1>2, <1>3, <1>c, <4>1, <5>1
        <4>2. CASE Ridx(frame[q]) # k
          BY <1>3, <3>1, <4>2
        <4> QED
          BY <4>1, <4>2
      <3> QED
        BY <1>1, <1>4, <1>5, <1>14, <2>1, <2>2, <2>4, <3>2, <3>3, ProperKept
    <2> QED
      BY <2>3, <2>4
  <1>15. Turns'
    BY <1>4, TurnsKept
  <1>16. ExactAt(k)'
    <2>1. \A q \in Proc : (At(q, {"tally"}, k)' <=> At(q, {"tally"}, k))
                          /\ (At(q, {"tally"}, k) => frame'[q] = frame[q])
      BY <1>1, <1>4 DEF At, OnlyMoves
    <2>2. Tallied(k)' = Tallied(k)
      BY <1>1, <1>3, <2>1 DEF Tallied
    <2>3. /\ IsFiniteSet(Tallied(k)) /\ Cardinality(Tallied(k)) \in Nat
          /\ Cardinality(Tallied(k)) = 0 <=> Tallied(k) = {}
      <3>1. Tallied(k) \subseteq 0 .. PerTable - 1 /\ IsFiniteSet(0 .. PerTable - 1)
        BY FS_Interval DEF Tallied, PhysMemAssumption
      <3> QED
        BY <3>1, CountPart
    <2>4. CASE c # 1
      <3>1. \A g \in Frame : Ridx(g) = k => rtb'[refs'[k].fr][Rofs(g)] = References(g)'
        BY <1>1, <1>2, <1>3, <1>6, <1>7 DEF PhysInv, ExactAt
      <3>2. refs'[k].cnt = Cardinality(Tallied(k)') + Cardinality(Leaving(k)')
        BY <1>3, <1>7, <1>8, <2>2, <2>3
      <3> QED
        BY <1>10, <2>4, <3>1, <3>2 DEF ExactAt
    <2>5. CASE c = 1
      <3>1. Tallied(k) = {}
        BY <1>7, <1>8, <2>3, <2>5
      <3>2. \A q \in Proc : ~At(q, {"tally"}, k)
        BY <1>1, <1>9, <2>5 DEF At
      <3>3. ASSUME NEW g \in Frame, Ridx(g) = k PROVE References(g)' = 0
        <4>1. rtb[refs[k].fr][Rofs(g)] = References(g)
          BY <1>2, <1>7, <3>3 DEF PhysInv, ExactAt
        <4>2. Rofs(g) \in 0 .. PerTable - 1 /\ refs[k].fr \in Frame
          BY <1>2, <1>7, Places, TablesApart
        <4>3. ~(rtb[refs[k].fr][Rofs(g)] > 0)
          BY <3>1, <3>2, <4>2 DEF Tallied
        <4>4. rtb[refs[k].fr][Rofs(g)] \in Nat
          BY <4>2 DEF PhysInv, TypeOK
        <4>5. References(g) = 0
          BY <4>1, <4>3, <4>4
        <4> QED
          BY <1>6, <4>5
      <3> QED
        BY <1>10, <2>5, <3>3 DEF ExactAt
    <2> QED
      BY <2>4, <2>5
  <1>17. ASSUME NEW l \in Tables, l # k PROVE ExactAt(l)'
    <2>1. \A g \in Frame : rtb'[g] = rtb[g]
      BY <1>1
    <2> QED
      BY <1>2, <1>3, <1>4, <1>5, <1>6, <1>7, <1>17, <1>a, <1>b, <2>1, ExactElsewhere
  <1>18. Bounded'
    <2>1. \A g \in Frame : /\ Asks(pc'[p], frame'[p], g) = 0
                           /\ Asks(pc[p], frame[p], g) = 0
                           /\ hold'[p][g] = hold[p][g] /\ hold[p][g] \in Nat
      BY <1>1, <1>4 DEF Asks, Calls, PhysInv, TypeOK
    <2> QED
      BY <1>4, <1>5, <2>1, BoundedKept
  <1> QED
    BY <1>5, <1>12, <1>13, <1>14, <1>15, <1>16, <1>17, <1>18 DEF PhysInv

-----------------------------------------------------------------------------
(* The invariant.                                                           *)

\* The APIC's page table and the table that counts it are there from the start.
LEMMA InitOK ==
    ASSUME PhysMemAssumption, Init
    PROVE  PhysInv
  <1>1. /\ NFrames \in Nat /\ NFrames > 1 /\ PerTable \in Nat /\ PerTable > 0
        /\ 0 \in Frame /\ 1 \in Frame /\ 0 \in Tables /\ Ridx(0) = 0 /\ Rofs(0) = 0
        /\ 0 \in 0 .. PerTable - 1 /\ None \notin Frame
    BY Places DEF PhysMemAssumption, Frame
  <1>2. /\ avail = 2 /\ freeList = <<>>
        /\ \A p \in Proc : pc[p] = "idle" /\ frame[p] = None /\ tab[p] = None
        /\ \A p \in Proc, f \in Frame : hold[p][f] = 0
        /\ \A k \in Tables : k # 0 => refs[k].cnt = 0
        /\ refs[0].fr = 1 /\ refs[0].cnt = 1
        /\ \A o \in 0 .. PerTable - 1 : rtb[1][o] = IF o = 0 THEN 1 ELSE 0
    BY <1>1 DEF Init, Blank
  <1>3. TypeOK
    <2>1. refs \in [Tables -> [fr : Frame \cup {None}, cnt : Nat]]
      BY <1>1 DEF Init
    <2>2. rtb \in [Frame -> [0 .. PerTable - 1 -> Nat]]
      BY <1>1 DEF Init, Blank, Used
    <2> QED
      BY <1>1, <2>1, <2>2 DEF Init, TypeOK, Pcs
  <1>4. Listed
    BY <1>2 DEF Listed
  <1>5. Free = 2 .. NFrames - 1
    BY <1>2 DEF Free, Range
  <1>6. \A S, k : \A p \in Proc : ~At(p, S, k)
    BY <1>2 DEF At
  <1>7. /\ \A k \in Tables : Live(k) <=> k = 0
        /\ \A f \in Frame : Held(f) <=> f = 0
        /\ \A p \in Proc : ~Drops(p)
    BY <1>1, <1>2, <1>6 DEF Live, Held, Drops
  <1>8. Placed
    <2> DEFINE use == [f \in Frame |-> IF f = 0 THEN <<"held", 0>>
                                       ELSE IF f = 1 THEN <<"table", 0>> ELSE <<"free", 0>>]
    <2>1. /\ DOMAIN use = Frame /\ use[0] = <<"held", 0>> /\ use[1] = <<"table", 0>>
          /\ \A f \in Frame : f # 0 /\ f # 1 => use[f] = <<"free", 0>>
          /\ <<"held", 0>> # <<"free", 0>> /\ <<"table", 0>> # <<"free", 0>>
          /\ <<"table", 0>> # <<"held", 0>>
      BY <1>1
    <2> HIDE DEF use
    <2>2. \A f \in Frame : f \in Free <=> f # 0 /\ f # 1
      BY <1>1, <1>5 DEF Frame
    <2>3. Lies(use)
      BY <1>1, <1>2, <1>7, <2>1, <2>2 DEF Lies
    <2> QED
      BY <2>3 DEF Placed
  <1>9. \A p \in Proc : Proper(p)
    BY <1>1, <1>2 DEF Proper
  <1>10. Turns
    BY <1>2 DEF Turns
  <1>11. /\ \A f \in Frame : References(f) = IF f = 0 THEN 1 ELSE 0
         /\ \A f \in Frame : Claims(f) = 0
    <2>1. ASSUME NEW f \in Frame PROVE Owned(f) = 0
      BY <1>2, <1>3, OwnedNat
    <2>2. ASSUME NEW f \in Frame PROVE Doing({"tally", "rent", "sub"}, f) = {} /\ Doing(Calls, f) = {}
      BY <1>2 DEF Doing, Calls
    <2>3. Cardinality({}) = 0
      BY FS_EmptySet
    <2> QED
      BY <2>1, <2>2, <2>3 DEF References, Claims
  <1>12. ASSUME NEW k \in Tables PROVE ExactAt(k)
    <2>1. CASE k # 0
      <3>1. \A f \in Frame : Ridx(f) = k => f # 0
        BY <1>1, <2>1
      <3> QED
        BY <1>7, <1>11, <2>1, <3>1 DEF ExactAt
    <2>2. CASE k = 0
      <3>1. ASSUME NEW f \in Frame, Ridx(f) = 0 PROVE rtb[refs[0].fr][Rofs(f)] = References(f)
        <4>1. Rofs(f) \in 0 .. PerTable - 1 /\ (Rofs(f) = 0 <=> f = 0)
          BY <1>1, <3>1, Places
        <4> QED
          BY <1>2, <1>11, <4>1
      <3>2. Tallied(0) = {0} /\ Leaving(0) = {}
        <4>1. \A o \in 0 .. PerTable - 1 : o \in Tallied(0) <=> o = 0
          BY <1>2, <1>6 DEF Tallied
        <4>2. Tallied(0) \subseteq 0 .. PerTable - 1
          BY DEF Tallied
        <4>3. Leaving(0) = {}
          BY <1>2 DEF Leaving, DoingIn
        <4> QED
          BY <1>1, <4>1, <4>2, <4>3
      <3>3. refs[0].cnt = Cardinality(Tallied(0)) + Cardinality(Leaving(0))
        <4>1. Cardinality({0}) = 1 /\ Cardinality({}) = 0
          BY FS_EmptySet, FS_Singleton
        <4>2. Cardinality(Tallied(0)) = 1 /\ Cardinality(Leaving(0)) = 0
          BY ONLY <3>2, <4>1
        <4>3. refs[0].cnt = 1
          BY <1>2
        <4> QED
          BY ONLY <4>2, <4>3
      <3> QED
        BY <1>1, <1>7, <2>2, <3>1, <3>3 DEF ExactAt
    <2> QED
      BY <2>1, <2>2
  <1>13. Bounded
    <2>1. MaxRefs \in Nat /\ Cardinality(Proc) \in Nat
      BY FS_CardinalityType DEF PhysMemAssumption
    <2> QED
      BY <1>11, <2>1 DEF Bounded
  <1> QED
    BY <1>3, <1>4, <1>8, <1>9, <1>10, <1>12, <1>13 DEF PhysInv

\* Nothing happens.
LEMMA StillOK ==
    ASSUME PhysInv, UNCHANGED vars
    PROVE  PhysInv'
  <1>1. /\ avail' = avail /\ freeList' = freeList /\ refs' = refs /\ rtb' = rtb /\ hold' = hold
        /\ pc' = pc /\ frame' = frame /\ tab' = tab
    BY DEF vars
  <1>2. TypeOK' /\ Listed' /\ Turns' /\ \A p \in Proc : Proper(p)'
    BY <1>1 DEF PhysInv, TypeOK, Listed, Turns, Proper, Sole
  <1>3. Placed'
    BY <1>1 DEF PhysInv, Placed, Lies, Free, Held, Live, At, Drops
  <1>4. \A f : References(f)' = References(f) /\ Claims(f)' = Claims(f)
    BY <1>1 DEF References, Claims, Owned, Doing
  <1>5. \A k \in Tables : ExactAt(k)'
    BY <1>1, <1>4 DEF PhysInv, ExactAt, Live, At, Tallied, Leaving, DoingIn
  <1>6. Bounded'
    BY <1>4 DEF PhysInv, Bounded
  <1> QED
    BY <1>2, <1>3, <1>5, <1>6 DEF PhysInv

\* Every step keeps the invariant.
LEMMA NextOK ==
    ASSUME PhysMemAssumption, TakeTurns, Fits, PhysInv, [Next]_vars
    PROVE  PhysInv'
  <1>1. ASSUME Next PROVE PhysInv'
    <2>1. PICK p \in Proc :
              \/ Alloc(p) \/ Share(p) \/ Check(p) \/ Store(p) \/ Look(p) \/ Add(p) \/ Tally(p)
              \/ Drop(p) \/ Rent(p) \/ Sub(p) \/ DeallocFrame(p) \/ Untally(p) \/ DropTable(p)
      BY <1>1 DEF Next
    <2> QED
      BY <2>1, AllocOK, ShareOK, CheckOK, StoreOK, LookOK, AddOK, TallyOK, DropOK, RentOK, SubOK,
         DeallocFrameOK, UntallyOK, DropTableOK
  <1> QED
    BY <1>1, StillOK

\* Every count of a table in use is the number of references to its frame.
LEMMA InvRefs ==
    ASSUME PhysMemAssumption, PhysInv
    PROVE  RefsExact
  <1> SUFFICES ASSUME NEW f \in Frame
               PROVE  IF refs[Ridx(f)].cnt > 0 THEN rtb[refs[Ridx(f)].fr][Rofs(f)] = References(f)
                                               ELSE Owned(f) = 0
    BY DEF RefsExact
  <1>1. Ridx(f) \in Tables
    BY Places
  <1>2. CASE refs[Ridx(f)].cnt > 0
    <2>1. Live(Ridx(f))
      BY <1>2 DEF Live
    <2> QED
      BY <1>1, <1>2, <2>1 DEF PhysInv, ExactAt
  <1>3. CASE ~(refs[Ridx(f)].cnt > 0)
    <2>1. \A q \in Proc : hold[q][f] \in Nat /\ ~(hold[q][f] > 0)
      BY <1>3, OwnedCounted DEF PhysInv, TypeOK
    <2>2. \A q \in Proc : hold[q][f] = 0
      BY <2>1
    <2>3. Owned(f) = 0
      BY <2>2, OwnedNat DEF PhysInv
    <2> QED
      BY <1>3, <2>3
  <1> QED
    BY <1>2, <1>3

\* The tally and those still to tally are the counts, and those that count no more.
LEMMA InvTally ==
    ASSUME PhysMemAssumption, PhysInv
    PROVE  TallyExact
  <1> SUFFICES ASSUME NEW k \in Tables, refs[k].cnt > 0
               PROVE  refs[k].cnt + Cardinality(DoingIn({"tally"}, k))
                        = Cardinality({o \in DOMAIN Blank : rtb[refs[k].fr][o] > 0})
                            + Cardinality(Leaving(k))
    BY DEF TallyExact, Leaving
  <1> DEFINE P == DoingIn({"tally"}, k)
             W == {o \in 0 .. PerTable - 1 : rtb[refs[k].fr][o] > 0}
             R == W \ Tallied(k)
             to == [p \in P |-> Rofs(frame[p])]
  <1>1. DOMAIN Blank = 0 .. PerTable - 1
    BY DEF Blank
  <1>2. IsFiniteSet(P)
    BY CountPart DEF DoingIn, PhysMemAssumption
  <1>3. Live(k)
    BY DEF Live
  <1>4. \A p \in P : /\ p \in Proc /\ pc[p] = "tally" /\ Sole(p) /\ frame[p] \in Frame
                     /\ frame[p] # 0 /\ Ridx(frame[p]) = k /\ Rofs(frame[p]) \in 0 .. PerTable - 1
    <2> TAKE p \in P
    <2>1. p \in Proc /\ pc[p] = "tally" /\ Ridx(frame[p]) = k
      BY DEF DoingIn
    <2> QED
      BY <2>1, Working DEF PhysInv, Proper
  <1>5. ASSUME NEW p \in P PROVE Rofs(frame[p]) \in R
    <2>1. References(frame[p]) = 1
      BY <1>4, SoleCounts DEF PhysInv
    <2>2. rtb[refs[k].fr][Rofs(frame[p])] = 1
      BY <1>3, <1>4, <2>1 DEF PhysInv, ExactAt
    <2>3. Rofs(frame[p]) \notin Tallied(k)
      <3>1. At(p, {"tally"}, k)
        BY <1>4, Places DEF At
      <3> QED
        BY <1>4, <3>1 DEF Tallied
    <2> QED
      BY <1>4, <2>2, <2>3
  <1>6. to \in Bijection(P, R)
    <2>1. to \in [P -> R]
      BY <1>5
    <2>2. ASSUME NEW p \in P, NEW q \in P, to[p] = to[q] PROVE p = q
      <3>1. frame[p] = frame[q]
        BY <1>4, <2>2, Places
      <3> QED
        BY <1>4, <3>1 DEF Sole
    <2>3. ASSUME NEW o \in R PROVE \E p \in P : to[p] = o
      <3>1. PICK p \in Proc : At(p, {"tally"}, k) /\ Rofs(frame[p]) = o
        BY DEF Tallied
      <3>2. p \in P
        BY <3>1 DEF At, DoingIn
      <3> QED
        BY <3>1, <3>2
    <2> QED
      BY <2>1, <2>2, <2>3 DEF Bijection, Injection, Surjection, IsInjective
  <1>7. IsFiniteSet(R) /\ Cardinality(R) = Cardinality(P)
    BY <1>2, <1>6, FS_Bijection DEF ExistsBijection
  <1>8. /\ IsFiniteSet(Tallied(k)) /\ Tallied(k) \subseteq W
        /\ Cardinality(Tallied(k)) \in Nat /\ Cardinality(R) \in Nat
    <2>1. Tallied(k) \subseteq 0 .. PerTable - 1 /\ IsFiniteSet(0 .. PerTable - 1)
      BY FS_Interval DEF Tallied, PhysMemAssumption
    <2>2. IsFiniteSet(Tallied(k)) /\ Cardinality(Tallied(k)) \in Nat
      BY <2>1, CountPart
    <2>3. Tallied(k) \subseteq W
      BY DEF Tallied
    <2> QED
      BY <1>7, <2>2, <2>3, FS_CardinalityType
  <1>9. Cardinality(W) = Cardinality(Tallied(k)) + Cardinality(R)
    <2>1. W = Tallied(k) \cup R /\ Tallied(k) \cap R = {}
      BY <1>8
    <2>2. Cardinality({}) = 0
      BY FS_EmptySet
    <2> HIDE DEF W, R
    <2>3. Cardinality(Tallied(k) \cup R)
          = Cardinality(Tallied(k)) + Cardinality(R) - Cardinality(Tallied(k) \cap R)
      BY <1>7, <1>8, FS_Union
    <2>4. Cardinality(Tallied(k) \cap R) = 0
      BY <2>1, <2>2
    <2>5. Cardinality(W) = Cardinality(Tallied(k) \cup R)
      BY <2>1
    <2> QED
      BY <1>8, <2>3, <2>4, <2>5
  <1>10. refs[k].cnt = Cardinality(Tallied(k)) + Cardinality(Leaving(k))
    BY <1>3 DEF PhysInv, ExactAt
  <1>11. Cardinality(Leaving(k)) \in Nat
    BY CountPart DEF Leaving, DoingIn, PhysMemAssumption
  <1> HIDE DEF P, W, R, to
  <1>12. refs[k].cnt + Cardinality(P) = Cardinality(W) + Cardinality(Leaving(k))
    BY <1>7, <1>8, <1>9, <1>10, <1>11
  <1> QED
    BY <1>1, <1>12 DEF P, W

\* Frames in use are those held, the tables, and those an operation is to free.
LEMMA InvFrames ==
    ASSUME PhysMemAssumption, PhysInv
    PROVE  FramesAccounted
  <1>1. PICK use : Lies(use)
    BY DEF PhysInv, Placed
  <1>2. ASSUME NEW f \in InUse PROVE f \in Frame /\ use[f] # <<"free", 0>>
    <2>1. CASE f \in Frame /\ References(f) > 0
      BY <1>1, <2>1, ReferredHeld DEF PhysInv, Lies
    <2>2. CASE \E p \in Proc : pc[p] \in {"check", "store", "look", "add", "dealloc"} /\ f = frame[p]
      <3>1. f \in Frame /\ Held(f)
        BY <2>2, Working DEF Held
      <3> QED
        BY <1>1, <3>1 DEF Lies
    <2>3. CASE \E k \in Tables : f = refs[k].fr
                                 /\ (refs[k].cnt > 0 \/ DoingIn({"look", "add", "tally"}, k) # {})
      <3>1. PICK k \in Tables : f = refs[k].fr /\ Live(k)
        BY <2>3 DEF Live, DoingIn, At
      <3> QED
        BY <1>1, <3>1 DEF Lies
    <2>4. CASE \E p \in Proc : pc[p] = "dropTable" /\ f = tab[p]
      BY <1>1, <2>4 DEF Lies, Drops
    <2> QED
      BY <2>1, <2>2, <2>3, <2>4 DEF InUse
  <1>3. ASSUME NEW f \in Frame, f \notin Free PROVE f \in InUse
    <2>1. \/ Held(f)
          \/ \E k \in Tables : Live(k) /\ refs[k].fr = f
          \/ \E p \in Proc : Drops(p) /\ tab[p] = f
      BY <1>1, <1>3 DEF Lies
    <2>2. CASE \E k \in Tables : Live(k) /\ refs[k].fr = f
      BY <2>2 DEF InUse, Live, At, DoingIn
    <2>3. CASE \E p \in Proc : Drops(p) /\ tab[p] = f
      BY <2>3 DEF InUse, Drops
    <2>4. CASE Held(f)
      <3>1. /\ Owned(f) \in Nat /\ \A p \in Proc : hold[p][f] \in Nat /\ hold[p][f] <= Owned(f)
            /\ Cardinality(Doing({"tally", "rent", "sub"}, f)) \in Nat
        BY OwnedNat, CountPart DEF PhysInv, Doing, PhysMemAssumption
      <3>2. CASE f = 0 \/ \E p \in Proc : hold[p][f] > 0
        <4>1. References(f) > 0
          BY <3>1, <3>2 DEF References
        <4> QED
          BY <4>1 DEF InUse
      <3>3. ASSUME NEW p \in Proc, frame[p] = f, pc[p] # "untally" PROVE f \in InUse
        <4>1. pc[p] \in Pcs \ {"panic"} /\ pc[p] \notin {"idle", "dropTable"}
          BY <3>3, Places DEF PhysInv, TypeOK, Proper
        <4>2. CASE pc[p] \in {"tally", "rent", "sub"}
          <5>1. References(f) > 0
            BY <3>3, <4>2, OneAsks
          <5> QED
            BY <5>1 DEF InUse
        <4>3. CASE pc[p] \notin {"tally", "rent", "sub"}
          BY <3>3, <4>1, <4>3 DEF InUse, Pcs
        <4> QED
          BY <4>2, <4>3
      <3> QED
        BY <2>4, <3>2, <3>3 DEF Held
    <2> QED
      BY <2>1, <2>2, <2>3, <2>4
  <1>4. Free \subseteq Frame
    <2>1. Range(freeList) \subseteq Frame
      BY DEF PhysInv, TypeOK, Range
    <2>2. avail .. NFrames - 1 \subseteq Frame
      BY DEF PhysInv, TypeOK, Frame, PhysMemAssumption
    <2> QED
      BY <2>1, <2>2 DEF Free
  <1>5. InUse \cap Free = {} /\ InUse \cup Free = Frame
    BY <1>1, <1>2, <1>3, <1>4 DEF Lies
  <1> QED
    BY <1>5 DEF FramesAccounted, PhysInv, Listed

-----------------------------------------------------------------------------
(* Theorems.                                                                *)

\* The invariant holds when the cores take turns at every table but the first and the references
\* to a frame fit in its count.
THEOREM Invariance == ASSUME TakeTurns, Fits PROVE Spec => []PhysInv
  <1>1. Init => PhysInv
    BY PhysMemAssumption, InitOK
  <1>2. PhysInv /\ [Next]_vars => PhysInv'
    BY PhysMemAssumption, NextOK
  <1> QED
    BY <1>1, <1>2, PTL DEF Spec

\* Every count is the number of references to its frame, and every tally the number of counts,
\* whatever incref and decref the cores interleave at one table.
THEOREM CountsAreExact == ASSUME TakeTurns, Fits PROVE Spec => []CountsExact
  <1>1. PhysInv => CountsExact
    BY PhysMemAssumption, InvRefs, InvTally DEF CountsExact
  <1> QED
    BY <1>1, Invariance, PTL

\* No frame is freed twice, freed while somebody uses it, or lost.
THEOREM EveryFrameAccounted == ASSUME TakeTurns, Fits PROVE Spec => []FramesAccounted
  <1>1. PhysInv => FramesAccounted
    BY PhysMemAssumption, InvFrames
  <1> QED
    BY <1>1, Invariance, PTL

\* decref always finds a table with a tally.
THEOREM AssertNeverFails == ASSUME TakeTurns, Fits PROVE Spec => []AssertHolds
  <1>1. PhysInv => AssertHolds
    BY DEF PhysInv, TypeOK, AssertHolds
  <1> QED
    BY <1>1, Invariance, PTL
=============================================================================
