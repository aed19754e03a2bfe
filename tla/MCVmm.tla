------------------------------- MODULE MCVmm -------------------------------
(* Small instances of Vmm.                                                  *)
EXTENDS Vmm

MCFrame == 1..16
MCIdx == {0, 1}

\* Two pages of one page table.
OneTable == {<<0, 0>>, <<0, 1>>}
\* The device page and its neighbour in the same page table.
DeviceTable == {<<0, 0>>, <<0, 1>>}
Device == {<<0, 0>>}
NoDevice == {}

(***************************************************************************)
(* Frames are interchangeable: two states that differ only in the names of *)
(* frames are one state.  Canonical names every frame by the first of the  *)
(* places that refer to it, so that TLC tells apart only what is shared    *)
(* with what, the counts and the contents.                                 *)
(***************************************************************************)
Root(p, r) == IF r = "cr3" THEN cr3[p] ELSE at[p].new
Tables == (Proc \X {"cr3", "new"} \X Idx) \cup (Proc \X {"dst", "old"} \X {0})
TableAt == [x \in Tables |->
    IF x[2] \in {"dst", "old"} THEN Ent(at[x[1]][x[2]], {})
    ELSE IF Root(x[1], x[2]) = NoFrame THEN Absent
    ELSE table[Root(x[1], x[2])][x[3]]]
PageAt == [x \in Tables \X Idx |->
    LET e == TableAt[x[1]] IN
    IF e.fr = NoFrame THEN Absent ELSE PT(e)[x[2]]]
Count(f) == IF f \in Frame THEN rc[f] ELSE 0
Holds(f) == IF f \in Frame THEN page[f] ELSE Junk
Canonical ==
    LET T == TableAt
        P == PageAt
    IN << [x \in Tables |-> <<T[x].flags, Count(T[x].fr), CHOOSE y \in Tables : T[y].fr = T[x].fr>>],
          [x \in DOMAIN P |-> <<P[x].flags, Count(P[x].fr), Holds(P[x].fr),
                                CHOOSE y \in DOMAIN P : P[y].fr = P[x].fr>>],
          [p \in Proc |-> <<Holds(at[p].pa), Count(at[p].pa), Count(cr3[p]), Count(at[p].new),
                            [at[p] EXCEPT !.pa = (@ = NoFrame), !.dst = (@ = NoFrame),
                                          !.old = (@ = NoFrame), !.new = (@ = NoFrame), !.pde = @.flags]>>],
          Cardinality(free) >>
=============================================================================
