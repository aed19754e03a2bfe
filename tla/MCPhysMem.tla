----------------------------- MODULE MCPhysMem -----------------------------
(* Small instances of PhysMem.                                              *)
EXTENDS PhysMem, TLC

Symmetry == Permutations(Proc)
=============================================================================
