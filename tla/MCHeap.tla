------------------------------- MODULE MCHeap -------------------------------
(* Both heaps for TLC: what an owner writes looks like the size of a block. *)
EXTENDS UserHeap
McData == {5}
=============================================================================
