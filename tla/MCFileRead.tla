----------------------------- MODULE MCFileRead -----------------------------
(***************************************************************************)
(* FileRead for TLC: a file of one direct block and the trees behind it,   *)
(* with two pointers an index block.  The data blocks are 16, 17, ... in   *)
(* the order of the file.                                                  *)
(***************************************************************************)
EXTENDS FileRead, TLC

\* 1 is the single root; 2 the double one, over 4 and 5; 3 the treble one, over 6 and 7,
\* over 8, 9, 10 and 11.
McData == (0 :> 16) @@ (1 :> 1) @@ (2 :> 2) @@ (3 :> 3)
Two(x, y) == (0 :> x) @@ (1 :> y)
McIndex ==
    (1 :> Two(17, 18)) @@ (2 :> Two(4, 5)) @@ (4 :> Two(19, 20)) @@ (5 :> Two(21, 22))
    @@ (3 :> Two(6, 7)) @@ (6 :> Two(8, 9)) @@ (7 :> Two(10, 11))
    @@ (8 :> Two(23, 24)) @@ (9 :> Two(25, 26)) @@ (10 :> Two(27, 28)) @@ (11 :> Two(29, 30))
=============================================================================
