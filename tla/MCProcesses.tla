---------------------------- MODULE MCProcesses ----------------------------
(***************************************************************************)
(* Processes and TestPrograms for TLC.  With the image "any" the first     *)
(* process opens, forks and waits; the second forks too, closes what it    *)
(* has and exits; the third uses what it has inherited and ends in every   *)
(* way there is.  The test images have five processes at a time.           *)
(***************************************************************************)
EXTENDS TestPrograms, TLC
CONSTANTS p1, p2, p3, p4, p5
AnyCalls ==
    (p1 :> {"open", "sem", "fork", "wait", "badstatus"})
    @@ (p2 :> {"down", "fork", "close", "exit"})
    @@ (p3 :> {"seek", "read", "up", "execl", "fault", "badpath"})
    @@ (p4 :> {}) @@ (p5 :> {})
Sizes == [msg |-> 25, data |-> 43, panic |-> 1736]
LinkTargets == <<"msg", "msg", "msg", "loop", "symlink">>
=============================================================================
