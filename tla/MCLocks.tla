------------------------------ MODULE MCLocks ------------------------------
(***************************************************************************)
(* InterruptLock and Barrier for TLC.  `part` says which of the two a      *)
(* behaviour is about.                                                     *)
(***************************************************************************)
EXTENDS InterruptLock, Barrier

CONSTANTS c1, c2
McLock == {1, 2}

VARIABLE part

LocksInit ==
    /\ part \in {"lock", "barrier"}
    /\ Init
    /\ BarrierInit
    /\ part = "lock" => reusable = TRUE

LockPart == part = "lock" /\ Next /\ UNCHANGED <<part, barrierVars>>
BarrierPart == part = "barrier" /\ BarrierNext /\ UNCHANGED <<part, vars>>

\* A core with no thread to run is idle (module Threads).
Idle == part = "barrier" /\ UNCHANGED <<part, vars, barrierVars>>

LocksSpec ==
    /\ LocksInit
    /\ [][LockPart \/ BarrierPart \/ Idle]_<<part, vars, barrierVars>>
    /\ \A t \in Party : WF_barrierVars(part = "barrier" /\ Inside(t) /\ UNCHANGED <<part, vars>>)
=============================================================================
