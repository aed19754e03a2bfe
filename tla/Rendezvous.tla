----------------------------- MODULE Rendezvous -----------------------------
(***************************************************************************)
(* What a barrier promises: nobody leaves a round before all have come to  *)
(* it, and when all have come everybody leaves.                            *)
(***************************************************************************)
EXTENDS Naturals

CONSTANTS Party,   \* the threads the barrier is for
          Rounds   \* bound on the rounds of each

VARIABLES came, left  \* how often each has called sync, and returned from it

Come(t) ==
    /\ came[t] = left[t] /\ came[t] < Rounds
    /\ came' = [came EXCEPT ![t] = @ + 1]
    /\ UNCHANGED left

Go(t) ==
    /\ left[t] < came[t]
    /\ \A u \in Party : came[u] >= came[t]
    /\ left' = [left EXCEPT ![t] = @ + 1]
    /\ UNCHANGED came

RendezvousInit == came = [t \in Party |-> 0] /\ left = [t \in Party |-> 0]
RendezvousNext == \E t \in Party : Come(t) \/ Go(t)

RendezvousSpec ==
    /\ RendezvousInit
    /\ [][RendezvousNext]_<<came, left>>
    /\ \A t \in Party : WF_<<came, left>>(Go(t))
=============================================================================
