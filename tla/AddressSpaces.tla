--------------------------- MODULE AddressSpaces ---------------------------
(***************************************************************************)
(* What the virtual memory manager promises its processes: every living    *)
(* process has a memory of its own, Addr -> Val, that only its own writes  *)
(* change.  A fork gives the child a copy of the parent's memory, an exec  *)
(* starts again from zeroes, and a process slot that is reused shows       *)
(* nothing of the process that had it before.  Page tables, reference      *)
(* counts and copy-on-write (module Vmm) are invisible here.               *)
(***************************************************************************)
CONSTANTS Proc,     \* process slots
          First,    \* the process that exists at the start
          Addr,     \* virtual page addresses
          Val,      \* what a page may hold
          Zero      \* what a page nobody has written holds

VARIABLES mem,      \* mem[p][a]: what process p reads at address a
          alive     \* the processes that exist

vars == <<mem, alive>>

Blank == [a \in Addr |-> Zero]

Init == /\ mem = [p \in Proc |-> Blank]
        /\ alive = {First}

Write(p) == /\ p \in alive
            /\ \E a \in Addr, v \in Val : mem' = [mem EXCEPT ![p][a] = v]
            /\ UNCHANGED alive

Fork(p) == /\ p \in alive
           /\ \E c \in Proc \ alive : /\ mem' = [mem EXCEPT ![c] = mem[p]]
                                      /\ alive' = alive \cup {c}

Exec(p) == /\ p \in alive
           /\ mem' = [mem EXCEPT ![p] = Blank]
           /\ UNCHANGED alive

Exit(p) == /\ p \in alive
           /\ mem' = [mem EXCEPT ![p] = Blank]
           /\ alive' = alive \ {p}

Next == \E p \in Proc : Write(p) \/ Fork(p) \/ Exec(p) \/ Exit(p)

Spec == Init /\ [][Next]_vars
=============================================================================
