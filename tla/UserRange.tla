----------------------------- MODULE UserRange -----------------------------
(***************************************************************************)
(* check_range (src/kernel/sys.cc:68), which read and write ask before     *)
(* they touch the memory a program names.  Programs have the upper half of *)
(* the address space, without the pages of the two interrupt controllers.  *)
(* Addresses are numbers of `Word` values, and wrap.                       *)
(***************************************************************************)
EXTENDS Integers

CONSTANTS Word, Half, Page,  \* 2^32, 0x80000000, 4096
          localAPIC, ioAPIC  \* the addresses of the two pages

ASSUME UserRangeAssumption ==
    /\ Word \in Nat /\ Half \in 1 .. Word - 1 /\ Page \in Nat \ {0}
    /\ localAPIC \in Half .. Word - Page - 1 /\ ioAPIC \in Half .. Word - Page - 1

Address == 0 .. Word - 1

Wrap(n) == IF n < Word THEN n ELSE n - Word

\* Mutant: the end is not compared with the start.
OrderedAlways(lower, upper) == TRUE

Ordered(lower, upper) == lower <= upper

Misses(lower, upper, device) == upper <= device \/ lower >= device + Page

check_range(start, size) ==
    LET upper == Wrap(start + size)
    IN  /\ Ordered(start, upper)
        /\ start >= Half
        /\ Misses(start, upper, localAPIC)
        /\ Misses(start, upper, ioAPIC)

-----------------------------------------------------------------------------
(* What the memory of a program is, for the properties.                     *)

InDevice(a) == a \in localAPIC .. localAPIC + Page - 1 \/ a \in ioAPIC .. ioAPIC + Page - 1
Allowed(a) == a >= Half /\ ~InDevice(a)

\* The bytes of a range, as a loop that copies them comes to them.
RangeBytes(start, size) == {Wrap(start + i) : i \in 0 .. size - 1}
=============================================================================
