----------------------------- MODULE Allocator -----------------------------
(***************************************************************************)
(* What an allocator promises (the abstract specification Heap is shown to *)
(* implement): live blocks never overlap, a block                          *)
(* keeps what its owner wrote until the owner frees it, and nothing the    *)
(* allocator does for one owner changes the words of another.              *)
(***************************************************************************)
EXTENDS Integers

CONSTANTS Address,  \* the words of the heap
          Amounts   \* the sizes, in words, an owner asks for

VARIABLES live,     \* live[p]: the words asked for the block at p
          word      \* word[a]: what is in the word at a, for the words of live blocks

vars == <<live, word>>

Span(p, n) == p .. p + n - 1

Only(f, S) == [x \in DOMAIN f \cap S |-> f[x]]

Init == live = <<>> /\ word = <<>>

\* A new block: words nobody owns, whose contents are not specified.
Give(p, n) ==
    /\ Span(p, n) \subseteq Address
    /\ Span(p, n) \cap DOMAIN word = {}
    /\ DOMAIN live' = DOMAIN live \cup {p}
    /\ live'[p] = n
    /\ Only(live', DOMAIN live) = live
    /\ DOMAIN word' = DOMAIN word \cup Span(p, n)
    /\ Only(word', DOMAIN word) = word

Take(p) ==
    /\ live' = Only(live, DOMAIN live \ {p})
    /\ word' = Only(word, DOMAIN word \ Span(p, live[p]))

\* The owner of the block at p writes to it.
Store(p) ==
    /\ live' = live
    /\ DOMAIN word' = DOMAIN word
    /\ \A a \in DOMAIN word \ Span(p, live[p]) : word'[a] = word[a]

\* The block at p becomes a block of n words at q with the same contents.
Move(p, q, n) ==
    LET left == DOMAIN word \ Span(p, live[p])
    IN  /\ Span(q, n) \subseteq Address
        /\ Span(q, n) \cap left = {}
        /\ live' = [x \in (DOMAIN live \ {p}) \cup {q} |-> IF x = q THEN n ELSE live[x]]
        /\ DOMAIN word' = left \cup Span(q, n)
        /\ Only(word', left) = Only(word, left)
        /\ \A k \in 0 .. n - 1 : k < live[p] => word'[q + k] = word[p + k]

Next ==
    \/ \E p \in Address, n \in Amounts : Give(p, n)
    \/ \E p \in DOMAIN live : Take(p) \/ Store(p)
    \/ \E p \in DOMAIN live, q \in Address, n \in Amounts : Move(p, q, n)

Spec == Init /\ [][Next]_vars
=============================================================================
