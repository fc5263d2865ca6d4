------------------------------- MODULE Lists -------------------------------
(***************************************************************************)
(* List comprehensions: [x for x in s if ...] keeps the elements at some   *)
(* places of s in their order.                                             *)
(***************************************************************************)
EXTENDS Naturals, Sequences, FiniteSets

\* The place of i among the numbers in I, and the number at a place.
Place(I, i) == Cardinality({k \in I : k <= i})

Nth(I, n) == CHOOSE i \in I : Place(I, i) = n

\* What s holds at the indices in I.
SelectAt(s, I) == [n \in 1 .. Cardinality(I) |-> s[Nth(I, n)]]

=============================================================================
