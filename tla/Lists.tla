------------------------------- MODULE Lists -------------------------------
(***************************************************************************)
(* What several components do to lists: they keep some of the positions,   *)
(* or bring a set into an order.                                           *)
(***************************************************************************)
EXTENDS Naturals, Sequences, FiniteSets

\* A set in an order that is total on it: as many members come before the
\* i-th as there are positions before it.
InOrder(S, Before(_, _)) ==
  [i \in 1 .. Cardinality(S) |->
     CHOOSE x \in S : Cardinality({y \in S : Before(y, x)}) = i - 1]

\* What is left of a list when only these positions are kept, in its order.
Kept(list, positions) ==
  LET order == InOrder(positions, <)
  IN  [i \in DOMAIN order |-> list[order[i]]]

============================================================================
