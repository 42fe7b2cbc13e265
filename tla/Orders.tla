------------------------------ MODULE Orders ------------------------------
(***************************************************************************)
(* Finite sets in a strict order, as std::sort leaves them: an element is  *)
(* at the place that its rank, the number of elements before it, gives it. *)
(***************************************************************************)
EXTENDS Naturals, Sequences, FiniteSets

InOrder(S, Precedes(_, _)) ==
  [i \in 1..Cardinality(S) |->
     CHOOSE x \in S : Cardinality({y \in S : Precedes(y, x)}) = i - 1]

\* Numbers in their order.
Ascending(S) == InOrder(S, <)
===========================================================================
