------------------------------ MODULE Ordered -------------------------------
(***************************************************************************)
(* What sorted() makes of a finite set under a strict total order, given   *)
(* as the set of its pairs: the element at position k has k - 1 before it. *)
(***************************************************************************)
EXTENDS Naturals, FiniteSets

InOrder(S, before) ==
  [k \in 1..Cardinality(S) |->
     CHOOSE x \in S : Cardinality({y \in S : <<y, x>> \in before}) = k - 1]

(* Numbers in order, and a list comprehension over s: what is at some of   *)
(* its positions.                                                          *)
Ascending(S) == InOrder(S, {p \in S \X S : p[1] < p[2]})
Picked(s, ks) == [i \in DOMAIN Ascending(ks) |-> s[Ascending(ks)[i]]]

=============================================================================
