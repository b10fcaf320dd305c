-------------------------------- MODULE Ordered --------------------------------
(***************************************************************************)
(* What stands at some places of a sequence, in the order of the sequence: *)
(* SetToSortSeq and SelectSeq without recursion, so that proofs can expand *)
(* them.  A place is the one with as many of the places before it as come  *)
(* before it.                                                              *)
(***************************************************************************)
EXTENDS Naturals, FiniteSets, Sequences

\* A set of numbers in ascending order.
InOrder(is) ==
  [n \in 1..Cardinality(is) |-> CHOOSE i \in is : Cardinality({j \in is : j < i}) = n - 1]

\* s.filter(test)
Selected(s, Test(_)) ==
  LET at == InOrder({i \in DOMAIN s : Test(s[i])})
  IN  [n \in DOMAIN at |-> s[at[n]]]
=============================================================================
