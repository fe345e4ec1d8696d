------------------------------- MODULE Options -------------------------------
(***************************************************************************)
(* Option::None and the saturating arithmetic of usize, which the models   *)
(* of the panels and the samplers share.                                   *)
(***************************************************************************)
EXTENDS Integers, FiniteSets

CONSTANT None

\* usize::saturating_sub and usize::min
Minus(m, n) == IF m > n THEN m - n ELSE 0
Lower(m, n) == IF m < n THEN m ELSE n

\* Option::or
Or(option, other) == IF option # None THEN option ELSE other

\* The elements of a set in a total order.
Ordered(S, Before(_, _)) ==
  [i \in 1..Cardinality(S) |-> CHOOSE x \in S : Cardinality({y \in S : Before(y, x)}) = i - 1]
==============================================================================
