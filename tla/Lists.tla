-------------------------------- MODULE Lists --------------------------------
(***************************************************************************)
(* What the terminal does to lists: a filter keeps the elements at some    *)
(* places, in their order, and a set of numbers is listed in theirs        *)
(* (Array.prototype.filter and sort, as the workspace and the chart use    *)
(* them).                                                                  *)
(***************************************************************************)
EXTENDS Integers, FiniteSets

\* The place of i among the numbers in K, and the number at place k.
Rank(K, i) == Cardinality({j \in K : j <= i})
Nth(K, k) == CHOOSE i \in K : Rank(K, i) = k

\* What is left of the list s at the places K.
Filtered(s, K) == [k \in 1..Cardinality(K) |-> s[Nth(K, k)]]
=============================================================================
