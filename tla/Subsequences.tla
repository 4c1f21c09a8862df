---------------------------- MODULE Subsequences ----------------------------
(* What the filters of the code keep of a list: the entries at some places. *)
EXTENDS Integers, Sequences, FiniteSets

\* The j-th smallest number of a set.
Nth(S, j) == CHOOSE k \in S : Cardinality({i \in S : i <= k}) = j

\* The entries of s at the places S, in their order.
Selected(s, S) == [j \in 1..Cardinality(S) |-> s[Nth(S, j)]]
=============================================================================
