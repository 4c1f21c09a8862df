---- MODULE MCSessions ----
(* Sessions for TLC: the tabs and the registrants are interchangeable. *)
EXTENDS Sessions, TLC

CONSTANTS t1, t2, r1, r2

Symmetry == Permutations(Tabs) \cup Permutations(Registrants)
====
