-------------------------- MODULE MCEventDelivery ---------------------------
(***************************************************************************)
(* EventDelivery for TLC: the workers are interchangeable, and the first   *)
(* event is one the subscriber acts upon.                                  *)
(***************************************************************************)
EXTENDS EventDelivery, TLC

Symmetry == Permutations(Workers)

MCTypings ==
    [k \in Kinds |-> IF k = "email" THEN {<<"budget.warning", "usage.recorded">>}
                                    ELSE {<<"usage.recorded", "usage.recorded">>}]
=============================================================================
