---------------------------- MODULE MCApiAccess -----------------------------
(* ApiAccess for TLC: one gateway's clock is a tick ahead. *)
EXTENDS ApiAccess

CONSTANTS s1, s2

ClockSkew == [s \in Requests |-> IF s = s1 THEN 1 ELSE 0]
=============================================================================
