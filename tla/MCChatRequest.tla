--------------------------- MODULE MCChatRequest ----------------------------
(* ChatRequest for TLC: an organization with a budget, and one with a cache. *)
EXTENDS ChatRequest

Budgeted == [billing |-> TRUE, cache |-> FALSE, dedup |-> TRUE]

Cached == [billing |-> FALSE, cache |-> TRUE, dedup |-> FALSE]

BothKinds == {Budgeted, Cached}
=============================================================================
