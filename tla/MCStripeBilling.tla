---- MODULE MCStripeBilling ----
(* StripeBilling for TLC. *)
EXTENDS StripeBilling

CONSTANTS h1, h2, Paid, Failed
====
