--------------------------- MODULE MCRequestDedup ---------------------------
(* RequestDedup for TLC: three identical requests, failing or calm. *)
EXTENDS RequestDedup
=============================================================================
