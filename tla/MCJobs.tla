------------------------------- MODULE MCJobs -------------------------------
(* Jobs for TLC: two runners on a job of two items, and one replay of it. *)
EXTENDS Jobs
=============================================================================
