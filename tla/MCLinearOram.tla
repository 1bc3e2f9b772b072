----------------------------- MODULE MCLinearOram -----------------------------
(* Instances of LinearOram for TLC. *)
EXTENDS LinearOram

CONSTANTS a1, a2, a3, v1, v2

\* The empty input, and one that leaves an address out.
Inputs == {{}, {[id |-> a1, data |-> v1], [id |-> a2, data |-> v1]}}
===============================================================================
