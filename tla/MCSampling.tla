------------------------------ MODULE MCSampling ------------------------------
(* An instance of Sampling for TLC: words of four bits. *)
EXTENDS Sampling
===============================================================================
