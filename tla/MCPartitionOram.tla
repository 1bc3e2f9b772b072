---------------------------- MODULE MCPartitionOram ----------------------------
(* Instances of PartitionOram for TLC: two slots. *)
EXTENDS PartitionOram

CONSTANTS v1, v2

One(a) == [b \in Addr |-> IF b = a THEN v1 ELSE NoVal]

\* A block in each slice, an empty slice, and an input that is too short.
MCInputs == {<<One(0), One(1)>>, <<[b \in Addr |-> v1], Empty>>, <<One(0)>>}
===============================================================================
