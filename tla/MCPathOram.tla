------------------------------ MODULE MCPathOram ------------------------------
(* Instances of PathOram for TLC: a tree of three buckets of one block. *)
EXTENDS PathOram

CONSTANTS a1, a2, a3, v1, v2

B(a) == [id |-> a, data |-> v1]

\* One input that is shorter than the tree, and one with padding whose last
\* entry the tree has no bucket for.
TwoBlocks == {<<B(a1), B(a2)>>, <<Pad, B(a2), Pad, B(a1)>>}

\* A full tree.
ThreeBlocks == {<<B(a1), B(a2), B(a3)>>}
===============================================================================
