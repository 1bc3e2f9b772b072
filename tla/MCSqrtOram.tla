------------------------------ MODULE MCSqrtOram ------------------------------
(* Instances of SqrtOram for TLC. *)
EXTENDS SqrtOram

\* Two exchanges of a position of the main memory with the first dummy.  They
\* do not commute: their compositions are the six orders of three positions.
Exchange(i, j) == [k \in Ids |-> IF k = i THEN j ELSE IF k = j THEN i ELSE k]
MCShuffles == {Exchange(0, block_num), Exchange(1, block_num)}
===============================================================================
