------------------------------ MODULE MCMessages ------------------------------
(* An instance of Messages for TLC: numbers and payloads of one and two length bytes. *)
EXTENDS Messages

Long == [k \in 1..128 |-> 9]
MCPayloads == {<<7>>, Long}
===============================================================================
