-------------------------------- MODULE MCOdict --------------------------------
(* An instance of Odict for TLC. *)
EXTENDS Odict

\* A cache that is too small, one that is just large enough, and an ORAM that is
\* too small for all insertions.
MCSetups == {[cache |-> 2, oram |-> 6], [cache |-> 3, oram |-> 6],
             [cache |-> 3, oram |-> 4]}
===============================================================================
