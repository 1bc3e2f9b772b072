----------------------------- MODULE MCOramService -----------------------------
(* Instances of OramService for TLC. *)
EXTENDS OramService

CONSTANTS c1, c2

Conf(i, s, j, t) == [c \in Client |-> IF c = c1 THEN [id |-> i, type |-> s]
                                      ELSE [id |-> j, type |-> t]]

\* One id with one type, one id with two types, two ids, an id too large.
MCConfigs == {Conf(0, "tree", 0, "tree"), Conf(0, "tree", 0, "flat"),
              Conf(0, "tree", 1, "tree"), Conf(0, "tree", 2, "tree")}
===============================================================================
