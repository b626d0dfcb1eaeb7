---------------------------- MODULE MCWikiPages ----------------------------
(***************************************************************************)
(* Instances of WikiPages for TLC: texts of one and of two chunks, and an  *)
(* empty one.                                                              *)
(***************************************************************************)
EXTENDS WikiPages

CONSTANTS t0, t1, t2

PartsOf == [t \in Text |-> CASE t = t0 -> 0 [] t = t1 -> 1 [] OTHER -> 2]
=============================================================================
