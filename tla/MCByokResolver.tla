--------------------------- MODULE MCByokResolver ---------------------------
(***************************************************************************)
(* Instances of ByokResolver for TLC.                                      *)
(***************************************************************************)
EXTENDS ByokResolver, TLC

\* Calls are interchangeable, and so are workers.
Symmetry == Permutations(Op) \cup Permutations(Worker)
=============================================================================
