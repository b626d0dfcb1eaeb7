--------------------------- MODULE MCTenantUsers ---------------------------
(***************************************************************************)
(* Instances of TenantUsers for TLC.                                       *)
(***************************************************************************)
EXTENDS TenantUsers, TLC

\* The ids of users and the slots of requests are interchangeable.
Symmetry == Permutations(User) \cup Permutations(Request)
=============================================================================
