---------------------------- MODULE MCDashboards ----------------------------
(***************************************************************************)
(* Instances of Dashboards for TLC.                                        *)
(***************************************************************************)
EXTENDS Dashboards, TLC

Same == Permutations(Request)
=============================================================================
