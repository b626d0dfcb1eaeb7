------------------------ MODULE MCControlPlaneCache ------------------------
(***************************************************************************)
(* Instances of ControlPlaneCache for TLC.                                 *)
(***************************************************************************)
EXTENDS ControlPlaneCache, TLC

\* Calls are interchangeable, and so are workers.
Symmetry == Permutations(Op) \cup Permutations(Worker)

\* Facts have nothing in common but the connection to Redis, so an instance with
\* several of them stops where a second one would come into play.
Untouched(f) ==
    /\ db[f] \in {"active", "granted"} /\ since[f] = Settled /\ l2[f] = NoEntry
    /\ \A w \in Worker : l1[w][f] = NoEntry
    /\ \A o \in Op : call[o].fact # f
OneFact == \E f \in Facts : \A g \in Facts \ {f} : Untouched(g)
=============================================================================
