------------------------------- MODULE MCModes -------------------------------
(* Modes on a root and a leaf cluster, with a name of each cluster's own. *)
EXTENDS Modes
CONSTANTS alpha, beta
MCItem == {alpha, beta}
MCSliceFault == [c \in Cluster |-> IF c = Root THEN {} ELSE {"login", "error"}]
MCSliceItem == [c \in Cluster |-> IF c = Root THEN {alpha} ELSE {beta}]
=============================================================================
