-------------------------- MODULE MCClusterState --------------------------
(* ClusterState for TLC: nodes are interchangeable where all of them are   *)
(* Changing, and so are the threads of a node.                             *)
EXTENDS ClusterState, TLC

NodeSymmetry == Permutations(Nodes) \cup Permutations(Setters)

=============================================================================
