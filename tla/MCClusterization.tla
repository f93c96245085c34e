-------------------------- MODULE MCClusterization --------------------------
(* Instances of Clusterization for TLC. *)
EXTENDS Clusterization, TLC

Symmetry == Permutations(Vms)
=============================================================================
