------------------------ MODULE MCClusterTermination ------------------------
(* Instances of ClusterTermination for TLC. *)
EXTENDS ClusterTermination

BothKinds == <<"nfs", "backends">>
=============================================================================
