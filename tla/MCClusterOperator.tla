-------------------------- MODULE MCClusterOperator --------------------------
(* Small instances of ClusterOperator for TLC. *)
EXTENDS ClusterOperator
=============================================================================
