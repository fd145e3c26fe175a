--------------------------- MODULE MCClusterScaling ---------------------------
(* Small instances of ClusterScaling for TLC. *)
EXTENDS ClusterScaling
=============================================================================
