--------------------------- MODULE PublishedStatus ---------------------------
(***************************************************************************)
(* What the status of a KVRocks resource of type cluster promises to those *)
(* who read it, and watch it for the topology of the cluster:              *)
(*                                                                         *)
(*  - a topology is published only once the cluster runs;                  *)
(*  - every topology that is published has a version of its own, the next  *)
(*    one, so that a reader that has seen a version never has to compare   *)
(*    topologies, and never misses one unnoticed;                          *)
(*  - a failed cluster has no topology, and stays failed.                  *)
(*                                                                         *)
(* Who publishes, and that there are two who do so from copies they have   *)
(* read earlier, is a matter of the specifications that implement this one.*)
(***************************************************************************)
EXTENDS Naturals

CONSTANTS
  Views,       \* what can be published: the addresses and the roles of the nodes
  Unpublished  \* what a resource shows before anything is

VARIABLES status, version, view

vars == <<status, version, view>>

Init ==
  /\ status = "Creating"
  /\ version = 0
  /\ view = Unpublished

\* The cluster has been created.
Start ==
  /\ status = "Creating"
  /\ status' = "Running"
  /\ UNCHANGED <<version, view>>

\* A topology is published, under the next version.
Publish ==
  /\ status = "Running"
  /\ version' = version + 1
  /\ view' \in Views
  /\ UNCHANGED status

\* The cluster is given up.
Fail ==
  /\ status # "Failed"
  /\ status' = "Failed"
  /\ version' = 0
  /\ view' = Unpublished

Next == Start \/ Publish \/ Fail

Spec == Init /\ [][Next]_vars
=============================================================================
