-------------------------- MODULE MCClusterUpkeep ---------------------------
(***************************************************************************)
(* ClusterUpkeep with three shards, six slots and two edits.               *)
(***************************************************************************)
EXTENDS ClusterUpkeep

MCPlacements == {<<1, 1, 1, 1, 2, 3>>, <<1, 2, 1, 3, 1, 2>>}

Move(shard, slots) == [shard |-> shard, slots |-> slots]
MCPlans ==
  {[shard |-> 1, moves |-> <<Move(2, {3})>>],
   [shard |-> 1, moves |-> <<Move(2, {1, 3}), Move(3, {2, 4})>>],
   [shard |-> 2, moves |-> <<Move(3, {2, 6})>>]}
=============================================================================
