--------------------------- MODULE ReserveOrdinals ---------------------------
(***************************************************************************)
(* The arithmetic of ordinals by which the operator resizes a StatefulSet  *)
(* of OpenKruise without deleting the master.  A StatefulSet has a number  *)
(* of replicas and a sequence of reserved ordinals, which it skips.        *)
(*                                                                         *)
(* nodes is a sequence of records with fields idx, the ordinal of the pod, *)
(* and role, in the order of the ordinals.                                 *)
(***************************************************************************)
EXTENDS Naturals, Sequences, FiniteSets, Functions

\* The elements of a finite set of naturals in ascending order.
Ascending(S) ==
  [j \in 1..Cardinality(S) |-> CHOOSE x \in S : Cardinality({y \in S : y < x}) = j - 1]

\* External: the ordinals of the pods OpenKruise keeps.
Desired(sts) ==
  LET free == (0..(sts.replicas + Len(sts.reserve))) \ Range(sts.reserve)
  IN {o \in free : Cardinality({p \in free : p < o}) < sts.replicas}

\* Scaling up by delta takes reserved ordinals back from the front.
Unreserved(reserve, delta) ==
  IF delta >= Len(reserve) THEN <<>> ELSE SubSeq(reserve, delta + 1, Len(reserve))

IsMaster(node) == node.role = "master"

\* The walk from the last node down has seen fewer than delta other nodes when
\* it comes to position j.
Walked(nodes, delta, j) ==
  Cardinality({k \in (j + 1)..Len(nodes) : ~IsMaster(nodes[k])}) < delta

\* The ordinals the walk collects: the last delta nodes that are no masters.
Victims(nodes, delta) ==
  {nodes[j].idx : j \in {k \in 1..Len(nodes) :
                           ~IsMaster(nodes[k]) /\ Walked(nodes, delta, k)}}

\* masterID: the last master the walk passes, 0 if it passes none.
MasterID(nodes, delta) ==
  LET passed == {j \in 1..Len(nodes) : IsMaster(nodes[j]) /\ Walked(nodes, delta, j)}
  IN IF passed = {} THEN 0
     ELSE nodes[CHOOSE j \in passed : \A k \in passed : j <= k].idx

\* Mutant: ordinals below the master are not reserved.
ReserveNothing(nodes, delta) == <<>>

\* The ordinals to reserve, ascending: no need to reserve one above the master.
Reserve(nodes, delta) ==
  Ascending({o \in Victims(nodes, delta) : o <= MasterID(nodes, delta)})
=============================================================================
