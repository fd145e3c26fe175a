--------------------------- MODULE FirstEditProofs ---------------------------
(***************************************************************************)
(* Proofs about ClusterScaling while the user has edited spec.replicas at  *)
(* most once, for any sizes and any number of outages, kills and stale     *)
(* reads: every copy of the object describes the pods that there are, or   *)
(* those that its plan leaves, so that matching them by position and by    *)
(* ordinal, as the operator does, goes to the right node.                  *)
(***************************************************************************)
EXTENDS ClusterScalingProofs

-----------------------------------------------------------------------------
(* The worker's list *)

\* The first ordinals in ascending order.
LEMMA AscendingFirst ==
  ASSUME NEW n \in Nat, NEW j \in 1..n
  PROVE  Ascending(0..(n - 1))[j] = j - 1
<1> DEFINE S == 0..(n - 1)
           s == [k \in 1..n |-> k - 1]
<1>1. S \in SUBSET Nat /\ IsFiniteSet(S)
  BY CountInitial
<1>2. \A k \in 1..n : s[k] \in S
  OBVIOUS
<1>3. \A x \in S : \E k \in 1..n : s[k] = x
  <2> SUFFICES ASSUME NEW x \in S PROVE \E k \in 1..n : s[k] = x
    OBVIOUS
  <2>1. x + 1 \in 1..n /\ s[x + 1] = x
    OBVIOUS
  <2> QED
    BY <2>1, Zenon
<1>4. \A i, k \in 1..n : i < k => s[i] < s[k]
  OBVIOUS
<1>5. s[j] = j - 1
  OBVIOUS
<1> HIDE DEF s
<1>6. \A k \in 1..n : Ascending(S)[k] = s[k]
  <2> HIDE DEF S
  <2>1. Enumerates(s, n, S)
    BY <1>2, <1>3, <1>4, Zenon DEF Enumerates
  <2> QED
    BY <1>1, <2>1, AscendingUnique, Zenon
<1> QED
  BY <1>5, <1>6, Zenon

\* Where the pods are in the list: pod o at position o + 1 before the StatefulSet
\* shrinks, and the remaining ones of the first pods in their order after.
LEMMA ListPlaces ==
  ASSUME TypeInv, EditInv, PodsInv, NodesInv, pc \in Listed
  PROVE  /\ DOMAIN pods = Desired(sts) /\ Len(stsNodes) = sts.replicas
         /\ sts.replicas >= InitialSize =>
              \A j \in 1..Len(stsNodes) : /\ stsNodes[j].idx = j - 1 /\ (j - 1) \in DOMAIN pods
                                          /\ stsNodes[j].ip = pods[j - 1].ip
         /\ sts.replicas < InitialSize =>
              \A j \in 1..Len(stsNodes) : stsNodes[j].ip = Ascending(Desired(sts))[j] + 1
<1> DEFINE D == DOMAIN pods
<1>1. /\ D = Desired(sts) /\ Len(stsNodes) = Cardinality(D)
      /\ \A j \in 1..Len(stsNodes) : /\ stsNodes[j].idx = Ascending(D)[j]
                                     /\ stsNodes[j].ip = pods[Ascending(D)[j]].ip
  BY Zenon DEF PodsInv, NodesInv, Listed
<1>2. /\ D \in SUBSET Nat /\ IsFiniteSet(D) /\ Cardinality(D) = sts.replicas
      /\ InitialSize \in Nat /\ sts.replicas \in Nat
  BY <1>1, SizeFacts, Zenon
<1>3. \A j \in 1..Len(stsNodes) : Ascending(D)[j] \in D
  BY <1>1, <1>2, AscendingIn, Zenon
<1> HIDE DEF D
<1>4. ASSUME sts.replicas >= InitialSize, NEW j \in 1..Len(stsNodes)
      PROVE  /\ stsNodes[j].idx = j - 1 /\ (j - 1) \in D /\ stsNodes[j].ip = pods[j - 1].ip
  <2>1. D = 0..(sts.replicas - 1)
    BY <1>1, <1>4, Unshrunk, Zenon
  <2>2. j \in 1..sts.replicas
    BY <1>1, <1>2, Zenon
  <2>3. Ascending(D)[j] = j - 1
    BY <1>2, <2>1, <2>2, AscendingFirst, Zenon
  <2> QED
    BY <1>1, <1>3, <2>3, Zenon
<1>5. ASSUME sts.replicas < InitialSize, NEW j \in 1..Len(stsNodes)
      PROVE  stsNodes[j].ip = Ascending(D)[j] + 1
  <2>1. /\ D \subseteq 0..(InitialSize - 1)
        /\ \A o \in D : o < InitialSize => pods[o].ip = o + 1
    BY <1>5, Zenon DEF PodsInv, D
  <2>2. \A o \in D : o < InitialSize
    BY <1>2, <2>1, SMTT(60)
  <2> QED
    BY <1>1, <1>3, <2>1, <2>2, Zenon
<1> QED
  BY <1>1, <1>2, <1>4, <1>5, Zenon DEF D

\* So the entries of the topology the worker has read are those of its list, as far
\* as they go: copying them by position is right.
LEMMA TopoMatches ==
  ASSUME TypeInv, EditInv, PodsInv, NodesInv, ShrinkInv, pc \in Listed
  PROVE  /\ Len(inst.topo) <= Len(stsNodes)
         /\ \A j \in 1..Len(inst.topo) : inst.topo[j].ip = stsNodes[j].ip
<1> DEFINE n == Len(inst.topo)
           m == Len(stsNodes)
<1>1. n \in Nat /\ sts.replicas \in Nat /\ InitialSize \in Nat
      /\ Cardinality(Desired(sts)) = sts.replicas
  BY SizeFacts, Zenon DEF Copies
<1>2. ~inst.shrink.on /\ CopyOK(inst)
  <2>1. pc \notin {"clean", "unshrink"} /\ pc # "idle"
    BY Zenon DEF Listed
  <2> QED
    BY <2>1, Zenon DEF ShrinkInv, Copies
<1>3. m = sts.replicas /\ DOMAIN pods = Desired(sts)
  BY ListPlaces, Zenon
<1>4. CASE sts.replicas >= InitialSize
  <2>1. \A j \in 1..n : (j - 1) \in DOMAIN pods /\ inst.topo[j].ip = pods[j - 1].ip
    BY <1>2, <1>4, Zenon DEF CopyOK, Whole
  <2>2. DOMAIN pods = 0..(m - 1)
    BY <1>3, <1>4, Unshrunk, Zenon
  <2>3. \A j \in 1..m : stsNodes[j].ip = pods[j - 1].ip
    BY <1>4, ListPlaces, Zenon
  <2> HIDE DEF n, m
  <2>4. n <= m
    <3>1. CASE n = 0
      BY <1>1, <1>3, <3>1, SMTT(60)
    <3>2. CASE n # 0
      <4>1. n \in 1..n
        BY <1>1, <3>2, SMTT(60)
      <4>2. n - 1 \in 0..(m - 1)
        BY <2>1, <2>2, <4>1, Zenon
      <4> QED
        BY <1>1, <1>3, <4>2, SMTT(60)
    <3> QED
      BY <3>1, <3>2, Zenon
  <2>5. 1..n \subseteq 1..m
    BY <1>1, <1>3, <2>4, SMTT(60)
  <2> QED
    BY <2>1, <2>3, <2>4, <2>5, Zenon DEF n, m
<1>5. CASE ~(sts.replicas >= InitialSize)
  <2>1. sts.replicas < InitialSize
    BY <1>1, <1>5, SMTT(60)
  <2>2. Part(inst.topo, Desired(sts))
    BY <1>2, <2>1, Zenon DEF CopyOK
  <2>3. \A j \in 1..m : stsNodes[j].ip = Ascending(Desired(sts))[j] + 1
    BY <2>1, ListPlaces, Zenon
  <2>4. CASE n = 0
    <3>1. 0 <= m /\ 1..n = {}
      BY <1>1, <1>3, <2>4, SMTT(60)
    <3> QED
      BY <2>4, <3>1, Zenon
  <2>5. CASE n # 0
    <3>1. n = m /\ \A j \in 1..n : inst.topo[j].ip = Ascending(Desired(sts))[j] + 1
      BY <1>1, <1>3, <2>2, <2>5, Zenon DEF Part
    <3>2. m <= m
      BY <1>1, <1>3, SMTT(60)
    <3> QED
      BY <2>3, <3>1, <3>2, Zenon
  <2> QED
    BY <2>4, <2>5, Zenon
<1> QED
  BY <1>4, <1>5, Zenon

\* Every step keeps NodesInv.
LEMMA NodesKept ==
  ASSUME TypeInv, EditInv, PodsInv, NodesInv, ShrinkInv, PairsInv, [Next]_vars
  PROVE  NodesInv'
<1> SUFFICES ASSUME pc' \in Listed
             PROVE  /\ Len(stsNodes') = Cardinality(DOMAIN pods')
                    /\ \A j \in 1..Len(stsNodes') :
                         /\ stsNodes'[j].idx = Ascending(DOMAIN pods')[j]
                         /\ stsNodes'[j].ip = pods'[Ascending(DOMAIN pods')[j]].ip
                         /\ stsNodes'[j].id \in {0, stsNodes'[j].ip}
  BY Zenon DEF NodesInv
<1>1. /\ stsNodes \in Seq(Nodes) /\ inst \in KVs /\ nextIP \in Nat
      /\ DOMAIN ctl \subseteq IPs /\ \A ip \in DOMAIN ctl : ctl[ip] \in {"master", "slave"}
  BY TypeFacts, Zenon
<1>2. CASE /\ UNCHANGED podVars
           /\ Len(stsNodes') = Len(Ascending(DOMAIN pods))
           /\ \A j \in 1..Len(stsNodes') :
                stsNodes'[j] = NewNode(pods[Ascending(DOMAIN pods)[j]].ip, Ascending(DOMAIN pods)[j])
  <2>1. pods' = pods
    BY <1>2, Zenon DEF podVars
  <2>2. Len(Ascending(DOMAIN pods)) = Cardinality(DOMAIN pods)
    BY PodsFinite, AscendingFacts, Zenon
  <2>3. \A ip, idx : NewNode(ip, idx).ip = ip /\ NewNode(ip, idx).idx = idx /\ NewNode(ip, idx).id = 0
    BY Zenon DEF NewNode
  <2> SUFFICES ASSUME NEW j \in 1..Len(stsNodes')
               PROVE  /\ stsNodes'[j].idx = Ascending(DOMAIN pods)[j]
                      /\ stsNodes'[j].ip = pods[Ascending(DOMAIN pods)[j]].ip
                      /\ stsNodes'[j].id \in {0, stsNodes'[j].ip}
    BY <1>2, <2>1, <2>2, Zenon
  <2> DEFINE o == Ascending(DOMAIN pods)[j]
             ip == pods[o].ip
  <2>4. stsNodes'[j] = NewNode(ip, o)
    BY <1>2, Zenon
  <2> HIDE DEF ip
  <2>5. /\ NewNode(ip, o).ip = ip /\ NewNode(ip, o).idx = o /\ NewNode(ip, o).id = 0
    BY <2>3, Zenon
  <2>6. stsNodes'[j].idx = o /\ stsNodes'[j].ip = ip /\ stsNodes'[j].id = 0
    BY <2>4, <2>5, Zenon
  <2> QED
    BY <2>6, Zenon DEF ip
<1>3. CASE SamePods(stsNodes', stsNodes) /\ (pc # "list" \/ UNCHANGED pc)
  <2>1. pc \in Listed
    <3>1. "list" \notin Listed /\ "publish" \in Listed
      BY DEF Listed
    <3>2. pc \in Listed \/ (pc = "list" /\ pc' = "topo")
      BY ControlFlow, <3>1, Zenon DEF WorkerGoes, Reconcile, cleanStatefulSet, Goto, Listed
    <3> QED
      BY <1>3, <3>1, <3>2, Zenon
  <2>2. UNCHANGED pods
    BY <2>1, PodsMove, Zenon
  <2>3. /\ Len(stsNodes') = Len(stsNodes) /\ Len(stsNodes) = Cardinality(DOMAIN pods)
        /\ \A j \in 1..Len(stsNodes) : /\ stsNodes'[j].ip = stsNodes[j].ip
                                       /\ stsNodes'[j].idx = stsNodes[j].idx
                                       /\ stsNodes[j].idx = Ascending(DOMAIN pods)[j]
                                       /\ stsNodes[j].ip = pods[Ascending(DOMAIN pods)[j]].ip
                                       /\ stsNodes[j].id \in {0, stsNodes[j].ip}
    BY <1>3, <2>1, Zenon DEF SamePods, NodesInv
  <2> SUFFICES ASSUME NEW j \in 1..Len(stsNodes) PROVE stsNodes'[j].id \in {0, stsNodes[j].ip}
    BY <2>2, <2>3, Zenon
  <2>4. CASE stsNodes'[j].id = stsNodes[j].id
    BY <2>3, <2>4, Zenon
  <2>5. CASE FixTopo /\ stsNodes' = FixNodes(stsNodes, inst.topo)
    <3>1. inst.topo \in Seq(Entries)
      BY <1>1, Zenon DEF KVs
    <3>2. stsNodes'[j].id = IF j > Len(inst.topo) THEN stsNodes[j].id ELSE inst.topo[j].id
      BY <1>1, <2>5, <3>1, FixNodesFacts, Zenon
    <3>3. CASE j > Len(inst.topo)
      BY <2>4, <3>2, <3>3, Zenon
    <3>4. CASE ~(j > Len(inst.topo))
      <4>1. j \in 1..Len(inst.topo)
        <5>1. Len(inst.topo) \in Nat /\ Len(stsNodes) \in Nat
          BY <1>1, <3>1, SMTT(60)
        <5> QED
          BY <3>4, <5>1, SMTT(60)
      <4>2. inst.topo[j].id \in {0, inst.topo[j].ip}
        BY <4>1, Zenon DEF PairsInv, Copies
      <4>3. inst.topo[j].ip = stsNodes[j].ip
        BY <2>1, <4>1, TopoMatches, Zenon
      <4> QED
        BY <3>2, <3>4, <4>2, <4>3, Zenon
    <3> QED
      BY <3>3, <3>4, Zenon
  <2>6. CASE Ping /\ stsNodes' = [stsNodes EXCEPT ![pos].failover = FALSE]
    <3>1. DOMAIN stsNodes = 1..Len(stsNodes) /\ stsNodes[j] \in Nodes
      BY <1>1
    <3>2. \/ stsNodes'[j] = stsNodes[j]
          \/ stsNodes'[j] = [stsNodes[j] EXCEPT !.failover = FALSE]
      BY <2>6, <3>1, Zenon
    <3>3. [stsNodes[j] EXCEPT !.failover = FALSE].id = stsNodes[j].id
      BY <3>1, Zenon DEF Nodes
    <3> QED
      BY <2>4, <3>2, <3>3, Zenon
  <2>7. CASE stsNodes' = Replicated(stsNodes)
    BY <1>1, <2>4, <2>7, ReplicatedFacts, Zenon
  <2>8. CASE stsNodes' = Identified(stsNodes, ctl) /\ MastersIn(ctl) # {}
    <3>1. DOMAIN ctl \subseteq Nat
      BY <1>1, SMTT(60) DEF IPs
    <3>2. \/ Identified(stsNodes, ctl)[j].id = stsNodes[j].ip
          \/ Identified(stsNodes, ctl)[j] = stsNodes[j]
      BY <1>1, <2>8, <3>1, IdentifiedFacts, Zenon
    <3> QED
      BY <2>4, <2>8, <3>2, Zenon
  <2>9. CASE pc' = "idle" \/ pc = "list"
    BY <2>1, <2>9, Zenon DEF Listed
  <2> QED
    BY <2>4, <2>5, <2>6, <2>7, <2>8, <2>9, ListStep, Zenon
<1>4. pc' # "idle"
  BY Zenon DEF Listed
<1> QED
  BY <1>2, <1>3, <1>4, ListKept, Zenon

-----------------------------------------------------------------------------
(* What the copies say *)

\* How many nodes the worker has too many, and the pods and the nodes that its plan
\* leaves.
Excess == Len(stsNodes) - inst.replicas
LeftPods == Desired([replicas |-> inst.replicas, reserve |-> Reserve(stsNodes, Excess)])
LeftNodes == Remaining(stsNodes, Excess)

\* What a worker that has too many nodes plans: it has the StatefulSet of the
\* beginning before it, which then wants exactly the nodes that remain, and the
\* topology it publishes is theirs.
LEMMA ShrinkPlan ==
  ASSUME TypeInv, RolesInv, EditInv, PodsInv, NodesInv, pc = "shrink",
         Len(stsNodes) > inst.replicas, inst = kv
  PROVE  /\ sts.replicas = InitialSize /\ inst.replicas < InitialSize
         /\ LeftPods \subseteq 0..(InitialSize - 1)
         /\ Len(LeftNodes) = Cardinality(LeftPods)
         /\ \A k \in 1..Len(LeftNodes) : /\ LeftNodes[k].ip = Ascending(LeftPods)[k] + 1
                                         /\ LeftNodes[k].id \in {0, LeftNodes[k].ip}
         /\ \A j \in 1..Len(stsNodes) : IsMaster(stsNodes[j]) => stsNodes[j].idx \in LeftPods
<1> DEFINE delta == Excess
           D == LeftPods
<1>a. /\ delta = Len(stsNodes) - inst.replicas
      /\ D = Desired([replicas |-> inst.replicas, reserve |-> Reserve(stsNodes, delta)])
      /\ LeftNodes = Remaining(stsNodes, delta)
  BY Zenon DEF Excess, LeftPods, LeftNodes
<1> HIDE DEF delta, D
<1> DEFINE n == Len(stsNodes)
           r == inst.replicas
           V == Victims(stsNodes, delta)
           rest == Stays(stsNodes, delta)
           left == Remaining(stsNodes, delta)
<1>1. /\ InitialSize \in Nat /\ sts.replicas \in Nat /\ r \in Nat /\ r >= 1
      /\ sts.reserve \in Seq(Nat) /\ stsNodes \in Seq(Nodes)
  BY SizeFacts, TypeFacts, Zenon DEF Copies
<1>2. /\ sts.replicas # InitialSize => sts.replicas = kv.replicas
      /\ sts.replicas < InitialSize => r = sts.replicas
  BY Zenon DEF EditInv
<1>3. pc \in Listed /\ n = sts.replicas /\ DOMAIN pods = Desired(sts)
  <2>1. pc \in Listed
    BY Zenon DEF Listed
  <2> QED
    BY <2>1, ListPlaces, Zenon
<1>4. sts.replicas = InitialSize /\ r < InitialSize
  <2>1. sts.replicas = InitialSize
    BY <1>1, <1>2, <1>3, SMTT(60)
  <2> QED
    BY <1>1, <1>3, <2>1, Zenon
<1>5. sts.replicas >= InitialSize
  BY <1>1, <1>4, SMTT(60)
<1>6. Desired(sts) = 0..(n - 1) /\ sts.reserve = <<>>
  BY <1>3, <1>5, Unshrunk, Zenon
<1>7. \A j \in 1..n : /\ stsNodes[j].idx = j - 1 /\ (j - 1) \in DOMAIN pods
                      /\ stsNodes[j].ip = pods[j - 1].ip
                      /\ stsNodes[j].id \in {0, stsNodes[j].ip}
  BY <1>3, <1>5, ListPlaces, Zenon DEF NodesInv
<1>8. n \in Nat
  BY <1>1, <1>3, Zenon
<1>9. PICK m \in 1..n : \A j \in 1..n : IsMaster(stsNodes[j]) <=> j = m
  BY Zenon DEF RolesInv
<1>10. IdxOf(stsNodes) = 0..(n - 1)
  <2>1. \A x \in 0..(n - 1) : x + 1 \in 1..n /\ (x + 1) - 1 = x
    BY <1>8, SMTT(60)
  <2>2. 0..(n - 1) \subseteq IdxOf(stsNodes)
    <3> SUFFICES ASSUME NEW x \in 0..(n - 1) PROVE x \in IdxOf(stsNodes)
      OBVIOUS
    <3>1. stsNodes[x + 1].idx = x /\ x + 1 \in 1..n
      BY <1>7, <2>1, Zenon
    <3> QED
      BY <3>1, Zenon DEF IdxOf
  <2>3. IdxOf(stsNodes) \subseteq 0..(n - 1)
    <3>1. \A j \in 1..n : stsNodes[j].idx \in 0..(n - 1)
      BY <1>3, <1>6, <1>7, Zenon
    <3> QED
      BY <3>1, Zenon DEF IdxOf
  <2> QED
    BY <2>2, <2>3, Zenon
<1>11. IsListing(stsNodes, m)
  <2>1. 0..(n - 1) \subseteq Nat
    BY <1>8, SMTT(60)
  <2>2. \A j, k \in 1..n : j < k => j - 1 < k - 1
    BY <1>8, SMTT(60)
  <2>3. \A j, k \in 1..n : j < k => stsNodes[j].idx < stsNodes[k].idx
    <3> SUFFICES ASSUME NEW j \in 1..n, NEW k \in 1..n, j < k
                 PROVE  stsNodes[j].idx < stsNodes[k].idx
      BY Zenon
    <3>1. stsNodes[j].idx = j - 1 /\ stsNodes[k].idx = k - 1
      BY <1>7, Zenon
    <3> QED
      BY <2>2, <3>1, Zenon
  <2> QED
    BY <1>8, <1>9, <1>10, <2>1, <2>3, Zenon DEF IsListing
<1>12. D = (0..(n - 1)) \ V
  <2> DEFINE more == sts.reserve \o Reserve(stsNodes, delta)
  <2>1. r \in 1..n
    BY <1>1, <1>8, SMTT(60)
  <2>2. Desired([replicas |-> r, reserve |-> more]) = Desired(sts) \ V
    BY <1>a, <1>1, <1>6, <1>10, <1>11, <2>1, ShrinkExact, ZenonT(60)
  <2>3. Reserve(stsNodes, delta) \in Seq(Nat)
    <3>1. 0..(n - 1) \in SUBSET Nat /\ IsFiniteSet(0..(n - 1))
      BY <1>8, CountInitial, SMTT(60)
    <3>2. \A j \in 1..n : stsNodes[j].idx \in 0..(n - 1)
      BY <1>10, Zenon DEF IdxOf
    <3>3. Reserve(stsNodes, delta) \in Seq(0..(n - 1))
      BY <3>1, <3>2, ReserveType, Zenon
    <3> QED
      BY <3>1, <3>3, SeqOfMore, Zenon
  <2>4. <<>> \o Reserve(stsNodes, delta) = Reserve(stsNodes, delta)
    <3> DEFINE R == Reserve(stsNodes, delta)
    <3> HIDE DEF R
    <3>1. R \in Seq(Nat)
      BY <2>3, SMTT(60) DEF R
    <3>2. <<>> \o R = R
      BY <3>1, SMTT(60)
    <3> QED
      BY <3>2, Zenon DEF R
  <2>5. more = Reserve(stsNodes, delta)
    BY <1>6, <2>4, Zenon
  <2> QED
    BY <1>a, <1>6, <2>2, <2>5, Zenon
<1>13. /\ rest \in SUBSET Nat /\ IsFiniteSet(rest)
       /\ Len(left) = Cardinality(rest)
       /\ \A k \in 1..Cardinality(rest) : /\ Ascending(rest)[k] \in rest
                                          /\ left[k] = stsNodes[Ascending(rest)[k]]
  <2>1. /\ IsFiniteSet(rest) /\ rest \subseteq Nat
        /\ Len(left) = Cardinality(rest)
        /\ \A k \in 1..Cardinality(rest) : /\ Ascending(rest)[k] \in rest
                                           /\ left[k] = stsNodes[Ascending(rest)[k]]
    BY <1>1, RemainingFacts, ZenonT(40)
  <2> HIDE DEF rest, left
  <2> QED
    BY <2>1, SMTT(60)
<1>14. Cardinality(rest) \in Nat
  BY <1>13, FS_CardinalityType
<1>15. D \in SUBSET Nat /\ IsFiniteSet(D)
  <2>1. 0..(n - 1) \in SUBSET Nat /\ IsFiniteSet(0..(n - 1))
    BY <1>8, CountInitial
  <2>2. D \in SUBSET (0..(n - 1))
    BY <1>12, Zenon
  <2> QED
    BY <2>1, <2>2, FS_Subset, Zenon
<1>16. Cardinality(D) = Cardinality(rest)
       /\ \A k \in 1..Cardinality(rest) : Ascending(D)[k] = Ascending(rest)[k] - 1
  <2> DEFINE c == Cardinality(rest)
             asc == Ascending(rest)
             s == [k \in 1..c |-> asc[k] - 1]
  <2>1. \A k \in 1..c : asc[k] \in 1..n /\ asc[k] - 1 \notin V
    BY <1>13, Zenon DEF Stays
  <2>2. Range(asc) = rest /\ asc \in Seq(rest) /\ Len(asc) = c
        /\ \A j, k \in 1..c : j < k => asc[j] < asc[k]
    BY <1>13, AscendingFacts, Zenon
  <2>3. \A j \in rest : \E k \in 1..c : asc[k] = j
    <3>1. DOMAIN asc = 1..c
      BY <2>2, SMTT(60)
    <3> QED
      BY <2>2, <3>1, Zenon DEF Range
  <2>4. \A x \in D : x + 1 \in 1..n /\ (x + 1) - 1 = x
    BY <1>8, <1>12, SMTT(60)
  <2>5. \A j \in 1..n : j - 1 \in 0..(n - 1)
    BY <1>8, SMTT(60)
  <2>6. \A k \in 1..c : s[k] = asc[k] - 1
    BY Zenon
  <2> HIDE DEF rest, asc, c, V, s
  <2>7. \A k \in 1..c : s[k] \in D
    BY <1>12, <2>1, <2>5, <2>6, Zenon
  <2>8. \A x \in D : \E k \in 1..c : s[k] = x
    <3> SUFFICES ASSUME NEW x \in D PROVE \E k \in 1..c : s[k] = x
      OBVIOUS
    <3>1. x \notin V
      BY <1>12, SMTT(60)
    <3>2. x + 1 \in rest
      BY <2>4, <3>1, Zenon DEF rest, Stays, V
    <3>3. PICK k \in 1..c : asc[k] = x + 1
      BY <2>3, <3>2, Zenon
    <3>4. s[k] = x
      BY <2>4, <2>6, <3>3, Zenon
    <3> QED
      BY <3>4, Zenon
  <2>9. \A j, k \in 1..c : j < k => s[j] < s[k]
    <3> SUFFICES ASSUME NEW j \in 1..c, NEW k \in 1..c, j < k PROVE s[j] < s[k]
      BY Zenon
    <3>1. asc[j] < asc[k] /\ asc[j] \in 1..n /\ asc[k] \in 1..n
      BY <2>1, <2>2, Zenon
    <3>2. asc[j] - 1 < asc[k] - 1
      BY <1>8, <3>1, SMTT(60)
    <3> QED
      BY <2>6, <3>2, Zenon
  <2>10. Enumerates(s, c, D)
    BY <2>7, <2>8, <2>9, Zenon DEF Enumerates
  <2>11. c \in Nat
    BY <1>14, Zenon DEF c
  <2>12. Cardinality(D) = c /\ \A k \in 1..c : Ascending(D)[k] = s[k]
    BY <1>15, <2>10, <2>11, AscendingUnique, Zenon
  <2> QED
    BY <2>6, <2>12, Zenon DEF c, asc
<1>17. ASSUME NEW k \in 1..Len(left)
       PROVE  left[k].ip = Ascending(D)[k] + 1 /\ left[k].id \in {0, left[k].ip}
  <2> DEFINE j == Ascending(rest)[k]
  <2>1. j \in 1..n /\ left[k] = stsNodes[j] /\ Ascending(D)[k] = j - 1
    BY <1>13, <1>16, Zenon DEF Stays
  <2>2. /\ (j - 1) \in DOMAIN pods /\ stsNodes[j].ip = pods[j - 1].ip
        /\ stsNodes[j].id \in {0, stsNodes[j].ip}
    BY <1>7, <2>1, Zenon
  <2>3. j - 1 < InitialSize
    <3> HIDE DEF j
    <3> QED
      BY <1>1, <1>3, <1>4, <2>1, SMTT(60)
  <2>4. pods[j - 1].ip = (j - 1) + 1
    BY <2>2, <2>3, Zenon DEF PodsInv
  <2> QED
    BY <2>1, <2>2, <2>4, Zenon
<1>18. ASSUME NEW j \in 1..n, IsMaster(stsNodes[j]) PROVE stsNodes[j].idx \in D
  <2>1. stsNodes[j].idx \in 0..(n - 1)
    BY <1>3, <1>6, <1>7, Zenon
  <2>2. stsNodes[j].idx \notin V
    BY <1>11, <1>18, ListingInjective, Zenon DEF Victims
  <2> QED
    BY <1>12, <2>1, <2>2, Zenon
<1>19. D \subseteq 0..(InitialSize - 1)
  BY <1>3, <1>4, <1>12, Zenon
<1>20. /\ Len(left) = Cardinality(D)
       /\ \A k \in 1..Len(left) : /\ left[k].ip = Ascending(D)[k] + 1
                                  /\ left[k].id \in {0, left[k].ip}
  BY <1>13, <1>16, <1>17, Zenon
<1>21. left = LeftNodes
  BY <1>a, Zenon
<1> HIDE DEF left
<1> QED
  BY <1>4, <1>18, <1>19, <1>20, <1>21, Zenon DEF D

\* Every step keeps PairsInv.
LEMMA PairsKept ==
  ASSUME TypeInv, CopyInv, RolesInv, EditInv, PodsInv, NodesInv, PairsInv, [Next]_vars
  PROVE  PairsInv'
<1> DEFINE OK(topo) == \A j \in 1..Len(topo) : topo[j].id \in {0, topo[j].ip}
<1>1. OK(kv.topo) /\ OK(cache.topo) /\ OK(inst.topo)
  BY Zenon DEF PairsInv, Copies
<1>2. stsNodes \in Seq(Nodes)
  BY TypeFacts
<1>3. ASSUME NEW nodes \in Seq(Nodes),
             \A j \in 1..Len(nodes) : nodes[j].id \in {0, nodes[j].ip}
      PROVE  OK(TopoOf(nodes))
  <2>1. /\ Len(TopoOf(nodes)) = Len(nodes)
        /\ \A j \in 1..Len(nodes) : TopoOf(nodes)[j].ip = nodes[j].ip /\ TopoOf(nodes)[j].id = nodes[j].id
    BY TopoOfFacts, Zenon
  <2> QED
    BY <1>3, <2>1, Zenon
<1>4. ASSUME NEW new, NEW old, SameEntries(new, old), OK(old) PROVE OK(new)
  BY <1>4, Zenon DEF SameEntries
<1>5. OK(<<>>)
  OBVIOUS
<1>6. WorkerWrote => OK(kv'.topo)
  <2> SUFFICES ASSUME WorkerWrote PROVE OK(kv'.topo)
    OBVIOUS
  <2>1. CASE kv'.topo = inst.topo
    BY <1>1, <2>1, Zenon
  <2>2. CASE pc \in {"ping", "publish"} /\ kv'.topo = TopoOf(stsNodes)
    <3>1. \A j \in 1..Len(stsNodes) : stsNodes[j].id \in {0, stsNodes[j].ip}
      BY <2>2, Zenon DEF NodesInv, Listed
    <3>2. OK(TopoOf(stsNodes))
      BY <1>2, <1>3, <3>1, Zenon
    <3> QED
      BY <2>2, <3>2, Zenon
  <2>3. CASE /\ pc = "shrink" /\ Len(stsNodes) > inst.replicas
             /\ kv'.topo = TopoOf(Remaining(stsNodes, Len(stsNodes) - inst.replicas))
    <3> DEFINE left == LeftNodes
    <3>1. inst = kv
      BY AcceptedCopy, Zenon DEF WorkerWrote
    <3>2. left \in Seq(Nodes)
      BY <1>2, RemainingFacts, Zenon DEF LeftNodes
    <3>3. \A k \in 1..Len(left) : left[k].id \in {0, left[k].ip}
      BY <2>3, <3>1, ShrinkPlan, Zenon
    <3> HIDE DEF left
    <3>4. OK(TopoOf(left))
      BY <1>3, <3>2, <3>3, Zenon
    <3> QED
      BY <2>3, <3>4, Zenon DEF left, LeftNodes, Excess
  <2> QED
    BY <2>1, <2>2, <2>3, Zenon DEF WorkerWrote
<1>7. OK(kv'.topo)
  <2>1. FailoverWrote => OK(kv'.topo)
    BY <1>1, <1>4, <1>5, Zenon DEF FailoverWrote
  <2>2. UserWrote => OK(kv'.topo)
    BY <1>1, Zenon DEF UserWrote
  <2> QED
    BY <1>1, <1>6, <2>1, <2>2, KvStep, Zenon
<1>8. OK(cache'.topo) /\ OK(inst'.topo)
  <2>1. cache' \in {cache, kv} /\ inst' \in {inst, cache, kv'}
    BY CopiesStep, Zenon
  <2> HIDE DEF OK
  <2> QED
    BY <1>1, <1>7, <2>1, Zenon
<1> QED
  BY <1>7, <1>8, Zenon DEF PairsInv, Copies

\* CopyOK of a copy c, with the StatefulSet s, the pods p and k replicas wanted.
CopyIn(c, s, p, k) ==
  /\ s.replicas >= InitialSize =>
       \/ /\ ~c.shrink.on
          /\ \A j \in 1..Len(c.topo) : (j - 1) \in DOMAIN p /\ c.topo[j].ip = p[j - 1].ip
       \/ /\ c.shrink.on /\ c.replicas = k /\ c.replicas < InitialSize
          /\ Desired(Planned(c)) \subseteq 0..(InitialSize - 1)
          /\ Part(c.topo, Desired(Planned(c)))
  /\ s.replicas < InitialSize =>
       /\ Part(c.topo, Desired(s))
       /\ c.shrink.on => Range(c.shrink.reserve) = Range(s.reserve)

\* The two are the same, before a step and after.
LEMMA CopyParts ==
  /\ (\A c \in Copies : CopyOK(c)) <=>
       \A c \in {kv, cache, inst} : CopyIn(c, sts, pods, kv.replicas)
  /\ (\A c \in Copies : CopyOK(c))' <=>
       \A c \in {kv', cache', inst'} : CopyIn(c, sts', pods', kv'.replicas)
<1>1. \A c : CopyOK(c) <=> CopyIn(c, sts, pods, kv.replicas)
  BY Zenon DEF CopyOK, CopyIn, Whole, Planned, Part
<1>2. ASSUME NEW c PROVE CopyOK(c)' <=> CopyIn(c, sts', pods', kv'.replicas)
  BY Zenon DEF CopyOK, CopyIn, Whole, Planned, Part
<1> QED
  BY <1>1, <1>2, Zenon DEF Copies

\* Where the worker is agrees with what it has read, and it goes on after
\* cleanStatefulSet only when the StatefulSet has shrunk.
LEMMA ShrinkFlow ==
  ASSUME TypeInv, EditInv, ShrinkInv, [Next]_vars
  PROVE  /\ pc' \in {"clean", "unshrink"} <=> (pc' # "idle" /\ inst'.shrink.on)
         /\ pc' = "unshrink" => sts'.replicas < InitialSize
<1>1. pc \in {"clean", "unshrink"} <=> (pc # "idle" /\ inst.shrink.on)
  BY Zenon DEF ShrinkInv
<1>2. pc = "unshrink" => sts.replicas < InitialSize
  BY Zenon DEF ShrinkInv
<1>3. ~NoShrink.on
  BY DEF NoShrink
<1>4. CASE UNCHANGED <<pc, inst>>
  <2>1. cleanStatefulSet => pc = "clean" /\ pc' = "unshrink"
    BY Zenon DEF cleanStatefulSet, Goto
  <2>2. ScaleUp => pc = "scale"
    BY Zenon DEF ScaleUp
  <2> QED
    BY <1>1, <1>2, <1>4, <2>1, <2>2, StsStep, Zenon
<1>5. CASE pc' = "idle"
  BY <1>5, Zenon
<1>6. CASE Reconcile
  <2>1. inst' = cache /\ pc' = IF cache.shrink.on THEN "clean" ELSE "scale"
    BY <1>6, Zenon DEF Reconcile
  <2> QED
    BY <2>1, Zenon
<1>7. CASE cleanStatefulSet
  <2>1. pc = "clean" /\ pc' = "unshrink" /\ UNCHANGED inst
    BY <1>7, Zenon DEF cleanStatefulSet, Goto
  <2>2. inst.replicas < InitialSize /\ sts'.replicas = inst.replicas
    BY <1>7, Cleans, Zenon
  <2> QED
    BY <1>1, <2>1, <2>2, Zenon
<1>8. CASE pc = "unshrink" /\ pc' = "scale" /\ inst' = kv' /\ WorkerWrote
  <2>1. inst'.shrink = NoShrink
    BY <1>8, Zenon DEF WorkerWrote
  <2> QED
    BY <1>3, <1>8, <2>1, Zenon
<1>9. CASE /\ pc \in Listed \cup {"scale", "list"} /\ pc' \in Listed \cup {"list"}
           /\ UNCHANGED inst
  BY <1>1, <1>9, Zenon DEF Listed
<1>10. CASE pc = "publish" /\ pc' = "shrink" /\ inst' = kv' /\ WorkerWrote
  <2>1. inst'.shrink = inst.shrink
    BY <1>10, Zenon DEF WorkerWrote
  <2> QED
    BY <1>1, <1>10, <2>1, Zenon
<1>11. "topo" \in Listed
  BY DEF Listed
<1> QED
  BY <1>4, <1>5, <1>6, <1>7, <1>8, <1>9, <1>10, <1>11, ControlFlow, Zenon DEF WorkerGoes

\* Status.Shrink stays until the StatefulSet shrinks.
LEMMA ShrinkSeen ==
  ASSUME TypeInv, CopyInv, EditInv, FailedInv, ShrinkInv, [Next]_vars,
         sts'.replicas >= InitialSize
  PROVE  /\ sts.replicas >= InitialSize
         /\ cache'.shrink.on => kv'.shrink = cache'.shrink \/ kv'.status = "Failed"
         /\ inst'.shrink.on => cache'.shrink = inst'.shrink \/ cache'.status = "Failed"
<1>1. InitialSize \in Nat /\ sts.replicas \in Nat /\ inst.replicas \in Nat
  BY SizeFacts, Zenon DEF Copies
<1>2. sts.replicas >= InitialSize
  <2>1. CASE UNCHANGED sts
    BY <2>1, Zenon
  <2>2. CASE cleanStatefulSet
    <3>1. inst.replicas < InitialSize /\ sts'.replicas = inst.replicas
      BY <2>2, Cleans, Zenon
    <3> QED
      BY <1>1, <3>1, SMTT(60)
  <2>3. CASE ScaleUp /\ inst.replicas > sts.replicas
    <3>1. sts.replicas = InitialSize
      BY <2>3, Grows, Zenon
    <3> QED
      BY <1>1, <3>1, SMTT(60)
  <2> QED
    BY <2>1, <2>2, <2>3, StsStep, Zenon
<1>3. /\ cache.shrink.on => kv.shrink = cache.shrink \/ kv.status = "Failed"
      /\ inst.shrink.on => cache.shrink = inst.shrink \/ cache.status = "Failed"
  BY <1>2, Zenon DEF ShrinkInv
<1>4. cache.status = "Failed" => kv.status = "Failed"
  BY Zenon DEF FailedInv
<1>5. pc # "unshrink"
  <2>1. ~(sts.replicas < InitialSize)
    BY <1>1, <1>2, SMTT(60)
  <2> QED
    BY <2>1, Zenon DEF ShrinkInv
<1>6. CASE cache' = kv /\ UNCHANGED <<kv, inst>>
  BY <1>2, <1>3, <1>4, <1>6, Zenon
<1>7. ASSUME cache' = cache, cache.shrink.on
      PROVE  kv'.shrink = cache.shrink \/ kv'.status = "Failed"
  <2>1. UserWrote \/ FailoverWrote => \/ kv'.shrink = kv.shrink /\ kv'.status = kv.status
                                      \/ kv'.status = "Failed"
    BY Zenon DEF UserWrote, FailoverWrote
  <2>2. CASE WorkerWrote
    <3>1. inst = kv
      BY <2>2, AcceptedCopy, Zenon DEF WorkerWrote
    <3>2. CASE pc \in {"ping", "publish"} /\ kv'.shrink = inst.shrink /\ kv'.status = inst.status
      BY <1>3, <1>7, <3>1, <3>2, Zenon
    <3>3. CASE pc = "shrink" /\ kv'.status = inst.status
      <4>1. ~inst.shrink.on
        BY <3>3, ZenonT(60) DEF ShrinkInv
      <4> QED
        BY <1>3, <1>7, <3>1, <3>3, <4>1, Zenon
    <3> QED
      BY <1>5, <2>2, <3>2, <3>3, Zenon DEF WorkerWrote
  <2> QED
    BY <1>3, <1>7, <2>1, <2>2, KvStep, Zenon
<1>8. \/ inst' \in {inst, cache}
      \/ ~inst'.shrink.on
  <2>1. CASE pc = "publish" /\ inst' = kv' /\ WorkerWrote
    <3>1. inst'.shrink = inst.shrink
      BY <2>1, Zenon DEF WorkerWrote
    <3>2. ~inst.shrink.on
      BY <2>1, Zenon DEF ShrinkInv
    <3> QED
      BY <3>1, <3>2, Zenon
  <2> QED
    BY <1>5, <2>1, ControlFlow, Zenon DEF WorkerGoes, Reconcile, cleanStatefulSet, Goto
<1>9. CASE cache' = cache
  BY <1>2, <1>3, <1>7, <1>8, <1>9, Zenon
<1> QED
  BY <1>2, <1>6, <1>9, CopiesStep, Zenon

\* What the worker writes is right for the StatefulSet as it is.
LEMMA WorkerCopy ==
  ASSUME TypeInv, CopyInv, RolesInv, EditInv, PodsInv, NodesInv, ShrinkInv, WorkerWrote
  PROVE  CopyIn(kv', sts, pods, kv'.replicas)
<1>1. InitialSize \in Nat /\ sts.replicas \in Nat /\ stsNodes \in Seq(Nodes)
      /\ Cardinality(Desired(sts)) = sts.replicas
  BY SizeFacts, TypeFacts, Zenon
<1>2. sts.replicas < InitialSize => ~(sts.replicas >= InitialSize)
  BY <1>1, SMTT(60)
<1>3. ~NoShrink.on
  BY Zenon DEF NoShrink
<1>4. inst = kv /\ kv'.replicas = inst.replicas
  BY AcceptedCopy, Zenon DEF WorkerWrote
<1>5. CASE pc = "unshrink" /\ kv'.topo = inst.topo /\ kv'.shrink = NoShrink
  <2>1. sts.replicas < InitialSize /\ CopyOK(inst)
    BY <1>5, Zenon DEF ShrinkInv, Copies
  <2>2. Part(inst.topo, Desired(sts))
    BY <2>1, ZenonT(60) DEF CopyOK
  <2> QED
    BY <1>2, <1>3, <1>5, <2>1, <2>2, Zenon DEF CopyIn
<1>6. CASE pc \in {"ping", "publish"} /\ kv'.topo = TopoOf(stsNodes) /\ kv'.shrink = inst.shrink
  <2>1. pc \in Listed /\ ~kv'.shrink.on
    BY <1>6, Zenon DEF Listed, ShrinkInv
  <2>2. /\ Len(kv'.topo) = Len(stsNodes)
        /\ \A j \in 1..Len(stsNodes) : kv'.topo[j].ip = stsNodes[j].ip
    BY <1>1, <1>6, TopoOfFacts, Zenon
  <2>3. /\ Len(stsNodes) = Cardinality(Desired(sts))
        /\ sts.replicas >= InitialSize =>
             \A j \in 1..Len(stsNodes) : (j - 1) \in DOMAIN pods /\ stsNodes[j].ip = pods[j - 1].ip
        /\ sts.replicas < InitialSize =>
             \A j \in 1..Len(stsNodes) : stsNodes[j].ip = Ascending(Desired(sts))[j] + 1
    BY <1>1, <2>1, ListPlaces, Zenon
  <2>4. sts.replicas < InitialSize => Part(kv'.topo, Desired(sts))
    BY <2>2, <2>3, Zenon DEF Part
  <2> QED
    BY <2>1, <2>2, <2>3, <2>4, Zenon DEF CopyIn
<1>7. CASE /\ pc = "shrink" /\ Len(stsNodes) > inst.replicas
           /\ kv'.topo = TopoOf(Remaining(stsNodes, Len(stsNodes) - inst.replicas))
           /\ kv'.shrink = [on |-> TRUE,
                            reserve |-> Reserve(stsNodes, Len(stsNodes) - inst.replicas)]
  <2>1. kv'.shrink.on = TRUE /\ kv'.shrink.reserve = Reserve(stsNodes, Excess)
    <3>1. ASSUME NEW R
          PROVE  [on |-> TRUE, reserve |-> R].on = TRUE /\ [on |-> TRUE, reserve |-> R].reserve = R
      BY Zenon
    <3> QED
      BY <1>7, <3>1, Zenon DEF Excess
  <2>2. Desired(Planned(kv')) = LeftPods
    BY <1>4, <2>1, Zenon DEF Planned, LeftPods
  <2>3. LeftNodes \in Seq(Nodes)
    BY <1>1, RemainingFacts, Zenon DEF LeftNodes
  <2>4. /\ Len(kv'.topo) = Len(LeftNodes)
        /\ \A k \in 1..Len(LeftNodes) : kv'.topo[k].ip = LeftNodes[k].ip
    <3>1. kv'.topo = TopoOf(LeftNodes)
      BY <1>7, Zenon DEF LeftNodes, Excess
    <3> QED
      BY <2>3, <3>1, TopoOfFacts, Zenon
  <2>5. /\ sts.replicas = InitialSize /\ inst.replicas < InitialSize
        /\ LeftPods \subseteq 0..(InitialSize - 1) /\ Len(LeftNodes) = Cardinality(LeftPods)
        /\ \A k \in 1..Len(LeftNodes) : LeftNodes[k].ip = Ascending(LeftPods)[k] + 1
    BY <1>4, <1>7, ShrinkPlan, Zenon
  <2>6. Part(kv'.topo, LeftPods)
    BY <2>4, <2>5, ZenonT(60) DEF Part
  <2>7. ~(sts.replicas < InitialSize)
    BY <1>1, <2>5, SMTT(60)
  <2> QED
    BY <1>4, <2>1, <2>2, <2>5, <2>6, <2>7, Zenon DEF CopyIn
<1> QED
  BY <1>5, <1>6, <1>7, Zenon DEF WorkerWrote

\* Every step keeps what the copies say right.
LEMMA CopiesKept ==
  ASSUME TypeInv, CopyInv, RolesInv, EditInv, FailedInv, PodsInv, NodesInv, ShrinkInv,
         [Next]_vars, edits' <= 1
  PROVE  (\A c \in Copies : CopyOK(c))'
<1> DEFINE N0 == InitialSize
           k == kv.replicas
<1>1. /\ N0 \in Nat /\ sts.replicas \in Nat /\ inst.replicas \in Nat /\ edits \in Nat
      /\ kv.replicas \in Nat /\ cache.replicas \in Nat
  BY SizeFacts, TypeFacts, Zenon DEF Copies
<1>2. \A c \in {kv, cache, inst} : CopyIn(c, sts, pods, k)
  BY CopyParts, Zenon DEF ShrinkInv
<1>3. sts.replicas < N0 <=> ~(sts.replicas >= N0)
  BY <1>1, SMTT(60)
<1> SUFFICES \A c \in {kv', cache', inst'} : CopyIn(c, sts', pods', kv'.replicas)
  BY CopyParts, Zenon
<1>4. CASE ~UNCHANGED pods
  <2>1. UNCHANGED <<sts, kv, cache, inst>>
    BY <1>4, PodsMove, Zenon
  <2>2. CASE sts.replicas < N0
    <3>1. \A c \in {kv, cache, inst} : CopyIn(c, sts, pods', k)
      BY <1>2, <1>3, <2>2, ZenonT(60) DEF CopyIn
    <3> QED
      BY <2>1, <3>1, Zenon
  <2>3. CASE sts.replicas >= N0
    <3>1. DOMAIN pods \subseteq DOMAIN pods'
      <4>1. \E o : DOMAIN pods' = DOMAIN pods \cup {o}
        BY <1>3, <1>4, <2>3, PodsMove, Zenon
      <4> QED
        BY <4>1, ZenonT(60)
    <3>2. \A o \in DOMAIN pods : pods'[o].ip = pods[o].ip
      <4>1. \A o : PodCreate(o) => o \notin DOMAIN pods
        BY Zenon DEF PodCreate
      <4> QED
        BY <3>1, <4>1, IPsStep, Zenon
    <3>3. \A c \in {kv, cache, inst} : CopyIn(c, sts, pods', k)
      <4> SUFFICES ASSUME NEW c \in {kv, cache, inst} PROVE CopyIn(c, sts, pods', k)
        OBVIOUS
      <4>1. CopyIn(c, sts, pods, k)
        BY <1>2, Zenon
      <4> QED
        BY <1>3, <2>3, <3>1, <3>2, <4>1, Zenon DEF CopyIn
    <3> QED
      BY <2>1, <3>3, Zenon
  <2> QED
    BY <1>3, <2>2, <2>3, ZenonT(60)
<1>5. ASSUME ScaleUp, inst.replicas > sts.replicas
      PROVE  \A c \in {kv', cache', inst'} : CopyIn(c, sts', pods', kv'.replicas)
  <2>1. /\ sts.replicas = N0 /\ sts'.replicas > N0 /\ sts'.replicas = inst.replicas
        /\ kv.replicas = inst.replicas /\ cache.replicas = inst.replicas
        /\ UNCHANGED <<kv, cache, pods>>
    BY <1>5, Grows, Zenon
  <2>2. inst' \in {inst, cache}
    BY <1>5, Zenon DEF ScaleUp, EndReconcile, Goto
  <2>3. ~(inst.replicas < N0) /\ sts.replicas >= N0 /\ ~(sts'.replicas < N0)
    BY <1>1, <2>1, SMTT(60)
  <2>4. \A c \in {kv, cache, inst} : CopyIn(c, sts', pods, k)
    BY <1>2, <2>1, <2>3, Zenon DEF CopyIn
  <2> QED
    BY <2>1, <2>2, <2>4, ZenonT(60)
<1>6. ASSUME cleanStatefulSet
      PROVE  \A c \in {kv', cache', inst'} : CopyIn(c, sts', pods', kv'.replicas)
  <2>1. /\ inst.shrink.on /\ inst.replicas < N0 /\ sts'.replicas = inst.replicas
        /\ kv.replicas = inst.replicas /\ cache.replicas = inst.replicas
        /\ UNCHANGED <<kv, cache, inst, pods>>
        /\ \/ sts.replicas = N0 /\ sts' = Planned(inst)
           \/ /\ sts.replicas = inst.replicas
              /\ Desired(sts') = Desired(sts) /\ Range(sts'.reserve) = Range(sts.reserve)
    BY <1>6, Cleans, Zenon
  <2>2. ~(sts'.replicas >= N0)
    BY <1>1, <2>1, SMTT(60)
  <2>3. CASE sts.replicas = inst.replicas /\ Desired(sts') = Desired(sts)
             /\ Range(sts'.reserve) = Range(sts.reserve)
    <3>1. sts.replicas < N0
      BY <2>1, <2>3, Zenon
    <3>2. \A c \in {kv, cache, inst} : CopyIn(c, sts', pods, k)
      BY <1>2, <2>2, <2>3, <3>1, Zenon DEF CopyIn
    <3> QED
      BY <2>1, <3>2, Zenon
  <2>4. CASE sts.replicas = N0 /\ sts' = Planned(inst)
    <3>1. sts.replicas >= N0
      BY <1>1, <2>4, SMTT(60)
    <3>2. /\ cache.shrink.on => kv.shrink = cache.shrink \/ kv.status = "Failed"
          /\ inst.shrink.on => cache.shrink = inst.shrink \/ cache.status = "Failed"
          /\ cache.status = "Failed" => kv.status = "Failed"
      BY <3>1, Zenon DEF ShrinkInv, FailedInv
    <3>3. \A c \in {kv, cache, inst} : c.shrink = inst.shrink \/ c.status = "Failed"
      BY <2>1, <3>2, Zenon
    <3>4. sts'.reserve = inst.shrink.reserve
      BY <2>4, Zenon DEF Planned
    <3>5. ~NoShrink.on
      BY DEF NoShrink
    <3>6. ASSUME NEW c \in {kv, cache, inst}, c.shrink = inst.shrink
          PROVE  CopyIn(c, sts', pods, k)
      <4>1. c.replicas = inst.replicas
        BY <2>1, Zenon
      <4>2. Planned(c) = sts'
        BY <2>4, <3>6, <4>1, Zenon DEF Planned
      <4>3. CopyIn(c, sts, pods, k) /\ c.shrink.on
        BY <1>2, <2>1, <3>6, Zenon
      <4>4. Part(c.topo, Desired(sts'))
        BY <3>1, <4>2, <4>3, Zenon DEF CopyIn
      <4> QED
        BY <2>2, <3>4, <3>6, <4>4, Zenon DEF CopyIn
    <3>7. ASSUME NEW c \in {kv, cache, inst}, c.status = "Failed"
          PROVE  CopyIn(c, sts', pods, k)
      <4>1. Len(c.topo) = 0 /\ c.shrink = NoShrink
        BY <3>7, Zenon DEF FailedInv, Copies
      <4> QED
        BY <2>2, <3>5, <4>1, Zenon DEF CopyIn, Part
    <3> QED
      BY <2>1, <3>3, <3>6, <3>7, Zenon
  <2> QED
    BY <2>1, <2>3, <2>4, Zenon
<1>7. CASE UNCHANGED <<pods, sts>>
  <2>1. kv'.replicas # k => /\ edits = 0 /\ kv.replicas = N0 /\ cache.replicas = N0
                            /\ inst.replicas = N0 /\ UserWrote
    <3>1. kv'.replicas # k => UserWrote
      <4>1. WorkerWrote => kv'.replicas = kv.replicas
        BY AcceptedCopy, Zenon DEF WorkerWrote
      <4>2. FailoverWrote => kv'.replicas = kv.replicas
        BY Zenon DEF FailoverWrote
      <4> QED
        BY <4>1, <4>2, KvStep, Zenon
    <3>2. UserWrote => edits = 0
      BY <1>1, SMTT(60) DEF UserWrote
    <3> QED
      BY <3>1, <3>2, Zenon DEF EditInv
  <2>2. ~(N0 < N0)
    BY <1>1, SMTT(60)
  <2>3. \A c \in {kv, cache, inst} : CopyIn(c, sts, pods, kv'.replicas)
    <3> SUFFICES ASSUME NEW c \in {kv, cache, inst} PROVE CopyIn(c, sts, pods, kv'.replicas)
      BY SMTT(60)
    <3>1. CopyIn(c, sts, pods, k)
      BY <1>2, Zenon
    <3>2. kv'.replicas # k => ~(c.replicas < N0)
      BY <2>1, <2>2, Zenon
    <3> QED
      BY <3>1, <3>2, Zenon DEF CopyIn
  <2>4. CopyIn(kv', sts, pods, kv'.replicas)
    <3>1. CASE UNCHANGED kv
      BY <2>3, <3>1, Zenon
    <3>2. CASE UserWrote
      <4>1. edits = 0
        BY <1>1, <3>2, SMTT(60) DEF UserWrote
      <4>2. kv.replicas = N0 /\ (sts.replicas # N0 => sts.replicas = kv.replicas)
        BY <4>1, Zenon DEF EditInv
      <4>3. sts.replicas >= N0 /\ ~(sts.replicas < N0) /\ ~(kv.replicas < N0)
        BY <1>1, <4>2, SMTT(60)
      <4>4. kv'.topo = kv.topo /\ kv'.shrink = kv.shrink
        BY <3>2, Zenon DEF UserWrote
      <4>5. CopyIn(kv, sts, pods, k)
        BY <1>2, Zenon
      <4> QED
        BY <4>3, <4>4, <4>5, Zenon DEF CopyIn
    <3>3. CASE kv'.topo = <<>> /\ kv'.shrink = NoShrink
      <4>1. Len(kv'.topo) = 0 /\ 1..Len(kv'.topo) = {} /\ ~kv'.shrink.on
        BY <3>3, SMTT(60) DEF NoShrink
      <4> QED
        BY <4>1, Zenon DEF CopyIn, Part
    <3>4. CASE kv'.shrink = kv.shrink /\ kv'.replicas = kv.replicas /\ SameEntries(kv'.topo, kv.topo)
      <4>1. /\ Len(kv'.topo) = Len(kv.topo)
            /\ \A j \in 1..Len(kv.topo) : kv'.topo[j].ip = kv.topo[j].ip
        BY <3>4, Zenon DEF SameEntries
      <4>2. CopyIn(kv, sts, pods, k)
        BY <1>2, Zenon
      <4>3. ASSUME NEW D, Part(kv.topo, D) PROVE Part(kv'.topo, D)
        BY <4>1, <4>3, Zenon DEF Part
      <4>4. Planned(kv') = Planned(kv)
        BY <3>4, Zenon DEF Planned
      <4>5. /\ Part(kv.topo, Desired(sts)) => Part(kv'.topo, Desired(sts))
            /\ Part(kv.topo, Desired(Planned(kv))) => Part(kv'.topo, Desired(Planned(kv')))
        BY <4>3, <4>4, Zenon
      <4> QED
        BY <3>4, <4>1, <4>2, <4>4, <4>5, Zenon DEF CopyIn
    <3>5. CASE WorkerWrote
      BY <3>5, WorkerCopy, Zenon
    <3> QED
      BY <3>1, <3>2, <3>3, <3>4, <3>5, KvStep, Zenon DEF FailoverWrote
  <2>5. cache' \in {cache, kv} /\ inst' \in {inst, cache, kv'}
    BY CopiesStep, Zenon
  <2> QED
    BY <1>7, <2>3, <2>4, <2>5, Zenon
<1> QED
  BY <1>4, <1>5, <1>6, <1>7, StsStep, Zenon

\* Every step keeps ShrinkInv.
LEMMA ShrinkKept ==
  ASSUME TypeInv, CopyInv, RolesInv, EditInv, FailedInv, PodsInv, NodesInv, ShrinkInv,
         [Next]_vars, edits' <= 1
  PROVE  ShrinkInv'
<1>1. /\ pc' \in {"clean", "unshrink"} <=> (pc' # "idle" /\ inst'.shrink.on)
      /\ pc' = "unshrink" => sts'.replicas < InitialSize
  BY ShrinkFlow, SMTT(60)
<1>2. sts'.replicas >= InitialSize =>
        /\ cache'.shrink.on => kv'.shrink = cache'.shrink \/ kv'.status = "Failed"
        /\ inst'.shrink.on => cache'.shrink = inst'.shrink \/ cache'.status = "Failed"
  BY ShrinkSeen, Zenon
<1>3. (\A c \in Copies : CopyOK(c))'
  BY CopiesKept, SMTT(60)
<1> QED
  BY <1>1, <1>2, <1>3, Zenon DEF ShrinkInv

-----------------------------------------------------------------------------
(* The first edit *)

\* In the beginning everything agrees.
LEMMA FirstInit == Init => EditedInv
<1> SUFFICES ASSUME Init PROVE EditedInv
  OBVIOUS
<1> DEFINE N0 == InitialSize
<1>1. TypeInv /\ N0 \in Nat
  BY InitType, SizesFacts, Zenon
<1>2. /\ kv.replicas = N0 /\ kv.status = "Running" /\ kv.shrink = NoShrink
      /\ kv.topo \in Seq(Entries) /\ Len(kv.topo) = N0
      /\ \A j \in 1..N0 : kv.topo[j].ip = j /\ kv.topo[j].id = j
      /\ cache = kv /\ inst = kv
  <2>1. cache = kv /\ inst = kv
    BY Zenon DEF Init
  <2>2. PICK m, t :
          /\ m \in 0..(N0 - 1)
          /\ t = [ip \in 1..N0 |->
                    [ip |-> ip, id |-> ip, role |-> IF ip = m + 1 THEN "master" ELSE "slave",
                     failover |-> FALSE, master |-> IF ip = m + 1 THEN 0 ELSE m + 1]]
          /\ kv = [rv |-> 1, status |-> "Running", replicas |-> N0,
                   version |-> 1, shrink |-> NoShrink, topo |-> t]
    BY Zenon DEF Init
  <2>3. /\ kv.replicas = N0 /\ kv.status = "Running" /\ kv.shrink = NoShrink /\ kv.topo = t
    BY <2>2, Zenon
  <2>4. DOMAIN t = 1..N0 /\ \A j \in 1..N0 : t[j].ip = j /\ t[j].id = j
    BY <2>2, Zenon
  <2>5. kv.topo \in Seq(Entries)
    BY <1>1, TypeFacts, Zenon DEF KVs
  <2>6. Len(t) = N0
    <3>1. t \in Seq(Entries) /\ DOMAIN t = 1..N0
      BY <2>3, <2>4, <2>5, Zenon
    <3> HIDE DEF N0
    <3>2. Len(t) \in Nat /\ DOMAIN t = 1..Len(t)
      BY <3>1, SMTT(60)
    <3> QED
      BY <1>1, <3>1, <3>2, SMTT(60)
  <2> QED
    BY <2>1, <2>3, <2>4, <2>5, <2>6, Zenon
<1>3. sts.replicas = N0 /\ sts.reserve = <<>> /\ readyReplicas = N0 /\ pc = "idle" /\ edits = 0
  BY DEF Init
<1>4. /\ DOMAIN pods = 0..(N0 - 1)
      /\ \A o \in 0..(N0 - 1) : pods[o].ip = o + 1 /\ pods[o].up = TRUE
  <2>1. pods = [o \in 0..(N0 - 1) |-> [ip |-> o + 1, up |-> TRUE]]
    BY Zenon DEF Init
  <2> QED
    BY <2>1, Zenon
<1>5. ~NoShrink.on
  BY DEF NoShrink
<1> HIDE DEF N0
<1>6. EditInv
  <2>1. ~(N0 < N0)
    BY <1>1, SMTT(60)
  <2> QED
    BY <1>2, <1>3, <2>1, Zenon DEF EditInv, N0
<1>7. FailedInv
  BY <1>2, <1>3, Zenon DEF FailedInv, Copies
<1>8. PodsInv
  <2>1. UpPods = DOMAIN pods
    BY <1>4, Zenon DEF UpPods
  <2>2. Desired(sts) = 0..(N0 - 1)
    <3>1. sts.replicas \in Nat
      BY <1>1, <1>3, Zenon
    <3> QED
      BY <1>3, <3>1, DesiredFirst, Zenon
  <2>3. ~(N0 < N0)
    BY <1>1
  <2>4. pc \notin Listed \cup {"list"}
    BY <1>3, SMTT(60) DEF Listed
  <2> QED
    BY <1>3, <1>4, <2>1, <2>2, <2>3, <2>4, Zenon DEF PodsInv, N0
<1>9. NodesInv
  <2>1. pc \notin Listed
    BY <1>3, Zenon DEF Listed
  <2> QED
    BY <2>1, Zenon DEF NodesInv
<1>10. ShrinkInv
  <2>1. ~(N0 < N0)
    BY <1>1
  <2>2. \A j \in 1..N0 : (j - 1) \in DOMAIN pods /\ j = pods[j - 1].ip
    <3>1. \A j \in 1..N0 : j - 1 \in 0..(N0 - 1) /\ (j - 1) + 1 = j
      BY <1>1, SMTT(60)
    <3> QED
      BY <1>4, <3>1, Zenon
  <2>3. CopyIn(kv, sts, pods, kv.replicas)
    <3>1. ~(sts.replicas < N0)
      BY <1>3, <2>1, Zenon
    <3>2. \A j \in 1..Len(kv.topo) : (j - 1) \in DOMAIN pods /\ kv.topo[j].ip = pods[j - 1].ip
      <4> SUFFICES ASSUME NEW j \in 1..N0
                   PROVE  (j - 1) \in DOMAIN pods /\ kv.topo[j].ip = pods[j - 1].ip
        BY <1>2, Zenon
      <4>1. kv.topo[j].ip = j
        BY <1>2, Zenon
      <4> QED
        BY <2>2, <4>1, Zenon
    <3>3. ~kv.shrink.on
      BY <1>2, <1>5, Zenon
    <3> QED
      BY <3>1, <3>2, <3>3, Zenon DEF CopyIn, N0
  <2>4. \A c \in Copies : CopyOK(c)
    BY <1>2, <2>3, CopyParts, Zenon
  <2> QED
    BY <1>2, <1>3, <1>5, <2>4, Zenon DEF ShrinkInv
<1>11. PairsInv
  BY <1>2, Zenon DEF PairsInv, Copies
<1> QED
  BY <1>6, <1>7, <1>8, <1>9, <1>10, <1>11, Zenon DEF EditedInv

\* The first edit comes before any other.
LEMMA EditsGrow ==
  ASSUME TypeInv, [Next]_vars, edits' <= 1
  PROVE  edits <= 1
<1>1. edits \in Nat
  BY TypeFacts, Zenon
<1>2. edits' = edits \/ edits' = edits + 1
  BY KvStep, Zenon DEF UserWrote, FailoverWrote, WorkerWrote
<1> QED
  BY <1>1, <1>2, SMTT(60)

\* Every step keeps the agreement.
LEMMA FirstStep == TypeInv /\ CopyInv /\ RolesInv /\ FirstInv /\ [Next]_vars => FirstInv'
<1> SUFFICES ASSUME TypeInv, CopyInv, RolesInv, FirstInv, [Next]_vars, edits' <= 1
             PROVE  EditedInv'
  BY DEF FirstInv, FirstEdit
<1>1. EditInv /\ FailedInv /\ PodsInv /\ NodesInv /\ ShrinkInv /\ PairsInv
  BY EditsGrow, Zenon DEF FirstInv, FirstEdit, EditedInv
<1>2. EditInv'
  BY <1>1, EditStep, Zenon
<1>3. FailedInv'
  BY <1>1, FailedStep, Zenon
<1>4. PodsInv'
  BY <1>1, <1>2, PodsKept, ZenonT(60)
<1>5. NodesInv'
  BY <1>1, NodesKept, Zenon
<1>6. ShrinkInv'
  BY <1>1, ShrinkKept, Zenon
<1>7. PairsInv'
  BY <1>1, PairsKept, Zenon
<1> QED
  BY <1>2, <1>3, <1>4, <1>5, <1>6, <1>7, Zenon DEF EditedInv

\* During a first edit an entry of Status.Topo never pairs the ip of one node with
\* the id of another, although ensureKubernetes copies the ids by position, whatever
\* outages, kills and stale reads happen.
THEOREM EntriesPaired == Spec => []TopoPairs
<1>1. FirstInv => TopoPairs
  BY Zenon DEF FirstInv, EditedInv, PairsInv, Copies, TopoPairs
<1> QED
  BY <1>1, InitType, TypeStep, CopyInit, CopyStep, RolesInit, RolesStep, FirstInit, FirstStep, PTL
     DEF Spec, FirstInv

\* During a first edit no index leaves the list of nodes: neither the position of an
\* entry of Status.Topo in ensureKubernetes, nor the ordinal of a pod in
\* getReserveIndex.
THEOREM IndexesInRange == Spec => [](FirstEdit => IndexInRange)
<1>1. TypeInv /\ FirstInv => (FirstEdit => IndexInRange)
  <2> SUFFICES ASSUME TypeInv, FirstInv, FirstEdit PROVE IndexInRange
    OBVIOUS
  <2>1. EditInv /\ PodsInv /\ NodesInv /\ ShrinkInv
    BY Zenon DEF FirstInv, EditedInv
  <2>2. pc = "topo" => Len(inst.topo) <= Len(stsNodes)
    <3>1. pc = "topo" => pc \in Listed
      BY DEF Listed
    <3> QED
      BY <2>1, <3>1, TopoMatches, Zenon
  <2>3. ASSUME pc = "shrink", Len(stsNodes) > inst.replicas,
               NEW o \in Victims(stsNodes, Len(stsNodes) - inst.replicas)
        PROVE  o < Len(stsNodes)
    <3>1. pc \in Listed
      BY <2>3, SMTT(60) DEF Listed
    <3>2. /\ Len(stsNodes) = sts.replicas
          /\ sts.replicas >= InitialSize => \A j \in 1..Len(stsNodes) : stsNodes[j].idx = j - 1
      BY <2>1, <3>1, ListPlaces, Zenon
    <3>3. InitialSize \in Nat /\ sts.replicas \in Nat /\ inst.replicas \in Nat
      BY SizeFacts, Zenon DEF Copies
    <3>4. sts.replicas >= InitialSize
      <4>1. sts.replicas < InitialSize => inst.replicas = sts.replicas
        BY <2>1, Zenon DEF EditInv
      <4> QED
        BY <2>3, <3>2, <3>3, <4>1, SMTT(60)
    <3>5. PICK j \in 1..Len(stsNodes) : o = stsNodes[j].idx
      BY <2>3, Zenon DEF Victims
    <3>6. o = j - 1
      BY <3>2, <3>4, <3>5, Zenon
    <3> QED
      BY <3>2, <3>3, <3>6, SMTT(60)
  <2> QED
    BY <2>2, <2>3, Zenon DEF IndexInRange
<1> QED
  BY <1>1, InitType, TypeStep, CopyInit, CopyStep, RolesInit, RolesStep, FirstInit, FirstStep, PTL
     DEF Spec, FirstInv

\* Claims go with pods that are gone, and when the worker deletes them.
LEMMA ClaimsStep ==
  ASSUME [Next]_vars
  PROVE  \/ UNCHANGED <<pvcs, doomed>>
         \/ \E o \in Ordinals : PodCreate(o)
         \/ \E o \in Ordinals : PodGone(o)
         \/ pc = "ping" /\ pos <= Len(stsNodes) /\ ~Serving(stsNodes[pos].ip)
         \/ cleanPersistentVolumeClaim
<1>1. CASE UNCHANGED <<pvcs, doomed>>
  BY <1>1, SMTT(60)
<1>2. CASE Ping
  BY <1>1, <1>2, ZenonT(60) DEF Ping, claimVars
<1>3. CASE \/ Reconcile \/ ClearShrink \/ ListPods \/ FixTopo \/ EndFailover
           \/ updateCluster \/ SetNodeID \/ ScaleUp \/ cleanStatefulSet
  BY <1>1, <1>3, ZenonT(60)
     DEF Reconcile, ClearShrink, ListPods, FixTopo, EndFailover, updateCluster, SetNodeID,
         ScaleUp, cleanStatefulSet, Abort, Panic, WorkerUpdate, podVars, claimVars
<1>4. CASE \/ Publish \/ ensureShrink \/ OperatorKilled
           \/ CacheSync \/ StatusSync \/ UNCHANGED vars
  BY <1>1, <1>4, ZenonT(60)
     DEF Publish, ensureShrink, OperatorKilled, CacheSync, StatusSync,
         vars, Abort, Panic, WorkerUpdate, podVars, claimVars
<1>5. CASE \/ \E n \in Sizes : EditReplicas(n)
           \/ \E ip \in DOMAIN ctl : Odown(ip)
           \/ \E ip \in msgs : handleFailover(ip)
  BY <1>1, <1>5, Zenon DEF EditReplicas, Odown, handleFailover, podVars, claimVars
<1>6. CASE \E o \in Ordinals : PodScaleDown(o)
  BY <1>1, <1>6, Zenon DEF PodScaleDown, claimVars
<1> QED
  BY <1>2, <1>3, <1>4, <1>5, <1>6, ZenonT(60) DEF Next, WorkerStep, PodStep

\* During a first edit neither cleanPersistentVolumeClaim nor ensureFailover deletes
\* the claim of an ordinal the StatefulSet wants, although they work with the pods
\* listed before.
THEOREM VolumesKept == Spec => KeepsVolumes
<1>1. TypeInv /\ FirstInv /\ [Next]_vars
        => [FirstEdit => (pvcs \ doomed) \cap Desired(sts) \subseteq pvcs' \ doomed']_vars
  <2> SUFFICES ASSUME TypeInv, FirstInv, [Next]_vars, FirstEdit
               PROVE  (pvcs \ doomed) \cap Desired(sts) \subseteq pvcs' \ doomed'
    BY Zenon
  <2>1. EditInv /\ PodsInv /\ NodesInv
    BY Zenon DEF FirstInv, EditedInv
  <2>2. CASE UNCHANGED <<pvcs, doomed>>
    BY <2>2, Zenon
  <2>3. ASSUME NEW o \in Ordinals, PodCreate(o) \/ PodGone(o)
        PROVE  (pvcs \ doomed) \cap Desired(sts) \subseteq pvcs' \ doomed'
    BY <2>3, Zenon DEF PodCreate, PodGone, Removed
  <2>4. ASSUME pc = "ping", pos <= Len(stsNodes), ~Serving(stsNodes[pos].ip) PROVE FALSE
    <3>1. pos \in 1..(Len(stsNodes) + 1) /\ stsNodes \in Seq(Nodes)
      BY TypeParts, Zenon DEF WorkerOK
    <3>2. pos \in 1..Len(stsNodes)
      BY <2>4, <3>1, SMTT(60)
    <3>3. pc \in Listed
      BY <2>4, Zenon DEF Listed
    <3> QED
      BY <2>1, <2>4, <3>2, <3>3, ListServes, Zenon
  <2>5. CASE cleanPersistentVolumeClaim
    <3>1. pc \in Listed
      BY <2>5, Zenon DEF cleanPersistentVolumeClaim, Listed
    <3>2. /\ DOMAIN pods = Desired(sts) /\ Len(stsNodes) = Cardinality(DOMAIN pods)
          /\ \A j \in 1..Len(stsNodes) : stsNodes[j].idx = Ascending(DOMAIN pods)[j]
      BY <2>1, <3>1, ListPlaces, Zenon DEF NodesInv
    <3>3. /\ Range(Ascending(DOMAIN pods)) = DOMAIN pods
          /\ DOMAIN Ascending(DOMAIN pods) = 1..Len(stsNodes)
      <4> DEFINE D == DOMAIN pods
      <4>1. /\ Ascending(D) \in Seq(D) /\ Len(Ascending(D)) = Cardinality(D)
            /\ Range(Ascending(D)) = D
        BY PodsFinite, AscendingFacts, Zenon
      <4> HIDE DEF D
      <4>2. DOMAIN Ascending(D) = 1..Len(Ascending(D))
        BY <4>1, SMTT(60)
      <4> QED
        BY <3>2, <4>1, <4>2, Zenon DEF D
    <3>4. Desired(sts) \subseteq {stsNodes[j].idx : j \in 1..Len(stsNodes)}
      BY <3>2, <3>3, ZenonT(60) DEF Range
    <3> QED
      BY <2>5, <3>4, Zenon DEF cleanPersistentVolumeClaim
  <2> QED
    BY <2>2, <2>3, <2>4, <2>5, ClaimsStep, Zenon
<1> QED
  BY <1>1, InitType, TypeStep, CopyInit, CopyStep, RolesInit, RolesStep, FirstInit, FirstStep, PTL
     DEF Spec, FirstInv, KeepsVolumes

-----------------------------------------------------------------------------
(* The master *)

\* Without outages the master of the beginning stays, and no plan gives it up.
MasterInv(m) ==
  /\ msgs = {}
  /\ MastersIn(ctl) = {m + 1}
  /\ m \in Desired(sts)
  /\ sts.replicas >= InitialSize =>
       \A c \in Copies : c.shrink.on => m \in Desired(Planned(c))
  /\ pc \in {"publish", "shrink"} =>
       \A j \in 1..Len(stsNodes) : IsMaster(stsNodes[j]) <=> stsNodes[j].ip = m + 1

\* The inductive invariant of a first edit without outages.
LeaderInv == FirstEdit /\ outages = 0 => \E m \in 0..(InitialSize - 1) : MasterInv(m)

\* Failover messages come from an outage, or when a node of the worker's list does
\* not serve.
LEMMA MsgsStep ==
  ASSUME [Next]_vars
  PROVE  \/ UNCHANGED outages /\ msgs' \in {msgs, {}}
         \/ \E ip \in msgs : handleFailover(ip) /\ UNCHANGED outages
         \/ /\ pc = "ping" /\ pos <= Len(stsNodes) /\ ~Serving(stsNodes[pos].ip)
            /\ UNCHANGED outages
         \/ outages' = outages + 1
<1>1. CASE UNCHANGED outages /\ msgs' \in {msgs, {}}
  BY <1>1, Zenon
<1>2. CASE Ping
  BY <1>1, <1>2, ZenonT(60) DEF Ping, claimVars, countVars
<1>3. CASE \/ Reconcile \/ ClearShrink \/ ListPods \/ FixTopo \/ EndFailover
           \/ updateCluster \/ SetNodeID \/ ScaleUp \/ cleanStatefulSet
  BY <1>1, <1>3, ZenonT(60)
     DEF Reconcile, ClearShrink, ListPods, FixTopo, EndFailover, updateCluster, SetNodeID,
         ScaleUp, cleanStatefulSet, Abort, Panic, WorkerUpdate, countVars
<1>4. CASE \/ Publish \/ ensureShrink \/ OperatorKilled \/ cleanPersistentVolumeClaim
           \/ CacheSync \/ StatusSync \/ UNCHANGED vars
  BY <1>1, <1>4, ZenonT(60)
     DEF Publish, ensureShrink, OperatorKilled, cleanPersistentVolumeClaim, CacheSync, StatusSync,
         vars, Abort, Panic, WorkerUpdate, countVars
<1>5. CASE \/ \E n \in Sizes : EditReplicas(n)
           \/ \E ip \in DOMAIN ctl : Odown(ip)
           \/ \E ip \in msgs : handleFailover(ip)
  BY <1>1, <1>5, Zenon DEF EditReplicas, Odown, handleFailover, countVars
<1>6. CASE \E o \in Ordinals : PodStep(o)
  BY <1>1, <1>6, Zenon DEF PodStep, PodCreate, PodScaleDown, PodGone, countVars
<1> QED
  BY <1>2, <1>3, <1>4, <1>5, <1>6, ZenonT(60) DEF Next, WorkerStep

\* The pod of the master is there, and no other has its ip.
LEMMA MasterPod ==
  ASSUME TypeInv, RolesInv, PodsInv, NEW m \in 0..(InitialSize - 1), m \in Desired(sts)
  PROVE  /\ m \in DOMAIN pods /\ pods[m].ip = m + 1
         /\ \A o \in DOMAIN pods : pods[o].ip = m + 1 => o = m
<1>1. InitialSize \in Nat /\ sts.replicas \in Nat
  BY SizeFacts, Zenon
<1>2. m < InitialSize /\ (sts.replicas >= InitialSize \/ sts.replicas < InitialSize)
  BY <1>1, SMTT(60)
<1>3. m \in DOMAIN pods
  BY <1>2, Zenon DEF PodsInv, UpPods
<1>4. pods[m].ip = m + 1
  BY <1>2, <1>3, Zenon DEF PodsInv
<1> QED
  BY <1>3, <1>4, Zenon DEF RolesInv

\* A worker that has listed the pods has the master's among them.
LEMMA MasterListed ==
  ASSUME TypeInv, RolesInv, EditInv, PodsInv, NodesInv, pc \in Listed,
         NEW m \in 0..(InitialSize - 1), m \in Desired(sts)
  PROVE  /\ m + 1 \in IPsOf(stsNodes)
         /\ \A j \in 1..Len(stsNodes) : stsNodes[j].ip = m + 1 => stsNodes[j].idx = m
<1> DEFINE D == DOMAIN pods
<1>1. /\ m \in D /\ pods[m].ip = m + 1 /\ \A o \in D : pods[o].ip = m + 1 => o = m
  BY MasterPod, Zenon
<1>2. /\ Len(stsNodes) = Cardinality(D)
      /\ \A j \in 1..Len(stsNodes) : /\ stsNodes[j].idx = Ascending(D)[j]
                                     /\ stsNodes[j].ip = pods[Ascending(D)[j]].ip
  BY Zenon DEF NodesInv
<1>3. /\ Ascending(D) \in Seq(D) /\ Len(Ascending(D)) = Cardinality(D)
      /\ Range(Ascending(D)) = D
  BY PodsFinite, AscendingFacts, Zenon
<1> HIDE DEF D
<1>4. DOMAIN Ascending(D) = 1..Len(stsNodes) /\ \A j \in 1..Len(stsNodes) : Ascending(D)[j] \in D
  BY <1>2, <1>3, SMTT(60)
<1>5. PICK j \in 1..Len(stsNodes) : Ascending(D)[j] = m
  BY <1>1, <1>3, <1>4, Zenon DEF Range
<1>6. stsNodes[j].ip = m + 1
  BY <1>1, <1>2, <1>5, Zenon
<1>7. m + 1 \in IPsOf(stsNodes)
  BY <1>6, Zenon DEF IPsOf
<1> QED
  BY <1>1, <1>2, <1>4, <1>7, ZenonT(60)

\* In the beginning one of the first pods is the master.
LEMMA LeaderInit == Init => LeaderInv
<1> SUFFICES ASSUME Init PROVE \E m \in 0..(InitialSize - 1) : MasterInv(m)
  BY DEF LeaderInv
<1>1. InitialSize \in Nat /\ ~NoShrink.on
  BY SizesFacts, Zenon DEF NoShrink
<1>2. PICK m \in 0..(InitialSize - 1) :
        /\ ctl = [ip \in 1..InitialSize |-> IF ip = m + 1 THEN "master" ELSE "slave"]
        /\ \E t : kv = [rv |-> 1, status |-> "Running", replicas |-> InitialSize,
                       version |-> 1, shrink |-> NoShrink, topo |-> t]
  BY Zenon DEF Init
<1>3. MastersIn(ctl) = {m + 1}
  <2>1. m + 1 \in 1..InitialSize
    BY <1>1, SMTT(60)
  <2> QED
    BY <1>2, <2>1, Zenon DEF MastersIn
<1>4. m \in Desired(sts)
  <2>1. sts.replicas = InitialSize /\ sts.reserve = <<>>
    BY Zenon DEF Init
  <2>2. Desired(sts) = 0..(InitialSize - 1)
    BY <1>1, <2>1, DesiredFirst, Zenon
  <2> QED
    BY <2>2, Zenon
<1>5. msgs = {} /\ pc = "idle" /\ cache = kv /\ inst = kv
  BY Zenon DEF Init
<1>6. kv.shrink = NoShrink
  BY <1>2, SMTT(60)
<1> QED
  BY <1>1, <1>3, <1>4, <1>5, <1>6, Zenon DEF MasterInv, Copies

\* Without outages the master stays, and no plan of the worker gives it up.
LEMMA MasterStays ==
  ASSUME TypeInv, CopyInv, RolesInv, EditedInv, [Next]_vars, edits' <= 1,
         outages \in Nat, outages' = 0,
         NEW m \in 0..(InitialSize - 1), MasterInv(m)
  PROVE  MasterInv(m)'
<1>1. EditInv /\ FailedInv /\ PodsInv /\ NodesInv /\ ShrinkInv /\ PairsInv
  BY Zenon DEF EditedInv
<1>2. /\ InitialSize \in Nat /\ sts.replicas \in Nat /\ inst.replicas \in Nat /\ edits \in Nat
      /\ kv.replicas \in Nat /\ stsNodes \in Seq(Nodes)
      /\ DOMAIN ctl \subseteq IPs /\ \A ip \in DOMAIN ctl : ctl[ip] \in {"master", "slave"}
  BY SizeFacts, TypeFacts, Zenon DEF Copies
<1>3. /\ msgs = {} /\ MastersIn(ctl) = {m + 1} /\ m \in Desired(sts)
      /\ sts.replicas >= InitialSize =>
           \A c \in Copies : c.shrink.on => m \in Desired(Planned(c))
      /\ pc \in {"publish", "shrink"} =>
           \A j \in 1..Len(stsNodes) : IsMaster(stsNodes[j]) <=> stsNodes[j].ip = m + 1
  BY Zenon DEF MasterInv
<1>4. pc \in Listed =>
        /\ m + 1 \in IPsOf(stsNodes)
        /\ \A j \in 1..Len(stsNodes) : stsNodes[j].ip = m + 1 => stsNodes[j].idx = m
  BY <1>1, <1>3, MasterListed, Zenon
<1>5. msgs' = {}
  <2>1. outages' # outages + 1
    BY <1>2, SMTT(60)
  <2>2. ASSUME pc = "ping", pos <= Len(stsNodes), ~Serving(stsNodes[pos].ip) PROVE FALSE
    <3>1. pos \in 1..(Len(stsNodes) + 1)
      BY TypeParts, Zenon DEF WorkerOK
    <3>2. pos \in 1..Len(stsNodes)
      BY <1>2, <2>2, <3>1, SMTT(60)
    <3>3. pc \in Listed
      BY <2>2, Zenon DEF Listed
    <3> QED
      BY <1>1, <2>2, <3>2, <3>3, ListServes, Zenon
  <2> QED
    BY <1>3, <2>1, <2>2, MsgsStep, Zenon
<1>6. MastersIn(ctl') = {m + 1}
  <2>1. CASE UNCHANGED ctl
    BY <1>3, <2>1, Zenon DEF MastersIn
  <2>2. CASE updateCluster /\ ctl' = Extended(Kept(ctl, Replicated(stsNodes)), Replicated(stsNodes))
    <3> DEFINE nodes == Replicated(stsNodes)
    <3>1. /\ Len(nodes) = Len(stsNodes) /\ \A j \in 1..Len(stsNodes) : nodes[j].ip = stsNodes[j].ip
      BY <1>2, ReplicatedFacts, Zenon DEF SamePods
    <3>2. m + 1 \in IPsOf(nodes)
      <4>1. pc \in Listed
        BY <2>2, Zenon DEF updateCluster, Listed
      <4>2. m + 1 \in IPsOf(stsNodes)
        BY <1>4, <4>1, Zenon
      <4> QED
        BY <3>1, <4>2, Zenon DEF IPsOf
    <3>3. Len(nodes) \in Nat /\ \A a, b \in MastersIn(ctl) : a = b
      <4>1. Len(stsNodes) \in Nat
        BY <1>2, SMTT(60)
      <4> QED
        BY <1>3, <3>1, <4>1, Zenon
    <3>4. MastersIn(ctl) \cap IPsOf(nodes) # {}
      BY <1>3, <3>2, ZenonT(60)
    <3> HIDE DEF nodes
    <3>5. MastersIn(Extended(Kept(ctl, nodes), nodes)) = MastersIn(ctl)
      BY <3>3, <3>4, ExtendedRoles, ZenonT(60)
    <3> QED
      BY <1>3, <2>2, <3>5, Zenon DEF nodes
  <2> QED
    BY <1>3, <2>1, <2>2, CtlStep, Zenon
<1>7. m \in Desired(sts')
  <2>1. CASE UNCHANGED sts
    BY <1>3, <2>1, Zenon
  <2>2. CASE cleanStatefulSet
    <3>1. /\ inst.shrink.on
          /\ \/ sts.replicas = InitialSize /\ sts' = Planned(inst)
             \/ Desired(sts') = Desired(sts)
      BY <1>1, <2>2, Cleans, Zenon
    <3>2. sts.replicas = InitialSize => sts.replicas >= InitialSize
      BY <1>2, SMTT(60)
    <3> QED
      BY <1>3, <3>1, <3>2, Zenon DEF Copies
  <2>3. CASE ScaleUp /\ inst.replicas > sts.replicas
    <3>1. sts'.replicas = inst.replicas /\ sts'.replicas > InitialSize /\ sts'.reserve = <<>>
      BY <1>1, <2>3, Grows, Zenon
    <3> DEFINE new == sts'
    <3>2. new.replicas \in Nat /\ new.reserve = <<>> /\ new.replicas > InitialSize
      BY <1>2, <3>1, Zenon
    <3> HIDE DEF new
    <3>3. Desired(new) = 0..(new.replicas - 1)
      BY <3>2, DesiredFirst, Zenon
    <3>4. m \in 0..(new.replicas - 1)
      BY <1>2, <3>2, SMTT(60)
    <3> QED
      BY <3>3, <3>4, Zenon DEF new
  <2> QED
    BY <2>1, <2>2, <2>3, StsStep, Zenon
<1>8. ASSUME sts'.replicas >= InitialSize
      PROVE  \A c \in {kv', cache', inst'} : c.shrink.on => m \in Desired(Planned(c))
  <2>1. sts.replicas >= InitialSize
    BY <1>1, <1>8, ShrinkSeen, Zenon
  <2>2. \A c \in {kv, cache, inst} : c.shrink.on => m \in Desired(Planned(c))
    BY <1>3, <2>1, Zenon DEF Copies
  <2>3. kv'.shrink.on => m \in Desired(Planned(kv'))
    <3>1. CASE UNCHANGED kv
      BY <2>2, <3>1, Zenon
    <3>2. CASE UserWrote
      <4>1. edits = 0 /\ kv'.shrink = kv.shrink
        BY <1>2, <3>2, SMTT(60) DEF UserWrote
      <4>2. kv.replicas = InitialSize
        BY <1>1, <4>1, Zenon DEF EditInv
      <4>3. ~(kv.replicas < InitialSize)
        BY <1>2, <4>2, SMTT(60)
      <4>4. ~kv.shrink.on
        BY <1>1, <2>1, <4>3, Zenon DEF ShrinkInv, Copies, CopyOK
      <4> QED
        BY <4>1, <4>4, Zenon
    <3>3. CASE kv'.shrink = NoShrink
      <4>1. ~NoShrink.on
        BY DEF NoShrink
      <4> QED
        BY <3>3, <4>1, Zenon
    <3>4. CASE kv'.shrink = kv.shrink /\ kv'.replicas = kv.replicas
      BY <2>2, <3>4, Zenon DEF Planned
    <3>5. CASE WorkerWrote /\ pc = "shrink"
      <4>1. /\ inst = kv /\ kv'.replicas = inst.replicas /\ Len(stsNodes) > inst.replicas
            /\ kv'.shrink = [on |-> TRUE, reserve |-> Reserve(stsNodes, Excess)]
        BY <3>5, AcceptedCopy, Zenon DEF WorkerWrote, Excess
      <4>2. kv'.shrink.reserve = Reserve(stsNodes, Excess)
        BY <4>1, SMTT(60)
      <4>3. Desired(Planned(kv')) = LeftPods
        BY <4>1, <4>2, Zenon DEF Planned, LeftPods
      <4>4. PICK j \in 1..Len(stsNodes) : IsMaster(stsNodes[j])
        BY <3>5, Zenon DEF RolesInv
      <4>5. stsNodes[j].idx \in LeftPods
        BY <1>1, <3>5, <4>1, <4>4, ShrinkPlan, Zenon
      <4>6. stsNodes[j].idx = m
        BY <1>3, <1>4, <3>5, <4>4, Zenon DEF Listed
      <4> QED
        BY <4>3, <4>5, <4>6, Zenon
    <3>6. WorkerWrote => inst = kv
      BY AcceptedCopy, Zenon DEF WorkerWrote
    <3> QED
      BY <3>1, <3>2, <3>3, <3>4, <3>5, <3>6, KvStep, Zenon DEF FailoverWrote, WorkerWrote
  <2>4. cache' \in {cache, kv} /\ inst' \in {inst, cache, kv'}
    BY CopiesStep, Zenon
  <2> QED
    BY <2>2, <2>3, <2>4, Zenon
<1>9. ASSUME pc' \in {"publish", "shrink"}
      PROVE  \A j \in 1..Len(stsNodes') : IsMaster(stsNodes'[j]) <=> stsNodes'[j].ip = m + 1
  <2>1. CASE UNCHANGED <<pc, stsNodes>> \/ (pc = "publish" /\ UNCHANGED stsNodes)
    BY <1>3, <1>9, <2>1, Zenon
  <2>2. CASE SetNodeID /\ stsNodes' = Identified(stsNodes, ctl) /\ MastersIn(ctl) # {}
    <3>1. pc = "setid" /\ DOMAIN ctl = IPsOf(stsNodes)
      BY <2>2, ZenonT(60) DEF SetNodeID, RolesInv
    <3>2. DOMAIN ctl \subseteq Nat
      BY <1>2, SMTT(60) DEF IPs
    <3>3. /\ SamePods(Identified(stsNodes, ctl), stsNodes)
          /\ \A j \in 1..Len(stsNodes) :
               stsNodes[j].ip \in DOMAIN ctl =>
                 Identified(stsNodes, ctl)[j].role = ctl[stsNodes[j].ip]
      BY <1>2, <2>2, <3>2, IdentifiedFacts, ZenonT(60)
    <3>4. \A ip \in DOMAIN ctl : ctl[ip] = "master" <=> ip = m + 1
      <4>1. \A ip \in DOMAIN ctl : ip \in MastersIn(ctl) <=> ctl[ip] = "master"
        BY Zenon DEF MastersIn
      <4> QED
        BY <1>3, <4>1, Zenon
    <3> SUFFICES ASSUME NEW j \in 1..Len(stsNodes)
                 PROVE  IsMaster(stsNodes'[j]) <=> stsNodes'[j].ip = m + 1
      BY <2>2, <3>3, Zenon DEF SamePods
    <3>5. stsNodes[j].ip \in DOMAIN ctl
      BY <3>1, Zenon DEF IPsOf
    <3>6. stsNodes'[j].role = ctl[stsNodes[j].ip] /\ stsNodes'[j].ip = stsNodes[j].ip
      BY <2>2, <3>3, <3>5, Zenon DEF SamePods
    <3> QED
      BY <3>4, <3>5, <3>6, Zenon DEF IsMaster
  <2> QED
    BY <1>9, <2>1, <2>2, PublishFlow, Zenon
<1> QED
  BY <1>5, <1>6, <1>7, <1>8, <1>9, Zenon DEF MasterInv, Copies, Planned, MastersIn, IsMaster

\* So it stays as long as the user has edited spec.replicas at most once.
LEMMA LeaderStep ==
  TypeInv /\ CopyInv /\ RolesInv /\ FirstInv /\ LeaderInv /\ [Next]_vars => LeaderInv'
<1> SUFFICES ASSUME TypeInv, CopyInv, RolesInv, FirstInv, LeaderInv, [Next]_vars,
                    edits' <= 1, outages' = 0
             PROVE  \E m \in 0..(InitialSize - 1) : MasterInv(m)'
  BY DEF LeaderInv, FirstEdit
<1>1. edits <= 1
  BY EditsGrow, Zenon
<1>2. outages \in Nat /\ outages = 0
  <2>1. outages \in Nat
    BY TypeParts, ZenonT(60) DEF CountersOK
  <2>2. outages' = outages \/ outages' = outages + 1
    BY MsgsStep, Zenon
  <2> QED
    BY <2>1, <2>2, SMTT(60)
<1>3. EditedInv
  BY <1>1, Zenon DEF FirstInv, FirstEdit
<1>4. PICK m \in 0..(InitialSize - 1) : MasterInv(m)
  BY <1>1, <1>2, Zenon DEF LeaderInv, FirstEdit
<1>5. MasterInv(m)'
  BY <1>2, <1>3, <1>4, MasterStays, Zenon
<1> QED
  BY <1>5, Zenon

\* Only the user edits spec.replicas, and only Odown is an outage.
LEMMA EditsStep ==
  ASSUME [Next]_vars
  PROVE  /\ UNCHANGED edits \/ \E n \in Sizes : EditReplicas(n)
         /\ UNCHANGED outages \/ \E ip : Odown(ip)
<1>1. CASE UNCHANGED <<edits, outages>>
  BY <1>1, Zenon
<1>2. CASE \/ Reconcile \/ ClearShrink \/ ListPods \/ FixTopo \/ EndFailover \/ Ping
           \/ updateCluster \/ SetNodeID \/ ScaleUp \/ cleanStatefulSet
  BY <1>1, <1>2, ZenonT(60)
     DEF Reconcile, ClearShrink, ListPods, FixTopo, EndFailover, Ping, updateCluster, SetNodeID,
         ScaleUp, cleanStatefulSet, Abort, Panic, WorkerUpdate, countVars
<1>3. CASE \/ Publish \/ ensureShrink \/ OperatorKilled \/ cleanPersistentVolumeClaim
           \/ CacheSync \/ StatusSync \/ UNCHANGED vars
  BY <1>1, <1>3, ZenonT(60)
     DEF Publish, ensureShrink, OperatorKilled, cleanPersistentVolumeClaim, CacheSync, StatusSync,
         vars, Abort, Panic, WorkerUpdate, countVars
<1>4. CASE \/ \E n \in Sizes : EditReplicas(n)
           \/ \E ip \in DOMAIN ctl : Odown(ip)
           \/ \E ip \in msgs : handleFailover(ip)
  BY <1>1, <1>4, ZenonT(60) DEF EditReplicas, Odown, handleFailover, countVars
<1>5. CASE \E o \in Ordinals : PodStep(o)
  BY <1>1, <1>5, Zenon DEF PodStep, PodCreate, PodScaleDown, PodGone, countVars
<1> QED
  BY <1>2, <1>3, <1>4, <1>5, ZenonT(60) DEF Next, WorkerStep

\* The user edits spec.replicas at most once, and the master has no outage.
Undisturbed == edits <= 1 /\ outages = 0

\* When the user edits spec.replicas once, to any size, and the master has no
\* outage, the StatefulSet controller never takes the master's pod, however reads
\* are delayed and the operator is killed: getReserveIndex passes over the master,
\* and the ordinals below it are reserved before the StatefulSet shrinks.
THEOREM FirstEditKeepsMaster ==
  ASSUME MaxEdits <= 1, MaxOutages = 0
  PROVE  Spec => MasterSurvivesShrink
<1>1. Init => Undisturbed
  BY SMTT(60) DEF Init, Undisturbed
<1>2. TypeInv /\ Undisturbed /\ [Next]_vars => Undisturbed'
  <2> SUFFICES ASSUME TypeInv, Undisturbed, [Next]_vars PROVE Undisturbed'
    BY SMTT(60)
  <2>1. edits \in Nat /\ outages \in Nat
    BY TypeParts, Zenon DEF CountersOK
  <2>2. edits <= 1 /\ outages = 0
    BY DEF Undisturbed
  <2>3. edits' <= 1
    <3>1. ASSUME NEW n \in Sizes, EditReplicas(n) PROVE edits' <= 1
      <4>1. edits < MaxEdits /\ edits' = edits + 1
        BY <3>1, Zenon DEF EditReplicas
      <4> QED
        BY <2>1, <4>1, BoundsAssumption, SMTT(60)
    <3> QED
      BY <2>2, <3>1, EditsStep, Zenon
  <2>4. outages' = 0
    <3>1. ASSUME NEW ip, Odown(ip) PROVE FALSE
      BY <2>1, <3>1, SMTT(60) DEF Odown
    <3> QED
      BY <2>2, <3>1, EditsStep, Zenon
  <2> QED
    BY <2>3, <2>4, Zenon DEF Undisturbed
<1>3. TypeInv /\ RolesInv /\ FirstInv /\ LeaderInv /\ Undisturbed /\ [Next]_vars
        => [\A o \in Masters : o \notin Desired(sts) => o \in UpPods']_vars
  <2> SUFFICES ASSUME TypeInv, RolesInv, FirstInv, LeaderInv, Undisturbed,
                      NEW o \in Masters, o \notin Desired(sts)
               PROVE  FALSE
    BY Zenon
  <2>1. PodsInv
    BY Zenon DEF Undisturbed, FirstInv, FirstEdit, EditedInv
  <2>2. PICK m \in 0..(InitialSize - 1) : MasterInv(m)
    BY Zenon DEF Undisturbed, LeaderInv, FirstEdit
  <2>3. m \in Desired(sts) /\ MastersIn(ctl) = {m + 1}
    BY <2>2, Zenon DEF MasterInv
  <2>4. o \in DOMAIN pods /\ pods[o].ip = m + 1
    BY <2>3, Zenon DEF Masters, UpPods
  <2>5. o = m
    BY <2>1, <2>3, <2>4, MasterPod, Zenon
  <2> QED
    BY <2>3, <2>5, Zenon
<1>4. Init => FirstInv
  BY FirstInit, SMTT(60) DEF FirstInv
<1> QED
  BY <1>1, <1>2, <1>3, <1>4, InitType, TypeStep, CopyInit, CopyStep, RolesInit, RolesStep,
     FirstStep, LeaderInit, LeaderStep, PTL
     DEF Spec, MasterSurvivesShrink
=============================================================================
