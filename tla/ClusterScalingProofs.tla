------------------------ MODULE ClusterScalingProofs ------------------------
(***************************************************************************)
(* Proofs about ClusterScaling, for any sizes and any number of edits,     *)
(* outages, kills and stale reads: types, who changes spec.replicas, the   *)
(* version of the status, and that a shard has one master.  The last part  *)
(* is about a first edit: how it travels, and which pods there are.        *)
(***************************************************************************)
EXTENDS ClusterScaling, ReserveOrdinalsProofs

\* The ips that have been given out.
IPs == 1..(nextIP - 1)

\* What has an ip has one that was given out, and a new handler starts its loop at
\* the first node.
TypeInv ==
  /\ TypeOK
  /\ nextIP # 0
  /\ \A o \in DOMAIN pods : pods[o].ip \in IPs
  /\ \A j \in 1..Len(stsNodes) : stsNodes[j].ip \in IPs
  /\ pc \in {"idle", "clean", "unshrink", "scale", "list", "topo"} => pos = 1

-----------------------------------------------------------------------------
(* Types *)

\* Sizes are positive numbers.
LEMMA SizesFacts == InitialSize \in Sizes /\ \A n \in Sizes : n \in Nat /\ n >= 1
<1>1. InitialSize \in Sizes /\ \A n \in Sizes : n \in Nat /\ n # 0
  BY SizesAssumption, Zenon
<1>2. \A n \in Nat : n # 0 => n >= 1
  OBVIOUS
<1> QED
  BY <1>1, <1>2, Zenon

\* There are finitely many ordinals, and enough for the initial size.
LEMMA OrdinalsFacts ==
  /\ Ordinals \in SUBSET Nat
  /\ IsFiniteSet(Ordinals)
  /\ 0..(InitialSize - 1) \subseteq Ordinals
<1>1. MaxSize \in Sizes /\ \A m \in Sizes : m <= MaxSize
  BY SizesAssumption, Zenon DEF MaxSize
<1>2. MaxSize \in Nat /\ InitialSize \in Nat /\ InitialSize <= MaxSize
  BY <1>1, SizesFacts, Zenon
<1>3. MaxEdits \in Nat
  BY BoundsAssumption
<1> DEFINE top == (2 + MaxEdits) * MaxSize
<1>4. top \in Nat /\ MaxSize <= top
  <2>1. \A e, n \in Nat : (2 + e) * n = n + n + e * n
    OBVIOUS
  <2>2. \A e, n \in Nat : e * n \in Nat
    OBVIOUS
  <2>3. top = MaxSize + MaxSize + MaxEdits * MaxSize /\ MaxEdits * MaxSize \in Nat
    BY <1>2, <1>3, <2>1, <2>2, SMTT(60)
  <2> HIDE DEF top
  <2> DEFINE rest == MaxEdits * MaxSize
  <2> HIDE DEF rest
  <2>4. top = MaxSize + MaxSize + rest /\ rest \in Nat
    BY <2>3 DEF rest
  <2> QED
    BY <1>2, <2>4
<1> HIDE DEF top
<1>5. Ordinals = 0..top
  BY Zenon DEF Ordinals, top
<1> QED
  BY <1>2, <1>4, <1>5, FS_Interval, SMTT(60)

\* The types of the variables, one by one.
LEMMA TypeFacts ==
  ASSUME TypeInv
  PROVE  /\ kv \in KVs /\ cache \in KVs /\ inst \in KVs
         /\ sts \in [replicas : Sizes, reserve : Seq(Ordinals)]
         /\ readyReplicas \in Nat
         /\ DOMAIN pods \subseteq Ordinals /\ \A o \in DOMAIN pods : pods[o] \in Pods
         /\ stsNodes \in Seq(Nodes)
         /\ nextIP \in Nat /\ nextIP # 0 /\ edits \in Nat
         /\ DOMAIN ctl \subseteq IPs /\ msgs \subseteq IPs
         /\ \A ip \in DOMAIN ctl : ctl[ip] \in {"master", "slave"}
BY Zenon DEF TypeInv, TypeOK, IPs

\* The objects, and what the worker holds of them.
ObjectsOK == {kv, cache, inst} \subseteq KVs

\* The StatefulSet, its pods and their claims.
PodsOK ==
  /\ sts \in [replicas : Sizes, reserve : Seq(Ordinals)]
  /\ readyReplicas \in Nat
  /\ DOMAIN pods \subseteq Ordinals
  /\ \A o \in DOMAIN pods : pods[o] \in Pods
  /\ pvcs \subseteq Ordinals
  /\ doomed \subseteq pvcs \cap DOMAIN pods

\* The ips, and kvrocks-controller's roles.
ShardOK ==
  /\ nextIP \in Nat /\ nextIP # 0
  /\ \A o \in DOMAIN pods : pods[o].ip \in IPs
  /\ \A j \in 1..Len(stsNodes) : stsNodes[j].ip \in IPs
  /\ DOMAIN ctl \subseteq IPs
  /\ \A ip \in DOMAIN ctl : ctl[ip] \in {"master", "slave"}
  /\ msgs \subseteq IPs

\* The worker's own variables.
WorkerOK ==
  /\ pc \in {"idle", "clean", "unshrink", "scale", "list", "topo", "ping", "update",
             "setid", "publish", "shrink", "pvc"}
  /\ stsNodes \in Seq(Nodes)
  /\ pos \in 1..(Len(stsNodes) + 1)
  /\ {requeue, change} \subseteq BOOLEAN
  /\ pc \in {"idle", "clean", "unshrink", "scale", "list", "topo"} => pos = 1

\* The counters of edits and faults.
CountersOK == {edits, outages, kills, stale} \subseteq Nat

\* TypeInv in these parts.
LEMMA TypeParts == TypeInv <=> ObjectsOK /\ PodsOK /\ ShardOK /\ WorkerOK /\ CountersOK
BY Zenon DEF TypeInv, TypeOK, ObjectsOK, PodsOK, ShardOK, WorkerOK, CountersOK, IPs

\* The types hold initially.
LEMMA InitType == Init => TypeInv
<1> SUFFICES ASSUME Init PROVE TypeInv
  OBVIOUS
<1> DEFINE Old == 1..InitialSize
<1>1. InitialSize \in Nat /\ InitialSize \in Sizes /\ InitialSize >= 1
  BY SizesFacts, Zenon
<1>2. /\ nextIP = InitialSize + 1 /\ IPs = Old
  BY <1>1 DEF Init, IPs
<1> DEFINE role(m, ip) == IF ip = m + 1 THEN "master" ELSE "slave"
           entry(m, ip) == [ip |-> ip, id |-> ip, role |-> role(m, ip), failover |-> FALSE,
                            master |-> IF ip = m + 1 THEN 0 ELSE m + 1]
<1>3. PICK m \in 0..(InitialSize - 1) :
        /\ ctl = [ip \in Old |-> role(m, ip)]
        /\ kv = [rv |-> 1, status |-> "Running", replicas |-> InitialSize, version |-> 1,
                 shrink |-> NoShrink, topo |-> [ip \in Old |-> entry(m, ip)]]
  BY Zenon DEF Init
<1>4. m + 1 \in Nat
  BY <1>1
<1>5. ASSUME NEW ip \in Old PROVE entry(m, ip) \in Entries
  <2>1. ip \in Nat
    BY <1>1
  <2>2. role(m, ip) \in Roles
    BY DEF Roles
  <2>3. (IF ip = m + 1 THEN 0 ELSE m + 1) \in Nat
    BY <1>4
  <2> HIDE DEF role
  <2> QED
    BY <2>1, <2>2, <2>3, Zenon DEF Entries
<1>6. ObjectsOK
  <2> DEFINE topo == [ip \in Old |-> entry(m, ip)]
  <2>1. topo \in Seq(Entries)
    <3> HIDE DEF entry
    <3> QED
      BY <1>1, <1>5
  <2> HIDE DEF topo
  <2>2. NoShrink \in [on : BOOLEAN, reserve : Seq(Ordinals)]
    BY DEF NoShrink
  <2>3. kv = [rv |-> 1, status |-> "Running", replicas |-> InitialSize, version |-> 1,
                 shrink |-> NoShrink, topo |-> topo]
    BY <1>3, Zenon DEF topo
  <2>4. kv \in KVs
    BY <1>1, <2>1, <2>2, <2>3, SMTT(60) DEF KVs
  <2> QED
    BY <2>4, Zenon DEF Init, ObjectsOK
<1>7. /\ DOMAIN pods = 0..(InitialSize - 1)
      /\ \A o \in DOMAIN pods : pods[o] \in Pods /\ pods[o].ip \in Old
  <2>1. \A o \in 0..(InitialSize - 1) : o + 1 \in Old /\ o + 1 \in Nat
    BY <1>1
  <2> HIDE DEF Old
  <2> QED
    BY <2>1, Zenon DEF Init, Pods
<1>8. PodsOK
  <2>1. sts \in [replicas : Sizes, reserve : Seq(Ordinals)]
    BY <1>1 DEF Init
  <2> QED
    BY <1>1, <1>7, <2>1, OrdinalsFacts, Zenon DEF Init, PodsOK
<1>9. ShardOK
  <2>1. stsNodes = <<>> /\ 1..Len(<<>>) = {}
    BY DEF Init
  <2>2. nextIP \in Nat /\ nextIP # 0
    BY <1>1, <1>2
  <2>3. DOMAIN ctl = Old /\ \A ip \in DOMAIN ctl : ctl[ip] \in {"master", "slave"}
    BY <1>3, Zenon
  <2>4. msgs = {}
    BY DEF Init
  <2> HIDE DEF Old
  <2> QED
    BY <1>2, <1>7, <2>1, <2>2, <2>3, <2>4, Zenon DEF ShardOK
<1>10. WorkerOK
  <2>1. <<>> \in Seq(Nodes) /\ 1 \in 1..(Len(<<>>) + 1)
    OBVIOUS
  <2> QED
    BY <2>1, Zenon DEF Init, WorkerOK
<1>11. CountersOK
  BY DEF Init, CountersOK
<1> QED
  BY <1>6, <1>8, <1>9, <1>10, <1>11, TypeParts, Zenon

-----------------------------------------------------------------------------
(* What the operators of Topology return *)

\* A list with the same pods in the same places.
SamePods(new, old) ==
  /\ Len(new) = Len(old)
  /\ \A j \in 1..Len(old) : new[j].ip = old[j].ip /\ new[j].idx = old[j].idx

\* An assignment to the other fields of a node keeps its pod.
LEMMA NodeChanged ==
  ASSUME NEW node \in Nodes, NEW id \in Nat, NEW role \in Roles, NEW master \in Nat,
         NEW mark \in BOOLEAN
  PROVE  /\ [node EXCEPT !.id = id, !.role = role, !.master = master, !.failover = mark] \in Nodes
         /\ [node EXCEPT !.id = id, !.role = role, !.master = master] \in Nodes
         /\ [node EXCEPT !.master = master, !.role = role] \in Nodes
         /\ [node EXCEPT !.role = role] \in Nodes
         /\ [node EXCEPT !.failover = mark] \in Nodes
BY Zenon DEF Nodes

\* FixNodes changes neither the pods nor their order.
LEMMA FixNodesFacts ==
  ASSUME NEW nodes \in Seq(Nodes), NEW topo \in Seq(Entries)
  PROVE  /\ FixNodes(nodes, topo) \in Seq(Nodes)
         /\ SamePods(FixNodes(nodes, topo), nodes)
         /\ \A j \in 1..Len(nodes) :
              FixNodes(nodes, topo)[j].id =
                IF j > Len(topo) THEN nodes[j].id ELSE topo[j].id
<1> DEFINE fixed(j) == [nodes[j] EXCEPT !.id = topo[j].id, !.role = topo[j].role,
                           !.master = topo[j].master,
                           !.failover = topo[j].failover]
           at(j) == IF j > Len(topo) THEN nodes[j] ELSE fixed(j)
           new == [j \in 1..Len(nodes) |-> at(j)]
<1>1. new = FixNodes(nodes, topo)
  BY Zenon DEF FixNodes
<1>2. Len(nodes) \in Nat /\ \A j \in 1..Len(nodes) : nodes[j] \in Nodes
  OBVIOUS
<1>3. ASSUME NEW j \in 1..Len(nodes)
      PROVE  /\ at(j) \in Nodes /\ at(j).ip = nodes[j].ip /\ at(j).idx = nodes[j].idx
             /\ at(j).id = IF j > Len(topo) THEN nodes[j].id ELSE topo[j].id
  <2>1. nodes[j] \in Nodes
    BY <1>2
  <2>2. CASE j > Len(topo)
    BY <2>1, <2>2, Zenon
  <2>3. CASE ~(j > Len(topo))
    <3>1. topo[j] \in Entries
      <4>1. j \in 1..Len(topo)
        BY <1>2, <2>3
      <4> QED
        BY <4>1
    <3>2. /\ topo[j].id \in Nat /\ topo[j].role \in Roles /\ topo[j].master \in Nat
          /\ topo[j].failover \in BOOLEAN
      BY <3>1, Zenon DEF Entries
    <3>3. fixed(j) \in Nodes
      BY <2>1, <3>2, NodeChanged, Zenon
    <3>4. fixed(j).ip = nodes[j].ip /\ fixed(j).idx = nodes[j].idx /\ fixed(j).id = topo[j].id
      BY <2>1, Zenon DEF Nodes
    <3> HIDE DEF fixed
    <3> QED
      BY <2>3, <3>3, <3>4, Zenon
  <2> QED
    BY <2>2, <2>3
<1>4. new \in Seq(Nodes) /\ Len(new) = Len(nodes) /\ \A j \in 1..Len(nodes) : new[j] = at(j)
  <2> HIDE DEF at
  <2> QED
    BY <1>2, <1>3
<1> HIDE DEF new, at
<1>5. SamePods(new, nodes)
  BY <1>3, <1>4, Zenon DEF SamePods
<1>6. \A j \in 1..Len(nodes) : new[j].id = IF j > Len(topo) THEN nodes[j].id ELSE topo[j].id
  BY <1>3, <1>4, Zenon
<1> QED
  BY <1>1, <1>4, <1>5, <1>6, Zenon

\* Neither does ensureReplication, which keeps the ids too.
LEMMA ReplicatedFacts ==
  ASSUME NEW nodes \in Seq(Nodes)
  PROVE  /\ Replicated(nodes) \in Seq(Nodes)
         /\ SamePods(Replicated(nodes), nodes)
         /\ \A j \in 1..Len(nodes) : Replicated(nodes)[j].id = nodes[j].id
<1> DEFINE known == {j \in 1..Len(nodes) : /\ nodes[j].role = "master" /\ nodes[j].id # 0
                                           /\ \A k \in 1..j - 1 : nodes[k].role # "master"}
           id == IF known # {} THEN nodes[CHOOSE j \in known : TRUE].id ELSE nodes[1].id
           fixed == IF known # {} THEN nodes ELSE [nodes EXCEPT ![1].role = "master"]
           at(j) == IF fixed[j].id # id /\ fixed[j].master # id
                    THEN [fixed[j] EXCEPT !.master = id, !.role = "slave"]
                    ELSE fixed[j]
           new == [j \in 1..Len(nodes) |-> at(j)]
<1>1. new = Replicated(nodes)
  BY Zenon DEF Replicated
<1>2. Len(nodes) \in Nat /\ DOMAIN nodes = 1..Len(nodes)
      /\ \A j \in 1..Len(nodes) : nodes[j] \in Nodes /\ 1 \in 1..Len(nodes)
  OBVIOUS
<1>3. ASSUME NEW j \in 1..Len(nodes)
      PROVE  at(j) \in Nodes /\ at(j).ip = nodes[j].ip /\ at(j).idx = nodes[j].idx
             /\ at(j).id = nodes[j].id
  <2>1. id \in Nat
    <3>1. CASE known # {}
      <4>1. (CHOOSE k \in known : TRUE) \in known
        BY <3>1, Zenon
      <4>2. nodes[CHOOSE k \in known : TRUE] \in Nodes
        BY <1>2, <4>1, Zenon
      <4> HIDE DEF known
      <4> QED
        BY <3>1, <4>2, Zenon DEF Nodes
    <3>2. CASE known = {}
      <4> HIDE DEF known
      <4> QED
        BY <1>2, <3>2, Zenon DEF Nodes
    <3> QED
      BY <3>1, <3>2, Zenon
  <2> HIDE DEF id
  <2>2. fixed[j] \in Nodes /\ fixed[j].ip = nodes[j].ip /\ fixed[j].idx = nodes[j].idx
        /\ fixed[j].id = nodes[j].id
    <3> HIDE DEF known
    <3>1. nodes[j] \in Nodes
      BY <1>2
    <3>2. \/ fixed[j] = nodes[j]
          \/ fixed[j] = [nodes[j] EXCEPT !.role = "master"]
      BY <1>2, Zenon
    <3>3. "master" \in Roles
      BY DEF Roles
    <3>4. [nodes[j] EXCEPT !.role = "master"] \in Nodes
      BY <3>1, <3>3, Zenon DEF Nodes
    <3>5. /\ [nodes[j] EXCEPT !.role = "master"].ip = nodes[j].ip
          /\ [nodes[j] EXCEPT !.role = "master"].idx = nodes[j].idx
          /\ [nodes[j] EXCEPT !.role = "master"].id = nodes[j].id
      BY <3>1, Zenon DEF Nodes
    <3> HIDE DEF fixed
    <3> QED
      BY <3>1, <3>2, <3>4, <3>5, Zenon
  <2> HIDE DEF fixed
  <2>3. "slave" \in Roles
    BY DEF Roles
  <2>4. [fixed[j] EXCEPT !.master = id, !.role = "slave"] \in Nodes
    BY <2>1, <2>2, <2>3, Zenon DEF Nodes
  <2>5. /\ [fixed[j] EXCEPT !.master = id, !.role = "slave"].ip = fixed[j].ip
        /\ [fixed[j] EXCEPT !.master = id, !.role = "slave"].idx = fixed[j].idx
        /\ [fixed[j] EXCEPT !.master = id, !.role = "slave"].id = fixed[j].id
    BY <2>2, Zenon DEF Nodes
  <2>6. \/ at(j) = fixed[j]
        \/ at(j) = [fixed[j] EXCEPT !.master = id, !.role = "slave"]
    BY Zenon
  <2> HIDE DEF at
  <2> QED
    BY <2>2, <2>4, <2>5, <2>6, Zenon
<1>4. new \in Seq(Nodes) /\ Len(new) = Len(nodes) /\ \A j \in 1..Len(nodes) : new[j] = at(j)
  <2> HIDE DEF at
  <2> QED
    BY <1>2, <1>3
<1> HIDE DEF new, at
<1>5. SamePods(new, nodes)
  BY <1>3, <1>4, Zenon DEF SamePods
<1>6. \A j \in 1..Len(nodes) : new[j].id = nodes[j].id
  BY <1>3, <1>4, Zenon
<1> QED
  BY <1>1, <1>4, <1>5, <1>6, Zenon

\* Neither does ensureSetNodeID, which gives a node of kvrocks-controller its id
\* and its role.
LEMMA IdentifiedFacts ==
  ASSUME NEW nodes \in Seq(Nodes), NEW roles, DOMAIN roles \subseteq Nat,
         \A ip \in DOMAIN roles : roles[ip] \in {"master", "slave"}, MastersIn(roles) # {}
  PROVE  /\ Identified(nodes, roles) \in Seq(Nodes)
         /\ SamePods(Identified(nodes, roles), nodes)
         /\ \A j \in 1..Len(nodes) :
              LET new == Identified(nodes, roles)[j]
              IN /\ nodes[j].ip \in DOMAIN roles =>
                      new.id = nodes[j].ip /\ new.role = roles[nodes[j].ip]
                 /\ nodes[j].ip \notin DOMAIN roles => new = nodes[j]
<1> DEFINE first == CHOOSE m \in MastersIn(roles) : TRUE
           set(j) == [nodes[j] EXCEPT
                        !.id = nodes[j].ip,
                        !.role = roles[nodes[j].ip],
                        !.master = IF roles[nodes[j].ip] = "master" THEN 0 ELSE first]
           at(j) == IF nodes[j].ip \notin DOMAIN roles THEN nodes[j] ELSE set(j)
           new == [j \in 1..Len(nodes) |-> at(j)]
<1>1. new = Identified(nodes, roles)
  BY Zenon DEF Identified
<1>2. Len(nodes) \in Nat /\ \A j \in 1..Len(nodes) : nodes[j] \in Nodes
  OBVIOUS
<1>3. first \in Nat
  BY Zenon DEF MastersIn
<1> HIDE DEF first
<1>4. ASSUME NEW j \in 1..Len(nodes)
      PROVE  /\ at(j) \in Nodes /\ at(j).ip = nodes[j].ip /\ at(j).idx = nodes[j].idx
             /\ nodes[j].ip \in DOMAIN roles => at(j).id = nodes[j].ip /\ at(j).role = roles[nodes[j].ip]
             /\ nodes[j].ip \notin DOMAIN roles => at(j) = nodes[j]
  <2>1. nodes[j] \in Nodes
    BY <1>2
  <2>2. CASE nodes[j].ip \notin DOMAIN roles
    BY <2>1, <2>2, Zenon
  <2>3. CASE nodes[j].ip \in DOMAIN roles
    <3>1. nodes[j].ip \in Nat /\ roles[nodes[j].ip] \in Roles
      BY <2>1, <2>3, Zenon DEF Nodes, Roles
    <3>2. (IF roles[nodes[j].ip] = "master" THEN 0 ELSE first) \in Nat
      BY <1>3
    <3>3. set(j) \in Nodes
      BY <2>1, <3>1, <3>2, NodeChanged, Zenon
    <3>4. /\ set(j).ip = nodes[j].ip /\ set(j).idx = nodes[j].idx
          /\ set(j).id = nodes[j].ip /\ set(j).role = roles[nodes[j].ip]
      BY <2>1, Zenon DEF Nodes
    <3> HIDE DEF set
    <3> QED
      BY <2>3, <3>3, <3>4, Zenon
  <2> QED
    BY <2>2, <2>3
<1>5. new \in Seq(Nodes) /\ Len(new) = Len(nodes) /\ \A j \in 1..Len(nodes) : new[j] = at(j)
  <2> HIDE DEF at
  <2> QED
    BY <1>2, <1>4
<1> HIDE DEF new, at
<1>6. SamePods(new, nodes)
  BY <1>4, <1>5, Zenon DEF SamePods
<1>7. ASSUME NEW j \in 1..Len(nodes)
      PROVE  /\ nodes[j].ip \in DOMAIN roles =>
                  new[j].id = nodes[j].ip /\ new[j].role = roles[nodes[j].ip]
             /\ nodes[j].ip \notin DOMAIN roles => new[j] = nodes[j]
  BY <1>4, <1>5, Zenon
<1> QED
  BY <1>1, <1>5, <1>6, <1>7, Zenon

\* The topology has an entry for each node, with its ip and its id.
LEMMA TopoOfFacts ==
  ASSUME NEW nodes \in Seq(Nodes)
  PROVE  /\ TopoOf(nodes) \in Seq(Entries)
         /\ Len(TopoOf(nodes)) = Len(nodes)
         /\ \A j \in 1..Len(nodes) : /\ TopoOf(nodes)[j].ip = nodes[j].ip
                                     /\ TopoOf(nodes)[j].id = nodes[j].id
                                     /\ TopoOf(nodes)[j].role = nodes[j].role
<1> DEFINE at(j) == [ip |-> nodes[j].ip, id |-> nodes[j].id, role |-> nodes[j].role,
                     master |-> nodes[j].master, failover |-> FALSE]
           new == [j \in 1..Len(nodes) |-> at(j)]
<1>1. new = TopoOf(nodes)
  BY Zenon DEF TopoOf
<1>2. Len(nodes) \in Nat /\ \A j \in 1..Len(nodes) : nodes[j] \in Nodes
  OBVIOUS
<1>3. ASSUME NEW j \in 1..Len(nodes)
      PROVE  at(j) \in Entries
  BY <1>2, Zenon DEF Nodes, Entries
<1>4. \A j \in 1..Len(nodes) : at(j).ip = nodes[j].ip /\ at(j).id = nodes[j].id /\ at(j).role = nodes[j].role
  BY Zenon
<1>5. new \in Seq(Entries) /\ Len(new) = Len(nodes) /\ \A j \in 1..Len(nodes) : new[j] = at(j)
  <2> HIDE DEF at
  <2> QED
    BY <1>2, <1>3
<1> HIDE DEF new, at
<1> QED
  BY <1>1, <1>4, <1>5, Zenon

\* A failover changes neither the ips nor the ids of a topology.
LEMMA AfterFailoverFacts ==
  ASSUME NEW topo \in Seq(Entries), NEW ip, NEW roles, NEW master \in Nat,
         \A i \in DOMAIN roles : roles[i] \in {"master", "slave"}
  PROVE  /\ AfterFailover(topo, ip, roles, master) \in Seq(Entries)
         /\ Len(AfterFailover(topo, ip, roles, master)) = Len(topo)
         /\ \A j \in 1..Len(topo) :
              /\ AfterFailover(topo, ip, roles, master)[j].ip = topo[j].ip
              /\ AfterFailover(topo, ip, roles, master)[j].id = topo[j].id
<1> DEFINE known(t) == t.id \in DOMAIN roles
           role(t) == IF known(t) THEN roles[t.id] ELSE t.role
           follows(t) == IF known(t) /\ roles[t.id] = "slave" THEN master ELSE t.master
           mark(t) == IF t.ip = ip THEN TRUE ELSE IF known(t) THEN FALSE ELSE t.failover
           after(t) == [t EXCEPT !.role = role(t), !.master = follows(t), !.failover = mark(t)]
           new == [j \in 1..Len(topo) |-> after(topo[j])]
<1>1. new = AfterFailover(topo, ip, roles, master)
  BY Zenon DEF AfterFailover
<1>2. Len(topo) \in Nat /\ \A j \in 1..Len(topo) : topo[j] \in Entries
  OBVIOUS
<1>3. ASSUME NEW t \in Entries
      PROVE  after(t) \in Entries /\ after(t).ip = t.ip /\ after(t).id = t.id
  <2>1. role(t) \in Roles
    BY Zenon DEF Entries, Roles
  <2>2. follows(t) \in Nat
    BY Zenon DEF Entries
  <2>3. mark(t) \in BOOLEAN
    BY Zenon DEF Entries
  <2> HIDE DEF role, follows, mark
  <2> QED
    BY <2>1, <2>2, <2>3, Zenon DEF Entries
<1>4. new \in Seq(Entries) /\ Len(new) = Len(topo) /\ \A j \in 1..Len(topo) : new[j] = after(topo[j])
  <2> HIDE DEF after
  <2> QED
    BY <1>2, <1>3
<1> HIDE DEF new, after
<1> QED
  BY <1>1, <1>2, <1>3, <1>4, Zenon

\* updateCluster gives kvrocks-controller roles for some of the nodes.
LEMMA ExtendedFacts ==
  ASSUME NEW roles, NEW nodes
  PROVE  /\ DOMAIN Extended(Kept(roles, nodes), nodes) \subseteq IPsOf(nodes)
         /\ \A ip \in DOMAIN Extended(Kept(roles, nodes), nodes) :
              \/ Extended(Kept(roles, nodes), nodes)[ip] \in {"master", "slave"}
              \/ /\ ip \in DOMAIN roles
                 /\ Extended(Kept(roles, nodes), nodes)[ip] = roles[ip]
<1> DEFINE kept == Kept(roles, nodes)
           new == Accepted(kept, nodes)
           isMaster(ip) == \E j \in new : nodes[j].ip = ip /\ nodes[j].role = "master"
<1>1. DOMAIN kept = DOMAIN roles \cap IPsOf(nodes) /\ \A ip \in DOMAIN kept : kept[ip] = roles[ip]
  BY Zenon DEF Kept
<1>2. new \subseteq 1..Len(nodes)
  BY Zenon DEF Accepted, Missing
<1> HIDE DEF kept, new
<1> DEFINE D == DOMAIN kept \cup {nodes[j].ip : j \in new}
           role(ip) == IF ip \in DOMAIN kept THEN kept[ip]
                       ELSE IF isMaster(ip) THEN "master" ELSE "slave"
<1>3. Extended(kept, nodes) = [ip \in D |-> role(ip)]
  BY Zenon DEF Extended, new
<1>4. {nodes[j].ip : j \in new} \subseteq IPsOf(nodes)
  BY <1>2, Zenon DEF IPsOf
<1>5. D \subseteq IPsOf(nodes)
  BY <1>1, <1>4, Zenon
<1>6. ASSUME NEW ip
      PROVE  role(ip) \in {"master", "slave"} \/ (ip \in DOMAIN roles /\ role(ip) = roles[ip])
  <2> HIDE DEF isMaster
  <2>1. CASE ip \in DOMAIN kept
    BY <1>1, <2>1
  <2>2. CASE ip \notin DOMAIN kept
    BY <2>2
  <2> QED
    BY <2>1, <2>2
<1> HIDE DEF D, role
<1>7. DOMAIN Extended(kept, nodes) = D /\ \A ip \in D : Extended(kept, nodes)[ip] = role(ip)
  BY <1>3, Zenon
<1> QED
  BY <1>5, <1>6, <1>7, Zenon DEF kept

\* The positions of the nodes getReserveIndex leaves in the list.
Stays(nodes, delta) == {j \in 1..Len(nodes) : (j - 1) \notin Victims(nodes, delta)}

\* What is left of a list of nodes are nodes of the list, in their order.
LEMMA RemainingFacts ==
  ASSUME NEW nodes \in Seq(Nodes), NEW delta
  PROVE  /\ Remaining(nodes, delta) \in Seq(Nodes)
         /\ IsFiniteSet(Stays(nodes, delta)) /\ Stays(nodes, delta) \subseteq Nat
         /\ Len(Remaining(nodes, delta)) = Cardinality(Stays(nodes, delta))
         /\ \A k \in 1..Cardinality(Stays(nodes, delta)) :
              /\ Ascending(Stays(nodes, delta))[k] \in Stays(nodes, delta)
              /\ Remaining(nodes, delta)[k] = nodes[Ascending(Stays(nodes, delta))[k]]
<1> USE DEF Stays
<1> DEFINE rest == {j \in 1..Len(nodes) : (j - 1) \notin Victims(nodes, delta)}
           stays == Ascending(rest)
<1>1. Len(nodes) \in Nat /\ \A j \in 1..Len(nodes) : nodes[j] \in Nodes
  OBVIOUS
<1>2. rest \subseteq 1..Len(nodes) /\ rest \subseteq Nat
  BY <1>1
<1>3. IsFiniteSet(rest)
  <2> HIDE DEF rest
  <2>1. 1 \in Int /\ Len(nodes) \in Int
    BY <1>1
  <2>2. IsFiniteSet(1..Len(nodes))
    BY <2>1, FS_Interval
  <2> QED
    BY <1>2, <2>2, FS_Subset, Zenon
<1>4. Remaining(nodes, delta) = [k \in 1..Len(stays) |-> nodes[stays[k]]]
  BY Zenon DEF Remaining
<1>5. \A k \in rest : nodes[k] \in Nodes
  BY <1>1, <1>2, Zenon
<1> HIDE DEF rest
<1>6. stays \in Seq(rest) /\ Len(stays) = Cardinality(rest)
  BY <1>2, <1>3, AscendingFacts, Zenon
<1> HIDE DEF stays
<1>7. Len(stays) \in Nat /\ \A k \in 1..Len(stays) : stays[k] \in rest
  BY <1>6
<1>8. \A k \in 1..Len(stays) : nodes[stays[k]] \in Nodes
  BY <1>5, <1>7, Zenon
<1>9. Remaining(nodes, delta) \in Seq(Nodes) /\ Len(Remaining(nodes, delta)) = Len(stays)
  BY <1>4, <1>7, <1>8
<1>10. \A k \in 1..Len(stays) : Remaining(nodes, delta)[k] = nodes[stays[k]]
  BY <1>4, Zenon
<1> QED
  BY <1>2, <1>3, <1>6, <1>7, <1>9, <1>10, Zenon DEF rest, stays

-----------------------------------------------------------------------------
(* Who writes the objects *)

\* What is stored of an object is that object, with a newer version if it differs.
LEMMA StoredFacts ==
  ASSUME kv \in KVs, NEW obj \in KVs
  PROVE  /\ Stored(obj) \in KVs
         /\ Stored(obj).status = obj.status /\ Stored(obj).replicas = obj.replicas
         /\ Stored(obj).version = obj.version /\ Stored(obj).shrink = obj.shrink
         /\ Stored(obj).topo = obj.topo
         /\ Stored(obj) = kv \/ Stored(obj).rv = obj.rv + 1
<1> DEFINE new == [obj EXCEPT !.rv = @ + 1]
<1>1. obj.rv + 1 \in Nat
  BY DEF KVs
<1>2. /\ new \in KVs
      /\ new.status = obj.status /\ new.replicas = obj.replicas
      /\ new.version = obj.version /\ new.shrink = obj.shrink
      /\ new.topo = obj.topo /\ new.rv = obj.rv + 1
  BY <1>1, Zenon DEF KVs
<1>3. Stored(obj) = IF obj = kv THEN kv ELSE new
  BY Zenon DEF Stored
<1> HIDE DEF new
<1> QED
  BY <1>2, <1>3, Zenon

\* The status the worker sends is the one it has read but for the topology, the
\* version and Status.Shrink.
LEMMA SentFacts ==
  ASSUME NEW obj \in KVs, NEW topo \in Seq(Entries), NEW ver \in Nat,
         NEW shrink \in [on : BOOLEAN, reserve : Seq(Ordinals)]
  PROVE  /\ [obj EXCEPT !.topo = topo, !.version = ver] \in KVs
         /\ [[obj EXCEPT !.topo = topo, !.version = ver] EXCEPT !.shrink = shrink] \in KVs
         /\ [obj EXCEPT !.shrink = shrink, !.version = ver] \in KVs
BY Zenon DEF KVs

\* What the worker sends: spec and status are as it has read them, and the version
\* is not older.
Sent(obj) ==
  /\ obj \in KVs
  /\ obj.rv = inst.rv
  /\ obj.replicas = inst.replicas
  /\ obj.status = inst.status
  /\ obj.version >= inst.version

\* The user, the failover handler and the worker write the object.
LEMMA Writes ==
  ASSUME TypeInv, [Next]_vars
  PROVE  \/ UNCHANGED kv
         \/ \E n \in Sizes : EditReplicas(n)
         \/ \E ip \in msgs : handleFailover(ip)
         \/ /\ pc \in {"unshrink", "ping", "publish", "shrink"}
            /\ Accepts(inst)
            /\ \E obj : Sent(obj) /\ kv' = Stored(obj) /\ (inst' = kv' \/ inst' = cache)
            /\ UNCHANGED <<cache, edits>>
<1> DEFINE Written == /\ pc \in {"unshrink", "ping", "publish", "shrink"}
                      /\ Accepts(inst)
                      /\ \E obj : Sent(obj) /\ kv' = Stored(obj) /\ (inst' = kv' \/ inst' = cache)
                      /\ UNCHANGED <<cache, edits>>
<1> SUFFICES \/ UNCHANGED kv
             \/ \E n \in Sizes : EditReplicas(n)
             \/ \E ip \in msgs : handleFailover(ip)
             \/ Written
  BY Zenon
<1>1. kv \in KVs /\ inst \in KVs /\ stsNodes \in Seq(Nodes)
  BY TypeFacts
<1>2. inst.version \in Nat /\ inst.version + 1 \in Nat
  BY <1>1 DEF KVs
<1>3. \A v \in Nat : v >= v /\ v + 1 >= v /\ v + 0 = v
  OBVIOUS
<1>4. NoShrink \in [on : BOOLEAN, reserve : Seq(Ordinals)]
  BY DEF NoShrink
<1>5. ASSUME NEW obj, Sent(obj), NEW label, WorkerUpdate(obj, label),
             pc \in {"unshrink", "publish"}
      PROVE  UNCHANGED kv \/ Written
  <2>1. CASE ~Accepts(obj)
    BY <1>5, <2>1, Zenon DEF WorkerUpdate
  <2>2. CASE Accepts(obj)
    <3>1. Accepts(inst)
      BY <1>5, <2>2, Zenon DEF Accepts, Sent
    <3>2. kv' = Stored(obj) /\ inst' = kv' /\ UNCHANGED <<cache, edits>>
      BY <1>5, <2>2, Zenon DEF WorkerUpdate, countVars
    <3> QED
      BY <1>5, <3>1, <3>2, Zenon
  <2> QED
    BY <2>1, <2>2
<1>6. CASE ClearShrink
  <2> DEFINE obj == [inst EXCEPT !.shrink = NoShrink, !.version = @ + 1]
  <2>1. obj \in KVs
    BY <1>1, <1>2, <1>4, Zenon DEF KVs
  <2>2. /\ obj.rv = inst.rv /\ obj.replicas = inst.replicas /\ obj.status = inst.status
        /\ obj.version = inst.version + 1
    BY <1>1, Zenon DEF KVs
  <2>3. WorkerUpdate(obj, "scale") /\ pc = "unshrink"
    BY <1>6, Zenon DEF ClearShrink
  <2> HIDE DEF obj
  <2>4. Sent(obj)
    BY <1>2, <1>3, <2>1, <2>2, Zenon DEF Sent
  <2> QED
    BY <1>5, <2>3, <2>4, Zenon
<1>7. ASSUME NEW nodes \in Seq(Nodes), NEW ver \in Nat, ver >= inst.version,
             NEW shrink \in [on : BOOLEAN, reserve : Seq(Ordinals)]
      PROVE  /\ Sent(WithTopo(inst, nodes, ver))
             /\ Sent([WithTopo(inst, nodes, ver) EXCEPT !.shrink = shrink])
  <2> DEFINE topo == TopoOf(nodes)
             sent == [inst EXCEPT !.topo = topo, !.version = ver]
             more == [sent EXCEPT !.shrink = shrink]
  <2>1. topo \in Seq(Entries)
    BY TopoOfFacts
  <2> HIDE DEF topo
  <2>2. sent \in KVs /\ more \in KVs
    BY <1>1, <2>1, SentFacts, Zenon
  <2>3. /\ sent.rv = inst.rv /\ sent.replicas = inst.replicas /\ sent.status = inst.status
        /\ sent.version = ver
    BY <1>1, Zenon DEF KVs
  <2>4. /\ more.rv = sent.rv /\ more.replicas = sent.replicas /\ more.status = sent.status
        /\ more.version = sent.version
    <3> HIDE DEF sent
    <3> QED
      BY <2>2, Zenon DEF KVs
  <2>5. WithTopo(inst, nodes, ver) = sent
    BY Zenon DEF WithTopo, topo
  <2> HIDE DEF sent
  <2>6. [WithTopo(inst, nodes, ver) EXCEPT !.shrink = shrink] = more
    BY <2>5, Zenon
  <2> HIDE DEF more
  <2> QED
    BY <1>7, <2>2, <2>3, <2>4, <2>5, <2>6, Zenon DEF Sent
<1>8. CASE Publish
  <2> DEFINE bump == inst.topo = <<>> \/ ChangedSince(inst.topo, stsNodes)
             ver == inst.version + (IF bump THEN 1 ELSE 0)
  <2>1. ver \in Nat /\ ver >= inst.version
    <3> HIDE DEF bump
    <3>1. CASE bump
      BY <1>2, <3>1
    <3>2. CASE ~bump
      BY <1>2, <3>2
    <3> QED
      BY <3>1, <3>2
  <2>2. WorkerUpdate(WithTopo(inst, stsNodes, ver), "shrink") /\ pc = "publish"
    BY <1>8, Zenon DEF Publish
  <2> HIDE DEF ver
  <2>3. Sent(WithTopo(inst, stsNodes, ver))
    BY <1>1, <1>4, <1>7, <2>1, Zenon
  <2> QED
    BY <1>5, <2>2, <2>3, Zenon
<1>9. CASE EndFailover
  <2> DEFINE obj == WithTopo(inst, stsNodes, inst.version + 1)
  <2>1. Sent(obj)
    <3>1. inst.version + 1 \in Nat /\ inst.version + 1 >= inst.version
      BY <1>2
    <3> QED
      BY <1>1, <1>4, <1>7, <3>1, Zenon
  <2>2. \/ UNCHANGED kv
        \/ /\ Accepts(inst) /\ kv' = Stored(obj) /\ EndReconcile /\ UNCHANGED <<cache, edits>>
    BY <1>9, Zenon DEF EndFailover, Abort, countVars
  <2>3. pc = "ping"
    BY <1>9, Zenon DEF EndFailover
  <2> HIDE DEF obj
  <2> QED
    BY <2>1, <2>2, <2>3, Zenon DEF EndReconcile
<1>10. CASE ensureShrink
  <2> DEFINE delta == Len(stsNodes) - inst.replicas
             shrink == [on |-> TRUE, reserve |-> Reserve(stsNodes, delta)]
             obj == [WithTopo(inst, Remaining(stsNodes, delta), inst.version) EXCEPT
                       !.shrink = shrink]
  <2>1. shrink \in [on : BOOLEAN, reserve : Seq(Ordinals)]
    <3>1. \A j \in 1..Len(stsNodes) : stsNodes[j] \in Nodes
      BY <1>1
    <3>2. \A j \in 1..Len(stsNodes) : stsNodes[j].idx \in Ordinals
      BY <3>1, Zenon DEF Nodes
    <3> HIDE DEF delta
    <3>3. Reserve(stsNodes, delta) \in Seq(Ordinals)
      BY <3>2, OrdinalsFacts, ReserveType
    <3> QED
      BY <3>3, Zenon
  <2>2. Remaining(stsNodes, delta) \in Seq(Nodes)
    BY <1>1, RemainingFacts, Zenon
  <2>3. \/ UNCHANGED kv
        \/ /\ Accepts(obj) /\ kv' = Stored(obj) /\ EndReconcile /\ UNCHANGED <<cache, edits>>
    BY <1>10, Zenon DEF ensureShrink, Panic, countVars
  <2>4. pc = "shrink"
    BY <1>10, Zenon DEF ensureShrink
  <2> HIDE DEF delta, shrink
  <2>5. inst.version >= inst.version
    BY <1>2, <1>3, Zenon
  <2>6. Sent(obj)
    BY <1>2, <1>7, <2>1, <2>2, <2>5, Zenon
  <2> HIDE DEF obj
  <2> QED
    BY <2>3, <2>4, <2>6, Zenon DEF Accepts, Sent, EndReconcile
<1> HIDE DEF Written
<1>11. CASE UNCHANGED kv
  BY <1>11, SMTT(60)
<1>12. CASE WorkerStep
  BY <1>6, <1>8, <1>9, <1>10, <1>11, <1>12, ZenonT(60)
     DEF WorkerStep, Reconcile, cleanStatefulSet, ScaleUp, ListPods, FixTopo, Ping, updateCluster,
         SetNodeID, cleanPersistentVolumeClaim, Abort, Panic
<1>13. CASE \/ CacheSync \/ StatusSync \/ OperatorKilled \/ UNCHANGED vars
            \/ \E o \in Ordinals : PodStep(o)
  BY <1>11, <1>13, ZenonT(60)
     DEF CacheSync, PodStep, PodCreate, PodScaleDown, PodGone, StatusSync, OperatorKilled, vars
<1>14. CASE \E ip \in DOMAIN ctl : Odown(ip)
  BY <1>11, <1>14, Zenon DEF Odown
<1> QED
  BY <1>12, <1>13, <1>14, Zenon DEF Next

\* The cache takes what is stored, the worker takes what is in the cache or what
\* it has just written.
LEMMA Reads ==
  ASSUME [Next]_vars
  PROVE  /\ cache' = cache \/ (CacheSync /\ cache' = kv /\ UNCHANGED <<kv, inst>>)
         /\ \/ inst' = inst
            \/ inst' = cache /\ UNCHANGED cache
            \/ inst' = kv' /\ UNCHANGED cache
<1> DEFINE Read == /\ cache' = cache \/ (CacheSync /\ cache' = kv /\ UNCHANGED <<kv, inst>>)
                   /\ \/ inst' = inst
                      \/ inst' = cache /\ UNCHANGED cache
                      \/ inst' = kv' /\ UNCHANGED cache
<1>1. CASE UNCHANGED <<cache, inst>>
  BY <1>1, Zenon
<1>2. CASE EndReconcile /\ UNCHANGED cache
  BY <1>2, Zenon DEF EndReconcile
<1>3. CASE CacheSync
  BY <1>3, Zenon DEF CacheSync, workerVars
<1>4. ASSUME NEW obj, NEW label, WorkerUpdate(obj, label) PROVE Read
  BY <1>2, <1>4, Zenon DEF WorkerUpdate
<1>5. CASE Reconcile
  BY <1>5, Zenon DEF Reconcile
<1> HIDE DEF Read
<1>6. CASE \/ cleanStatefulSet \/ ClearShrink \/ ScaleUp \/ ListPods \/ FixTopo
           \/ Ping \/ EndFailover \/ updateCluster
  BY <1>1, <1>2, <1>4, <1>6, ZenonT(60)
     DEF cleanStatefulSet, ClearShrink, ScaleUp, ListPods, FixTopo, Ping, EndFailover,
         updateCluster, Abort, Panic, Goto, Read
<1>7. CASE SetNodeID \/ Publish \/ ensureShrink \/ cleanPersistentVolumeClaim \/ OperatorKilled
  BY <1>1, <1>2, <1>4, <1>7, ZenonT(60)
     DEF SetNodeID, Publish, ensureShrink, cleanPersistentVolumeClaim, OperatorKilled, Abort,
         Panic, Goto, Read
<1>8. CASE \/ StatusSync \/ UNCHANGED vars
           \/ \E o \in Ordinals : PodStep(o)
           \/ \E n \in Sizes : EditReplicas(n)
  BY <1>1, <1>8, ZenonT(60)
     DEF StatusSync, vars, PodStep, PodCreate, PodScaleDown, PodGone, EditReplicas, workerVars, Read
<1>9. CASE \/ \E ip \in DOMAIN ctl : Odown(ip)
           \/ \E ip \in msgs : handleFailover(ip)
  BY <1>1, <1>9, ZenonT(60) DEF Odown, handleFailover, workerVars, Read
<1>10. Read
  BY <1>3, <1>5, <1>6, <1>7, <1>8, <1>9, ZenonT(60) DEF Next, WorkerStep, Read
<1> QED
  BY <1>10, Zenon DEF Read

\* What handleFailover writes.
LEMMA FailoverFacts ==
  ASSUME TypeInv, NEW ip \in msgs, handleFailover(ip)
  PROVE  /\ UNCHANGED <<cache, sts, podVars, workerVars, nextIP, countVars>>
         /\ \/ UNCHANGED <<kv, ctl>>
            \/ /\ UNCHANGED ctl
               /\ \E obj \in KVs :
                    /\ kv' = Stored(obj)
                    /\ obj.rv = kv.rv /\ obj.replicas = kv.replicas
                    /\ obj.status = "Failed" /\ obj.topo = <<>> /\ obj.shrink = NoShrink
            \/ \E obj \in KVs, new \in DOMAIN ctl :
                 /\ Serving(new)
                 /\ ctl' = Promoted(ctl, new)
                 /\ kv' = Stored(obj)
                 /\ obj.rv = kv.rv /\ obj.replicas = kv.replicas /\ obj.status = kv.status
                 /\ obj.shrink = kv.shrink /\ obj.version = kv.version + 1
                 /\ Len(obj.topo) = Len(kv.topo)
                 /\ \A j \in 1..Len(kv.topo) :
                      obj.topo[j].ip = kv.topo[j].ip /\ obj.topo[j].id = kv.topo[j].id
<1>1. kv \in KVs /\ DOMAIN ctl \subseteq IPs /\ nextIP \in Nat
  BY TypeFacts
<1>2. UNCHANGED <<cache, sts, podVars, workerVars, nextIP, countVars>>
  BY Zenon DEF handleFailover
<1> DEFINE slaves == {n \in DOMAIN ctl \ MastersIn(ctl) : Serving(n)}
           failed == [kv EXCEPT !.status = "Failed", !.version = 0,
                                !.topo = <<>>, !.shrink = NoShrink]
           after(new) == [kv EXCEPT !.version = @ + 1,
                             !.topo = AfterFailover(@, ip, ctl', new)]
<1>3. \/ UNCHANGED <<kv, ctl>>
      \/ kv' = Stored(failed) /\ UNCHANGED ctl
      \/ \E new \in slaves : ctl' = Promoted(ctl, new) /\ kv' = Stored(after(new))
  BY Zenon DEF handleFailover
<1>4. failed \in KVs
  <2>1. <<>> \in Seq(Entries) /\ 0 \in Nat
    OBVIOUS
  <2>2. NoShrink \in [on : BOOLEAN, reserve : Seq(Ordinals)]
    BY DEF NoShrink
  <2> QED
    BY <1>1, <2>1, <2>2, Zenon DEF KVs
<1>5. /\ failed.rv = kv.rv /\ failed.replicas = kv.replicas /\ failed.status = "Failed"
      /\ failed.topo = <<>> /\ failed.shrink = NoShrink
  BY <1>1, Zenon DEF KVs
<1>6. ASSUME NEW new \in slaves, ctl' = Promoted(ctl, new)
      PROVE  /\ after(new) \in KVs
             /\ after(new).rv = kv.rv /\ after(new).replicas = kv.replicas
             /\ after(new).status = kv.status /\ after(new).shrink = kv.shrink
             /\ after(new).version = kv.version + 1
             /\ Len(after(new).topo) = Len(kv.topo)
             /\ \A j \in 1..Len(kv.topo) : /\ after(new).topo[j].ip = kv.topo[j].ip
                                           /\ after(new).topo[j].id = kv.topo[j].id
  <2>1. new \in Nat
    <3>1. new \in IPs
      BY <1>1, Zenon
    <3> QED
      BY <1>1, <3>1 DEF IPs
  <2>2. \A i \in DOMAIN ctl' : ctl'[i] \in {"master", "slave"}
    BY <1>6, Zenon DEF Promoted
  <2> DEFINE roles == ctl'
             topo == AfterFailover(kv.topo, ip, roles, new)
  <2>3. kv.topo \in Seq(Entries) /\ kv.version + 1 \in Nat
    BY <1>1, SMTT(60) DEF KVs
  <2>4. /\ topo \in Seq(Entries) /\ Len(topo) = Len(kv.topo)
        /\ \A j \in 1..Len(kv.topo) : topo[j].ip = kv.topo[j].ip /\ topo[j].id = kv.topo[j].id
    <3>1. \A i \in DOMAIN roles : roles[i] \in {"master", "slave"}
      BY <2>2
    <3> HIDE DEF slaves, roles, after, failed
    <3> QED
      BY <2>1, <2>3, <3>1, AfterFailoverFacts, SMTT(60)
  <2> DEFINE obj == [kv EXCEPT !.version = kv.version + 1, !.topo = topo]
  <2>5. after(new) = obj
    BY Zenon
  <2> HIDE DEF topo, after
  <2>6. /\ obj \in KVs
        /\ obj.rv = kv.rv /\ obj.replicas = kv.replicas
        /\ obj.status = kv.status /\ obj.shrink = kv.shrink
        /\ obj.version = kv.version + 1 /\ obj.topo = topo
    BY <1>1, <2>3, <2>4, Zenon DEF KVs
  <2> HIDE DEF obj
  <2> QED
    BY <2>4, <2>5, <2>6, Zenon
<1> HIDE DEF failed, after
<1>7. ASSUME NEW new \in slaves PROVE new \in DOMAIN ctl /\ Serving(new)
  BY Zenon
<1> HIDE DEF slaves
<1> QED
  BY <1>2, <1>3, <1>4, <1>5, <1>6, <1>7, Zenon

\* Every write replaces the stored object by one that was made from it, and makes
\* it newer.
LEMMA Replaced ==
  ASSUME TypeInv, [Next]_vars
  PROVE  kv' \in KVs /\ (kv' = kv \/ kv'.rv = kv.rv + 1)
<1>1. kv \in KVs
  BY TypeFacts
<1>2. ASSUME NEW obj \in KVs, kv' = Stored(obj), obj.rv = kv.rv
      PROVE  kv' \in KVs /\ (kv' = kv \/ kv'.rv = kv.rv + 1)
  BY <1>1, <1>2, StoredFacts, Zenon
<1>3. ASSUME NEW n \in Sizes, EditReplicas(n)
      PROVE  kv' \in KVs /\ (kv' = kv \/ kv'.rv = kv.rv + 1)
  <2>1. [kv EXCEPT !.replicas = n] \in KVs /\ [kv EXCEPT !.replicas = n].rv = kv.rv
    BY <1>1, Zenon DEF KVs
  <2> QED
    BY <1>2, <1>3, <2>1, Zenon DEF EditReplicas
<1>4. ASSUME NEW ip \in msgs, handleFailover(ip)
      PROVE  kv' \in KVs /\ (kv' = kv \/ kv'.rv = kv.rv + 1)
  BY <1>1, <1>2, <1>4, FailoverFacts, Zenon
<1>5. ASSUME NEW obj, Sent(obj), Accepts(inst), kv' = Stored(obj)
      PROVE  kv' \in KVs /\ (kv' = kv \/ kv'.rv = kv.rv + 1)
  BY <1>2, <1>5, Zenon DEF Sent, Accepts
<1> QED
  BY <1>1, <1>3, <1>4, <1>5, Writes, Zenon

-----------------------------------------------------------------------------
(* Every step keeps the types *)

\* Every update stores an object of the same form.
LEMMA ObjectsStep == TypeInv /\ [Next]_vars => ObjectsOK'
<1> SUFFICES ASSUME TypeInv, [Next]_vars PROVE ObjectsOK'
  OBVIOUS
<1>1. kv \in KVs /\ cache \in KVs /\ inst \in KVs /\ kv' \in KVs
  BY TypeFacts, Replaced
<1>2. cache' \in KVs /\ inst' \in KVs
  BY <1>1, Reads, Zenon
<1> QED
  BY <1>1, <1>2, Zenon DEF ObjectsOK

\* The counters stay numbers.
LEMMA CountersStep == TypeInv /\ [Next]_vars => CountersOK'
<1> SUFFICES ASSUME TypeInv, [Next]_vars PROVE CountersOK'
  OBVIOUS
<1>1. CountersOK
  BY TypeParts
<1>2. \A n \in Nat : n + 1 \in Nat
  OBVIOUS
<1>3. CASE UNCHANGED countVars
  BY <1>1, <1>3, Zenon DEF CountersOK, countVars
<1>4. CASE \E n \in Sizes : EditReplicas(n)
  BY <1>1, <1>2, <1>4, Zenon DEF EditReplicas, CountersOK
<1>5. CASE \E ip \in DOMAIN ctl : Odown(ip)
  BY <1>1, <1>2, <1>5, Zenon DEF Odown, CountersOK
<1>6. CASE OperatorKilled
  BY <1>1, <1>2, <1>6, Zenon DEF OperatorKilled, CountersOK
<1>7. CASE Reconcile
  BY <1>1, <1>2, <1>7, Zenon DEF Reconcile, CountersOK
<1>8. CASE \/ cleanStatefulSet \/ ClearShrink \/ ScaleUp \/ ListPods \/ FixTopo
           \/ Ping \/ EndFailover \/ updateCluster
  BY <1>3, <1>8, ZenonT(60)
     DEF cleanStatefulSet, ClearShrink, ScaleUp, ListPods, FixTopo, Ping, EndFailover,
         updateCluster, Abort, Panic, WorkerUpdate
<1>9. CASE SetNodeID \/ Publish \/ ensureShrink \/ cleanPersistentVolumeClaim
  BY <1>3, <1>9, ZenonT(60)
     DEF SetNodeID, Publish, ensureShrink, cleanPersistentVolumeClaim, Abort, Panic, WorkerUpdate
<1>10. CASE \/ CacheSync \/ StatusSync \/ UNCHANGED vars
            \/ \E o \in Ordinals : PodStep(o)
            \/ \E ip \in msgs : handleFailover(ip)
  BY <1>3, <1>10, ZenonT(60)
     DEF CacheSync, StatusSync, vars, PodStep, PodCreate, PodScaleDown, PodGone, handleFailover
<1> QED
  BY <1>4, <1>5, <1>6, <1>7, <1>8, <1>9, <1>10, ZenonT(60) DEF Next, WorkerStep

\* The pods that exist are finitely many, and so are those that are up.
LEMMA PodsFinite ==
  ASSUME TypeInv
  PROVE  /\ IsFiniteSet(DOMAIN pods) /\ DOMAIN pods \in SUBSET Nat
         /\ IsFiniteSet(UpPods) /\ Cardinality(UpPods) \in Nat
<1>1. DOMAIN pods \subseteq Ordinals /\ UpPods \subseteq DOMAIN pods
  BY TypeFacts, Zenon DEF UpPods
<1>2. IsFiniteSet(DOMAIN pods) /\ IsFiniteSet(UpPods)
  BY <1>1, OrdinalsFacts, FS_Subset, SMTT(60)
<1>3. Cardinality(UpPods) \in Nat
  BY <1>2, FS_CardinalityType, SMTT(60)
<1> QED
  BY <1>1, <1>2, <1>3, OrdinalsFacts, Zenon

\* The pods stay those of known ordinals, and so do their claims.
LEMMA PodsStep == TypeInv /\ [Next]_vars => PodsOK'
<1> SUFFICES ASSUME TypeInv, [Next]_vars PROVE PodsOK'
  OBVIOUS
<1> DEFINE Stss == [replicas : Sizes, reserve : Seq(Ordinals)]
<1>1. /\ PodsOK
      /\ inst \in KVs /\ sts \in Stss /\ nextIP \in Nat
      /\ DOMAIN pods \subseteq Ordinals /\ \A o \in DOMAIN pods : pods[o] \in Pods
  BY TypeFacts, TypeParts, Zenon
<1>2. CASE UNCHANGED <<sts, podVars>>
  BY <1>1, <1>2, Zenon DEF PodsOK, podVars, claimVars
<1>3. ASSUME NEW r \in Seq(Ordinals), sts' = [replicas |-> inst.replicas, reserve |-> r],
             UNCHANGED podVars
      PROVE  PodsOK'
  <2>1. sts' \in Stss
    BY <1>1, <1>3, Zenon DEF KVs
  <2> QED
    BY <1>1, <1>3, <2>1, Zenon DEF PodsOK, podVars, claimVars
<1>4. ASSUME NEW o \in Ordinals, PodCreate(o) PROVE PodsOK'
  <2>1. [ip |-> nextIP, up |-> TRUE] \in Pods
    BY <1>1, Zenon DEF Pods
  <2>2. DOMAIN pods' = DOMAIN pods \cup {o} /\ \A p \in DOMAIN pods' : pods'[p] \in Pods
    BY <1>1, <1>4, <2>1, Zenon DEF PodCreate
  <2> QED
    BY <1>1, <1>4, <2>2, Zenon DEF PodCreate, PodsOK
<1>5. ASSUME NEW o \in Ordinals, PodScaleDown(o) PROVE PodsOK'
  <2>1. \A pod \in Pods : [pod EXCEPT !.up = FALSE] \in Pods
    BY Zenon DEF Pods
  <2>2. DOMAIN pods' = DOMAIN pods /\ \A p \in DOMAIN pods : pods'[p] \in Pods
    BY <1>1, <1>5, <2>1, Zenon DEF PodScaleDown
  <2> QED
    BY <1>1, <1>5, <2>2, Zenon DEF PodScaleDown, PodsOK, claimVars
<1>6. ASSUME NEW o, Removed(o)
      PROVE  DOMAIN pods' = DOMAIN pods \ {o} /\ \A p \in DOMAIN pods' : pods'[p] \in Pods
  BY <1>1, <1>6, Zenon DEF Removed
<1>7. ASSUME NEW o \in Ordinals, PodGone(o) PROVE PodsOK'
  <2>1. pvcs' \subseteq pvcs /\ doomed' \subseteq pvcs' \cap DOMAIN pods'
    BY <1>1, <1>6, <1>7, Zenon DEF PodGone, Removed, PodsOK
  <2> QED
    BY <1>1, <1>6, <1>7, <2>1, Zenon DEF PodGone, PodsOK
<1>8. CASE StatusSync
  BY <1>1, <1>8, PodsFinite, Zenon DEF StatusSync, PodsOK, claimVars
<1>9. CASE cleanStatefulSet
  <2>1. sts.reserve \in Seq(Ordinals) /\ inst.shrink.reserve \in Seq(Ordinals)
    BY <1>1, Zenon DEF KVs
  <2>2. sts.reserve \o inst.shrink.reserve \in Seq(Ordinals)
    BY <2>1
  <2> QED
    BY <1>3, <1>9, <2>2, Zenon DEF cleanStatefulSet
<1>10. CASE ScaleUp
  <2>1. CASE inst.replicas > sts.replicas
    <3>1. inst.replicas \in Sizes /\ sts.replicas \in Sizes /\ sts.reserve \in Seq(Ordinals)
      BY <1>1, Zenon DEF KVs
    <3>2. inst.replicas \in Nat /\ sts.replicas \in Nat
      BY <3>1, SizesFacts, Zenon
    <3>3. inst.replicas - sts.replicas \in Nat
      BY <2>1, <3>2, SMTT(60)
    <3>4. Unreserved(sts.reserve, inst.replicas - sts.replicas) \in Seq(Ordinals)
      BY <3>1, <3>3, SMTT(60) DEF Unreserved
    <3> QED
      BY <1>3, <1>10, <2>1, <3>4, Zenon DEF ScaleUp
  <2>2. CASE ~(inst.replicas > sts.replicas)
    BY <1>2, <1>10, <2>2, Zenon DEF ScaleUp
  <2> QED
    BY <2>1, <2>2
<1>11. CASE Ping
  <2>1. CASE UNCHANGED podVars
    BY <1>2, <1>11, <2>1, Zenon DEF Ping
  <2>2. CASE Removed(pos - 1) /\ pvcs' = pvcs \ {pos - 1}
    <3> DEFINE o == pos - 1
    <3>1. Removed(o) /\ pvcs' = pvcs \ {o} /\ UNCHANGED <<sts, readyReplicas>>
      BY <1>11, <2>2, Zenon DEF Ping
    <3> HIDE DEF o
    <3>2. doomed' \subseteq pvcs' \cap DOMAIN pods'
      BY <1>1, <1>6, <3>1, Zenon DEF Removed, PodsOK
    <3> QED
      BY <1>1, <1>6, <3>1, <3>2, Zenon DEF PodsOK
  <2>3. CASE (pos - 1) \notin DOMAIN pods /\ pvcs' = pvcs \ {pos - 1} /\ UNCHANGED <<pods, doomed>>
    BY <1>1, <1>11, <2>3, Zenon DEF Ping, PodsOK
  <2> QED
    BY <1>11, <2>1, <2>2, <2>3, ZenonT(30) DEF Ping, podVars
<1>12. CASE cleanPersistentVolumeClaim
  <2> DEFINE unused == pvcs \ {stsNodes[j].idx : j \in 1..Len(stsNodes)}
  <2>1. /\ pvcs' = pvcs \ (unused \ DOMAIN pods)
        /\ doomed' = doomed \cup (unused \cap DOMAIN pods)
        /\ UNCHANGED <<sts, readyReplicas, pods>>
        /\ unused \subseteq pvcs
    BY <1>12, Zenon DEF cleanPersistentVolumeClaim
  <2> HIDE DEF unused
  <2>2. pvcs' \subseteq pvcs /\ doomed' \subseteq pvcs' \cap DOMAIN pods
    BY <1>1, <2>1, Zenon DEF PodsOK
  <2> QED
    BY <1>1, <2>1, <2>2, Zenon DEF PodsOK
<1>13. CASE \/ Reconcile \/ ClearShrink \/ ListPods \/ FixTopo \/ EndFailover \/ updateCluster
  BY <1>2, <1>13, ZenonT(60)
     DEF Reconcile, ClearShrink, ListPods, FixTopo, EndFailover, updateCluster, Abort, Panic,
         WorkerUpdate
<1>14. CASE SetNodeID \/ Publish \/ ensureShrink \/ OperatorKilled \/ CacheSync \/ UNCHANGED vars
  BY <1>2, <1>14, ZenonT(60)
     DEF SetNodeID, Publish, ensureShrink, OperatorKilled, CacheSync, Abort, Panic, WorkerUpdate, vars
<1>15. CASE \/ \E n \in Sizes : EditReplicas(n)
            \/ \E ip \in DOMAIN ctl : Odown(ip)
            \/ \E ip \in msgs : handleFailover(ip)
  BY <1>2, <1>15, ZenonT(60) DEF EditReplicas, Odown, handleFailover
<1> QED
  BY <1>4, <1>5, <1>7, <1>8, <1>9, <1>10, <1>11, <1>12, <1>13, <1>14, <1>15, ZenonT(60)
     DEF Next, WorkerStep, PodStep

\* The worker's list after a step: as before, forgotten, or made again.
LEMMA ListStep ==
  ASSUME TypeInv, [Next]_vars
  PROVE  \/ UNCHANGED stsNodes /\ (pc # "list" \/ UNCHANGED pc)
         \/ stsNodes' = <<>> /\ pc' = "idle"
         \/ /\ pc = "list" /\ pc' = "topo" /\ UpPods = DOMAIN pods
            /\ UNCHANGED <<kv, cache, sts, podVars, ctl, msgs, inst, pos, requeue, change,
                           nextIP, countVars>>
            /\ stsNodes' = [j \in 1..Len(Ascending(DOMAIN pods)) |->
                              NewNode(pods[Ascending(DOMAIN pods)[j]].ip, Ascending(DOMAIN pods)[j])]
         \/ FixTopo /\ stsNodes' = FixNodes(stsNodes, inst.topo)
         \/ Ping /\ stsNodes' = [stsNodes EXCEPT ![pos].failover = FALSE]
         \/ updateCluster /\ stsNodes' = Replicated(stsNodes) /\ pc' = "setid"
         \/ SetNodeID /\ stsNodes' = Identified(stsNodes, ctl) /\ MastersIn(ctl) # {}
<1>1. CASE EndReconcile
  BY <1>1, Zenon DEF EndReconcile
<1>2. CASE ListPods
  BY <1>1, <1>2, ZenonT(30) DEF ListPods, Abort
<1>3. CASE FixTopo
  BY <1>1, <1>3, ZenonT(30) DEF FixTopo, Abort, Panic
<1>4. CASE Ping
  BY <1>1, <1>4, ZenonT(30) DEF Ping
<1>5. CASE updateCluster
  BY <1>1, <1>5, ZenonT(30) DEF updateCluster, Abort
<1>6. CASE SetNodeID
  BY <1>1, <1>6, ZenonT(30) DEF SetNodeID, Abort
<1>7. CASE UNCHANGED stsNodes /\ (pc # "list" \/ UNCHANGED pc)
  BY <1>7, SMTT(60)
<1>8. CASE Reconcile \/ cleanStatefulSet \/ ClearShrink \/ ScaleUp \/ EndFailover
  BY <1>1, <1>7, <1>8, ZenonT(60)
     DEF Reconcile, cleanStatefulSet, ClearShrink, ScaleUp, EndFailover, Abort, WorkerUpdate, Goto
<1>9. CASE Publish \/ ensureShrink \/ cleanPersistentVolumeClaim \/ OperatorKilled
  BY <1>1, <1>7, <1>9, ZenonT(60)
     DEF Publish, ensureShrink, cleanPersistentVolumeClaim, OperatorKilled, Panic, WorkerUpdate, Goto
<1>10. CASE \/ CacheSync \/ StatusSync \/ UNCHANGED vars
            \/ \E o \in Ordinals : PodStep(o)
  BY <1>7, <1>10, ZenonT(60)
     DEF CacheSync, StatusSync, vars, PodStep, PodCreate, PodScaleDown, PodGone, workerVars
<1>11. CASE \/ \E n \in Sizes : EditReplicas(n)
            \/ \E ip \in DOMAIN ctl : Odown(ip)
            \/ \E ip \in msgs : handleFailover(ip)
  BY <1>7, <1>11, ZenonT(60) DEF EditReplicas, Odown, handleFailover, workerVars
<1> QED
  BY <1>2, <1>3, <1>4, <1>5, <1>6, <1>8, <1>9, <1>10, <1>11, ZenonT(60) DEF Next, WorkerStep

\* Position by position: what the worker's list becomes when it lists the pods,
\* and what it keeps otherwise.
LEMMA ListKept ==
  ASSUME TypeInv, [Next]_vars
  PROVE  /\ stsNodes' \in Seq(Nodes)
         /\ \/ stsNodes' = <<>> /\ pc' = "idle"
            \/ /\ pc = "list" /\ pc' = "topo" /\ UpPods = DOMAIN pods
               /\ UNCHANGED <<kv, cache, sts, podVars, ctl, msgs, inst, pos, requeue, change,
                              nextIP, countVars>>
               /\ Len(stsNodes') = Len(Ascending(DOMAIN pods))
               /\ \A j \in 1..Len(stsNodes') :
                    /\ Ascending(DOMAIN pods)[j] \in DOMAIN pods
                    /\ stsNodes'[j] = NewNode(pods[Ascending(DOMAIN pods)[j]].ip,
                                              Ascending(DOMAIN pods)[j])
            \/ SamePods(stsNodes', stsNodes) /\ (pc # "list" \/ UNCHANGED pc)
<1>1. /\ stsNodes \in Seq(Nodes) /\ inst \in KVs
      /\ DOMAIN pods \subseteq Ordinals /\ \A o \in DOMAIN pods : pods[o] \in Pods
      /\ DOMAIN ctl \subseteq IPs /\ \A ip \in DOMAIN ctl : ctl[ip] \in {"master", "slave"}
      /\ nextIP \in Nat
  BY TypeFacts, Zenon
<1>2. inst.topo \in Seq(Entries)
  BY <1>1, Zenon DEF KVs
<1>3. CASE UNCHANGED stsNodes /\ (pc # "list" \/ UNCHANGED pc)
  BY <1>1, <1>3, Zenon DEF SamePods
<1>4. CASE stsNodes' = <<>> /\ pc' = "idle"
  BY <1>4
<1>5. ASSUME NEW order, order = Ascending(DOMAIN pods),
             stsNodes' = [j \in 1..Len(order) |-> NewNode(pods[order[j]].ip, order[j])]
      PROVE  /\ stsNodes' \in Seq(Nodes) /\ Len(stsNodes') = Len(order)
             /\ \A j \in 1..Len(stsNodes') :
                  order[j] \in DOMAIN pods /\ stsNodes'[j] = NewNode(pods[order[j]].ip, order[j])
  <2>1. order \in Seq(DOMAIN pods)
    BY <1>5, PodsFinite, AscendingFacts, Zenon
  <2>2. Len(order) \in Nat /\ \A j \in 1..Len(order) : order[j] \in DOMAIN pods
    BY <2>1
  <2> DEFINE at(j) == NewNode(pods[order[j]].ip, order[j])
  <2>3. ASSUME NEW j \in 1..Len(order) PROVE at(j) \in Nodes
    <3>1. order[j] \in Ordinals /\ pods[order[j]].ip \in Nat
      BY <1>1, <2>2, Zenon DEF Pods
    <3>2. "none" \in Roles /\ 0 \in Nat
      BY DEF Roles
    <3> QED
      BY <3>1, <3>2, Zenon DEF NewNode, Nodes
  <2>4. stsNodes' = [j \in 1..Len(order) |-> at(j)]
    BY <1>5
  <2> HIDE DEF at
  <2>5. /\ stsNodes' \in Seq(Nodes) /\ Len(stsNodes') = Len(order)
        /\ \A j \in 1..Len(order) : stsNodes'[j] = at(j)
    BY <2>2, <2>3, <2>4, SMTT(60)
  <2> QED
    BY <2>2, <2>5, Zenon DEF at
<1>6. CASE FixTopo /\ stsNodes' = FixNodes(stsNodes, inst.topo)
  <2>1. pc # "list"
    BY <1>6, Zenon DEF FixTopo
  <2> QED
    BY <1>1, <1>2, <1>6, <2>1, FixNodesFacts, Zenon
<1>7. CASE Ping /\ stsNodes' = [stsNodes EXCEPT ![pos].failover = FALSE]
  <2>1. DOMAIN stsNodes = 1..Len(stsNodes) /\ \A j \in 1..Len(stsNodes) : stsNodes[j] \in Nodes
    BY <1>1
  <2>2. \A node \in Nodes : /\ [node EXCEPT !.failover = FALSE] \in Nodes
                            /\ [node EXCEPT !.failover = FALSE].ip = node.ip
                            /\ [node EXCEPT !.failover = FALSE].idx = node.idx
    BY Zenon DEF Nodes
  <2>3. stsNodes' \in Seq(Nodes) /\ Len(stsNodes') = Len(stsNodes)
    <3>1. pos <= Len(stsNodes) /\ pos \in 1..(Len(stsNodes) + 1)
      BY <1>7, TypeParts, Zenon DEF Ping, WorkerOK
    <3>2. pos \in 1..Len(stsNodes)
      BY <1>1, <3>1
    <3> DEFINE node == [stsNodes[pos] EXCEPT !.failover = FALSE]
    <3>3. node \in Nodes
      BY <2>1, <2>2, <3>2, Zenon
    <3>4. stsNodes' = [stsNodes EXCEPT ![pos] = node]
      BY <1>7
    <3> HIDE DEF node
    <3> QED
      BY <1>1, <3>2, <3>3, <3>4, SMTT(60)
  <2>4. \A j \in 1..Len(stsNodes) : \/ stsNodes'[j] = stsNodes[j]
                                    \/ stsNodes'[j] = [stsNodes[j] EXCEPT !.failover = FALSE]
    BY <1>7, <2>1, Zenon
  <2>5. SamePods(stsNodes', stsNodes)
    BY <2>1, <2>2, <2>3, <2>4, Zenon DEF SamePods
  <2>6. pc # "list"
    BY <1>7, Zenon DEF Ping
  <2> QED
    BY <2>3, <2>5, <2>6, Zenon
<1>8. CASE updateCluster /\ stsNodes' = Replicated(stsNodes)
  <2>1. pc # "list"
    BY <1>8, Zenon DEF updateCluster
  <2> QED
    BY <1>1, <1>8, <2>1, ReplicatedFacts, Zenon
<1>9. CASE SetNodeID /\ stsNodes' = Identified(stsNodes, ctl) /\ MastersIn(ctl) # {}
  <2>1. DOMAIN ctl \subseteq Nat
    BY <1>1 DEF IPs
  <2>2. pc # "list"
    BY <1>9, Zenon DEF SetNodeID
  <2> QED
    BY <1>1, <1>9, <2>1, <2>2, IdentifiedFacts, Zenon
<1> QED
  BY <1>3, <1>4, <1>5, <1>6, <1>7, <1>8, <1>9, ListStep, Zenon

\* The ips given out stay given out, and only a new pod takes one.
LEMMA IPsStep ==
  ASSUME TypeInv, [Next]_vars
  PROVE  /\ nextIP' \in Nat /\ nextIP' # 0 /\ IPs \subseteq IPs'
         /\ \A o \in DOMAIN pods' :
              \/ o \in DOMAIN pods /\ pods'[o].ip = pods[o].ip
              \/ PodCreate(o) /\ pods'[o].ip = nextIP /\ nextIP \in IPs'
<1> DEFINE IPsKept == \A o \in DOMAIN pods' :
                     \/ o \in DOMAIN pods /\ pods'[o].ip = pods[o].ip
                     \/ PodCreate(o) /\ pods'[o].ip = nextIP /\ nextIP \in IPs'
<1>1. /\ nextIP \in Nat /\ nextIP # 0
      /\ \A o \in DOMAIN pods : pods[o] \in Pods /\ pods[o].ip \in IPs
  BY TypeFacts, TypeParts, Zenon DEF ShardOK
<1>2. \/ UNCHANGED nextIP
      \/ \E o \in Ordinals : PodCreate(o)
  <2>1. CASE UNCHANGED nextIP
    BY <2>1
  <2>2. CASE \/ Reconcile \/ cleanStatefulSet \/ ClearShrink \/ ScaleUp \/ ListPods \/ FixTopo
             \/ Ping \/ EndFailover
    BY <2>1, <2>2, ZenonT(60)
       DEF Reconcile, cleanStatefulSet, ClearShrink, ScaleUp, ListPods, FixTopo, Ping, EndFailover,
           Abort, Panic, WorkerUpdate
  <2>3. CASE \/ updateCluster \/ SetNodeID \/ Publish \/ ensureShrink
             \/ cleanPersistentVolumeClaim \/ OperatorKilled
    BY <2>1, <2>3, ZenonT(60)
       DEF updateCluster, SetNodeID, Publish, ensureShrink, cleanPersistentVolumeClaim, OperatorKilled,
           Abort, Panic, WorkerUpdate
  <2>4. CASE \/ CacheSync \/ StatusSync \/ UNCHANGED vars
             \/ \E o \in Ordinals : PodScaleDown(o) \/ PodGone(o)
    BY <2>1, <2>4, Zenon DEF CacheSync, StatusSync, vars, PodScaleDown, PodGone
  <2>5. CASE \/ \E n \in Sizes : EditReplicas(n)
             \/ \E ip \in DOMAIN ctl : Odown(ip)
             \/ \E ip \in msgs : handleFailover(ip)
    BY <2>1, <2>5, Zenon DEF EditReplicas, Odown, handleFailover
  <2> QED
    BY <2>2, <2>3, <2>4, <2>5, ZenonT(60) DEF Next, WorkerStep, PodStep
<1>3. nextIP' \in Nat /\ nextIP' # 0 /\ IPs \subseteq IPs'
  <2>1. nextIP' = nextIP \/ nextIP' = nextIP + 1
    BY <1>2, Zenon DEF PodCreate
  <2> QED
    BY <1>1, <2>1 DEF IPs
<1> SUFFICES IPsKept
  BY <1>3, Zenon
<1>4. CASE UNCHANGED pods
  BY <1>4, Zenon
<1>5. ASSUME NEW o \in Ordinals, PodCreate(o) PROVE IPsKept
  <2>1. nextIP \in IPs'
    <3>1. nextIP' = nextIP + 1
      BY <1>5, Zenon DEF PodCreate
    <3> QED
      BY <1>1, <3>1 DEF IPs
  <2>2. DOMAIN pods' = DOMAIN pods \cup {o}
    BY <1>5, Zenon DEF PodCreate
  <2>3. \A p \in DOMAIN pods' : pods'[p] = IF p = o THEN [ip |-> nextIP, up |-> TRUE] ELSE pods[p]
    BY <1>5, Zenon DEF PodCreate
  <2>4. [ip |-> nextIP, up |-> TRUE].ip = nextIP
    BY Zenon
  <2>5. ASSUME NEW p \in DOMAIN pods'
        PROVE  \/ p \in DOMAIN pods /\ pods'[p].ip = pods[p].ip
               \/ PodCreate(p) /\ pods'[p].ip = nextIP /\ nextIP \in IPs'
    <3>1. CASE p = o
      BY <1>5, <2>1, <2>3, <2>4, <3>1, Zenon
    <3>2. CASE p # o
      BY <2>2, <2>3, <3>2, Zenon
    <3> QED
      BY <3>1, <3>2
  <2> QED
    BY <2>5, Zenon
<1>6. ASSUME NEW o \in Ordinals, PodScaleDown(o) PROVE IPsKept
  BY <1>1, <1>6, Zenon DEF PodScaleDown, Pods
<1>7. ASSUME NEW o, Removed(o) PROVE IPsKept
  BY <1>7, Zenon DEF Removed
<1>8. CASE Ping
  BY <1>4, <1>7, <1>8, ZenonT(30) DEF Ping
<1> HIDE DEF IPsKept
<1>9. CASE \/ Reconcile \/ cleanStatefulSet \/ ClearShrink \/ ScaleUp \/ ListPods \/ FixTopo
           \/ EndFailover \/ updateCluster
  BY <1>4, <1>9, ZenonT(60)
     DEF Reconcile, cleanStatefulSet, ClearShrink, ScaleUp, ListPods, FixTopo, EndFailover,
         updateCluster, Abort, Panic, WorkerUpdate, podVars, IPsKept
<1>10. CASE \/ SetNodeID \/ Publish \/ ensureShrink \/ cleanPersistentVolumeClaim \/ OperatorKilled
            \/ CacheSync \/ StatusSync \/ UNCHANGED vars
  BY <1>4, <1>10, ZenonT(60)
     DEF SetNodeID, Publish, ensureShrink, cleanPersistentVolumeClaim, OperatorKilled,
         Abort, Panic, WorkerUpdate, podVars, CacheSync, StatusSync, vars, IPsKept
<1>11. CASE \/ \E n \in Sizes : EditReplicas(n)
            \/ \E ip \in DOMAIN ctl : Odown(ip)
            \/ \E ip \in msgs : handleFailover(ip)
  BY <1>4, <1>11, Zenon DEF EditReplicas, Odown, handleFailover, podVars, IPsKept
<1>12. ASSUME NEW o \in Ordinals, PodGone(o) PROVE IPsKept
  BY <1>7, <1>12, Zenon DEF PodGone
<1> QED
  BY <1>5, <1>6, <1>8, <1>9, <1>10, <1>11, <1>12, ZenonT(60) DEF Next, WorkerStep, PodStep, IPsKept

\* Whatever names a node names it by an ip that was given out.
LEMMA ShardStep == TypeInv /\ [Next]_vars => ShardOK'
<1> SUFFICES ASSUME TypeInv, [Next]_vars PROVE ShardOK'
  OBVIOUS
<1>1. /\ ShardOK /\ stsNodes \in Seq(Nodes) /\ nextIP \in Nat
  BY TypeFacts, TypeParts, Zenon
<1>2. /\ nextIP' \in Nat /\ nextIP' # 0 /\ IPs \subseteq IPs'
      /\ \A o \in DOMAIN pods' : \/ o \in DOMAIN pods /\ pods'[o].ip = pods[o].ip
                                 \/ pods'[o].ip = nextIP /\ nextIP \in IPs'
  BY IPsStep, Zenon
<1>3. \A o \in DOMAIN pods' : pods'[o].ip \in IPs'
  BY <1>1, <1>2, Zenon DEF ShardOK
<1>4. \A j \in 1..Len(stsNodes') : stsNodes'[j].ip \in IPs
  <2>1. CASE stsNodes' = <<>>
    <3>1. 1..Len(<<>>) = {}
      OBVIOUS
    <3> QED
      BY <2>1, <3>1, Zenon
  <2>2. CASE \A j \in 1..Len(stsNodes') :
               \E o \in DOMAIN pods : stsNodes'[j] = NewNode(pods[o].ip, o)
    <3> SUFFICES ASSUME NEW j \in 1..Len(stsNodes') PROVE stsNodes'[j].ip \in IPs
      OBVIOUS
    <3>1. PICK o \in DOMAIN pods : stsNodes'[j] = NewNode(pods[o].ip, o)
      BY <2>2, Zenon
    <3>2. NewNode(pods[o].ip, o).ip = pods[o].ip
      BY Zenon DEF NewNode
    <3> QED
      BY <1>1, <3>1, <3>2, Zenon DEF ShardOK
  <2>3. CASE SamePods(stsNodes', stsNodes)
    BY <1>1, <2>3, Zenon DEF SamePods, ShardOK
  <2> QED
    BY <2>1, <2>2, <2>3, ListKept, Zenon
<1>5. DOMAIN ctl' \subseteq IPs /\ \A ip \in DOMAIN ctl' : ctl'[ip] \in {"master", "slave"}
  <2>1. CASE UNCHANGED ctl
    BY <1>1, <2>1, Zenon DEF ShardOK
  <2>2. ASSUME NEW ip \in msgs, handleFailover(ip)
        PROVE  DOMAIN ctl' \subseteq IPs /\ \A i \in DOMAIN ctl' : ctl'[i] \in {"master", "slave"}
    <3>1. ASSUME NEW new, ctl' = Promoted(ctl, new)
          PROVE  DOMAIN ctl' \subseteq IPs /\ \A i \in DOMAIN ctl' : ctl'[i] \in {"master", "slave"}
      BY <1>1, <3>1, Zenon DEF Promoted, ShardOK
    <3> QED
      BY <2>1, <2>2, <3>1, FailoverFacts, Zenon
  <2>3. CASE updateCluster
    <3> DEFINE nodes == Replicated(stsNodes)
               new == Extended(Kept(ctl, nodes), nodes)
    <3>1. CASE UNCHANGED ctl
      BY <2>1, <3>1
    <3>2. CASE ctl' = new
      <4>1. SamePods(nodes, stsNodes)
        BY <1>1, ReplicatedFacts
      <4> HIDE DEF nodes
      <4>2. IPsOf(nodes) \subseteq IPs
        BY <1>1, <4>1, Zenon DEF SamePods, IPsOf, ShardOK
      <4>3. /\ DOMAIN new \subseteq IPsOf(nodes)
            /\ \A ip \in DOMAIN new : \/ new[ip] \in {"master", "slave"}
                                      \/ ip \in DOMAIN ctl /\ new[ip] = ctl[ip]
        BY ExtendedFacts, Zenon
      <4> HIDE DEF new
      <4> QED
        BY <1>1, <3>2, <4>2, <4>3, Zenon DEF ShardOK
    <3> QED
      BY <2>3, <3>1, <3>2, Zenon DEF updateCluster, Abort
  <2>4. CASE \/ Reconcile \/ cleanStatefulSet \/ ClearShrink \/ ScaleUp \/ ListPods \/ FixTopo
             \/ Ping \/ EndFailover
    BY <2>1, <2>4, ZenonT(60)
       DEF Reconcile, cleanStatefulSet, ClearShrink, ScaleUp, ListPods, FixTopo, Ping, EndFailover,
           Abort, Panic, WorkerUpdate
  <2>5. CASE \/ SetNodeID \/ Publish \/ ensureShrink \/ cleanPersistentVolumeClaim
             \/ OperatorKilled \/ CacheSync \/ StatusSync \/ UNCHANGED vars
    BY <2>1, <2>5, ZenonT(60)
       DEF SetNodeID, Publish, ensureShrink, cleanPersistentVolumeClaim, OperatorKilled,
           CacheSync, StatusSync, vars, Abort, Panic, WorkerUpdate
  <2>6. CASE \/ \E n \in Sizes : EditReplicas(n)
             \/ \E ip \in DOMAIN ctl : Odown(ip)
             \/ \E o \in Ordinals : PodStep(o)
    BY <2>1, <2>6, Zenon DEF EditReplicas, Odown, PodStep, PodCreate, PodScaleDown, PodGone
  <2> QED
    BY <2>2, <2>3, <2>4, <2>5, <2>6, ZenonT(60) DEF Next, WorkerStep
<1>6. msgs' \subseteq IPs
  <2>1. CASE msgs' \subseteq msgs
    BY <1>1, <2>1, Zenon DEF ShardOK
  <2>2. CASE \E ip \in DOMAIN ctl : Odown(ip)
    BY <1>1, <2>2, Zenon DEF Odown, ShardOK
  <2>3. CASE Ping
    <3>1. pos <= Len(stsNodes) /\ pos \in 1..(Len(stsNodes) + 1)
      BY <2>3, TypeParts, Zenon DEF Ping, WorkerOK
    <3>2. pos \in 1..Len(stsNodes)
      BY <1>1, <3>1, SMTT(60)
    <3>3. stsNodes[pos].ip \in IPs
      BY <1>1, <3>2, Zenon DEF ShardOK
    <3>4. msgs' \subseteq msgs \cup {stsNodes[pos].ip}
      BY <2>3, ZenonT(30) DEF Ping
    <3> QED
      BY <1>1, <3>3, <3>4, Zenon DEF ShardOK
  <2>4. CASE \/ Reconcile \/ cleanStatefulSet \/ ClearShrink \/ ScaleUp \/ ListPods \/ FixTopo
             \/ EndFailover
    BY <2>1, <2>4, ZenonT(60)
       DEF Reconcile, cleanStatefulSet, ClearShrink, ScaleUp, ListPods, FixTopo, EndFailover,
           Abort, Panic, WorkerUpdate
  <2>5. CASE \/ updateCluster \/ SetNodeID \/ Publish \/ ensureShrink \/ cleanPersistentVolumeClaim
             \/ OperatorKilled \/ CacheSync \/ StatusSync \/ UNCHANGED vars
    BY <2>1, <2>5, ZenonT(60)
       DEF updateCluster, SetNodeID, Publish, ensureShrink, cleanPersistentVolumeClaim, OperatorKilled,
           CacheSync, StatusSync, vars, Abort, Panic, WorkerUpdate
  <2>6. CASE \/ \E n \in Sizes : EditReplicas(n)
             \/ \E ip \in msgs : handleFailover(ip)
             \/ \E o \in Ordinals : PodStep(o)
    BY <2>1, <2>6, Zenon DEF EditReplicas, handleFailover, PodStep, PodCreate, PodScaleDown, PodGone
  <2> QED
    BY <2>2, <2>3, <2>4, <2>5, <2>6, ZenonT(60) DEF Next, WorkerStep
<1> QED
  BY <1>2, <1>3, <1>4, <1>5, <1>6, Zenon DEF ShardOK

\* The worker stays at one of its steps, with the loop variable inside the list.
LEMMA ControlStep == TypeInv /\ [Next]_vars => WorkerOK'
<1> SUFFICES ASSUME TypeInv, [Next]_vars PROVE WorkerOK'
  OBVIOUS
<1> DEFINE Early == {"idle", "clean", "unshrink", "scale", "list", "topo"}
           Late == {"ping", "update", "setid", "publish", "shrink", "pvc"}
<1>1. /\ WorkerOK /\ stsNodes \in Seq(Nodes) /\ stsNodes' \in Seq(Nodes)
  BY TypeFacts, TypeParts, ListKept, Zenon
<1>2. CASE UNCHANGED workerVars
  BY <1>1, <1>2, Zenon DEF WorkerOK, workerVars
<1>3. CASE EndReconcile
  <2>1. 1 \in 1..(Len(<<>>) + 1)
    OBVIOUS
  <2> QED
    BY <1>1, <1>3, <2>1, Zenon DEF EndReconcile, WorkerOK
<1>4. ASSUME pc \in Early, pc' \in Early, UNCHANGED <<pos, requeue, change>>
      PROVE  WorkerOK'
  <2>1. pos = 1
    BY <1>1, <1>4, Zenon DEF WorkerOK
  <2>2. 1 \in 1..(Len(stsNodes') + 1)
    BY <1>1
  <2> QED
    BY <1>1, <1>4, <2>1, <2>2, Zenon DEF WorkerOK
<1>5. ASSUME pc' \in Late, UNCHANGED <<pos, requeue, change>>, Len(stsNodes') = Len(stsNodes)
      PROVE  WorkerOK'
  BY <1>1, <1>5, Zenon DEF WorkerOK
<1>6. CASE Ping
  <2>1. CASE EndReconcile
    BY <1>3, <2>1, Zenon
  <2>2. CASE ~EndReconcile
    <3>1. /\ pos' = pos + 1 /\ pc' = "ping" /\ pos <= Len(stsNodes)
          /\ {requeue', change'} \subseteq BOOLEAN
      <4>1. /\ pc = "ping" /\ pos <= Len(stsNodes)
            /\ \/ pos' = pos + 1 /\ pc' = pc /\ requeue' = TRUE /\ change' = TRUE
               \/ /\ pos' = pos + 1 /\ pc' = pc /\ change' = change
                  /\ requeue' = (requeue \/ ~Serving(stsNodes[pos].ip))
        BY <1>6, <2>2, ZenonT(60) DEF Ping
      <4>2. {requeue, change} \subseteq BOOLEAN
        BY <1>1, Zenon DEF WorkerOK
      <4>3. (requeue \/ ~Serving(stsNodes[pos].ip)) \in BOOLEAN
        BY Zenon
      <4> QED
        BY <4>1, <4>2, <4>3, Zenon
    <3>2. Len(stsNodes') = Len(stsNodes)
      <4>1. stsNodes' = stsNodes \/ stsNodes' = [stsNodes EXCEPT ![pos].failover = FALSE]
        BY <1>6, <2>2, ZenonT(60) DEF Ping
      <4> QED
        BY <1>1, <4>1
    <3>3. pos' \in 1..(Len(stsNodes') + 1)
      <4>1. pos \in 1..(Len(stsNodes) + 1)
        BY <1>1, Zenon DEF WorkerOK
      <4> QED
        BY <1>1, <3>1, <3>2, <4>1, SMTT(60)
    <3> QED
      BY <1>1, <3>1, <3>3, Zenon DEF WorkerOK
  <2> QED
    BY <2>1, <2>2
<1>7. CASE \/ Reconcile \/ cleanStatefulSet \/ ScaleUp \/ ListPods
  BY <1>3, <1>4, <1>7, ZenonT(60) DEF Reconcile, cleanStatefulSet, ScaleUp, ListPods, Goto, Abort
<1>8. CASE ClearShrink
  BY <1>3, <1>4, <1>8, ZenonT(60) DEF ClearShrink, WorkerUpdate
<1>9. CASE FixTopo
  <2>1. CASE EndReconcile
    BY <1>3, <2>1
  <2>2. CASE stsNodes' = FixNodes(stsNodes, inst.topo) /\ pc' = "ping" /\ UNCHANGED <<pos, requeue, change>>
    <3>1. inst.topo \in Seq(Entries)
      BY TypeFacts, Zenon DEF KVs
    <3>2. Len(stsNodes') = Len(stsNodes)
      BY <1>1, <2>2, <3>1, FixNodesFacts, Zenon DEF SamePods
    <3> QED
      BY <1>5, <2>2, <3>2, Zenon
  <2> QED
    BY <1>9, <2>1, <2>2, Zenon DEF FixTopo, Abort, Panic
<1>10. CASE updateCluster
  <2>1. CASE EndReconcile
    BY <1>3, <2>1
  <2>2. CASE stsNodes' = Replicated(stsNodes) /\ pc' = "setid" /\ UNCHANGED <<pos, requeue, change>>
    <3>1. Len(stsNodes') = Len(stsNodes)
      BY <1>1, <2>2, ReplicatedFacts, Zenon DEF SamePods
    <3> QED
      BY <1>5, <2>2, <3>1, Zenon
  <2> QED
    BY <1>10, <2>1, <2>2, Zenon DEF updateCluster, Abort
<1>11. CASE SetNodeID
  <2>1. CASE EndReconcile
    BY <1>3, <2>1
  <2>2. CASE /\ MastersIn(ctl) # {} /\ stsNodes' = Identified(stsNodes, ctl) /\ pc' = "publish"
             /\ UNCHANGED <<pos, requeue, change>>
    <3>1. DOMAIN ctl \subseteq Nat /\ \A ip \in DOMAIN ctl : ctl[ip] \in {"master", "slave"}
      <4>1. DOMAIN ctl \subseteq IPs /\ nextIP \in Nat
        BY TypeFacts, Zenon
      <4>2. DOMAIN ctl \subseteq Nat
        BY <4>1 DEF IPs
      <4> QED
        BY <4>2, TypeFacts, Zenon
    <3>2. Len(stsNodes') = Len(stsNodes)
      BY <1>1, <2>2, <3>1, IdentifiedFacts, Zenon DEF SamePods
    <3> QED
      BY <1>5, <2>2, <3>2, Zenon
  <2> QED
    BY <1>11, <2>1, <2>2, Zenon DEF SetNodeID, Abort
<1>12. CASE EndFailover \/ Publish \/ ensureShrink
  BY <1>3, <1>5, <1>12, ZenonT(60)
     DEF EndFailover, Publish, ensureShrink, Goto, Abort, Panic, WorkerUpdate
<1>13. CASE cleanPersistentVolumeClaim \/ OperatorKilled
  BY <1>3, <1>13, Zenon DEF cleanPersistentVolumeClaim, OperatorKilled
<1>14. CASE \/ CacheSync \/ StatusSync \/ UNCHANGED vars
            \/ \E o \in Ordinals : PodStep(o)
            \/ \E n \in Sizes : EditReplicas(n)
            \/ \E ip \in DOMAIN ctl : Odown(ip)
            \/ \E ip \in msgs : handleFailover(ip)
  BY <1>2, <1>14, ZenonT(60)
     DEF CacheSync, StatusSync, vars, PodStep, PodCreate, PodScaleDown, PodGone, EditReplicas, Odown,
         handleFailover
<1> QED
  BY <1>6, <1>7, <1>8, <1>9, <1>10, <1>11, <1>12, <1>13, <1>14, ZenonT(60) DEF Next, WorkerStep

\* Every step keeps the type invariant.
LEMMA TypeStep == TypeInv /\ [Next]_vars => TypeInv'
<1>1. TypeInv /\ [Next]_vars => (ObjectsOK /\ PodsOK /\ ShardOK /\ WorkerOK /\ CountersOK)'
  BY ObjectsStep, PodsStep, ShardStep, ControlStep, CountersStep, Zenon
<1>2. TypeInv' <=> (ObjectsOK /\ PodsOK /\ ShardOK /\ WorkerOK /\ CountersOK)'
  BY TypeParts, PTL
<1> QED
  BY <1>1, <1>2

\* Every variable keeps its type, for all sizes and any number of edits, outages
\* and kills: the loop of ensureFailover stays within its list, only ips that were
\* given out get into kvrocks-controller and the failover queue, and a claim that
\* waits for its pod to go has that pod.
THEOREM TypeCorrect == Spec => []TypeOK
<1>1. TypeInv => TypeOK
  BY DEF TypeInv
<1> QED
  BY <1>1, InitType, TypeStep, PTL DEF Spec

-----------------------------------------------------------------------------
(* Optimistic concurrency *)

\* A copy with the version of the stored object is that object, and no copy is
\* newer.
CopyInv == \A c \in {cache, inst} : c.rv <= kv.rv /\ (c.rv = kv.rv => c = kv)

\* Initially all three are the same object.
LEMMA CopyInit == Init => CopyInv
<1> SUFFICES ASSUME Init PROVE CopyInv
  OBVIOUS
<1>1. TypeInv /\ cache = kv /\ inst = kv
  BY InitType, Zenon DEF Init
<1>2. kv.rv \in Nat
  BY <1>1, TypeFacts, Zenon DEF KVs
<1>3. kv.rv <= kv.rv
  BY <1>2, SMTT(60)
<1> QED
  BY <1>1, <1>3, Zenon DEF CopyInv

\* Every step keeps that.
LEMMA CopyStep == TypeInv /\ CopyInv /\ [Next]_vars => CopyInv'
<1> SUFFICES ASSUME TypeInv, CopyInv, [Next]_vars PROVE CopyInv'
  OBVIOUS
<1>1. /\ kv \in KVs /\ cache \in KVs /\ inst \in KVs /\ kv' \in KVs
      /\ kv' = kv \/ kv'.rv = kv.rv + 1
  BY TypeFacts, Replaced, Zenon
<1>2. /\ kv.rv \in Nat /\ cache.rv \in Nat /\ inst.rv \in Nat /\ kv'.rv \in Nat
  BY <1>1, Zenon DEF KVs
<1>3. ASSUME NEW c \in {cache, inst} PROVE c.rv <= kv'.rv /\ (c.rv = kv'.rv => c = kv')
  <2>1. c.rv <= kv.rv /\ (c.rv = kv.rv => c = kv) /\ c.rv \in Nat
    BY <1>2, Zenon DEF CopyInv
  <2>2. CASE kv' = kv
    BY <2>1, <2>2, Zenon
  <2>3. CASE kv'.rv = kv.rv + 1
    <3>1. c.rv <= kv'.rv /\ c.rv # kv'.rv
      BY <1>2, <2>1, <2>3, SMTT(60)
    <3> QED
      BY <3>1, Zenon
  <2> QED
    BY <1>1, <2>2, <2>3, Zenon
<1>4. kv'.rv <= kv'.rv
  BY <1>2
<1>5. cache' \in {cache, kv'} /\ inst' \in {cache, inst, kv'}
  BY Reads, Zenon
<1> QED
  BY <1>3, <1>4, <1>5, Zenon DEF CopyInv

\* So an update of the worker that is accepted was made from what is stored.
LEMMA AcceptedCopy ==
  ASSUME CopyInv, Accepts(inst)
  PROVE  inst = kv
BY Zenon DEF CopyInv, Accepts

\* Although the worker sends the whole object, spec included, only the user ever
\* changes spec.replicas, for any number of edits, failovers and stale reads.
THEOREM OnlyUserResizes == Spec => UserOwnsReplicas
<1>1. TypeInv /\ CopyInv /\ [Next]_vars => [kv'.replicas # kv.replicas => edits' # edits]_vars
  <2> SUFFICES ASSUME TypeInv, CopyInv, [Next]_vars, kv'.replicas # kv.replicas
               PROVE  edits' # edits
    BY Zenon
  <2>1. kv \in KVs /\ edits \in Nat
    BY TypeFacts
  <2>2. ASSUME NEW obj \in KVs, kv' = Stored(obj), obj.replicas = kv.replicas PROVE FALSE
    BY <2>1, <2>2, StoredFacts, Zenon
  <2>3. ASSUME NEW n \in Sizes, EditReplicas(n) PROVE edits' # edits
    <3>1. edits' = edits + 1
      BY <2>3, Zenon DEF EditReplicas
    <3> QED
      BY <2>1, <3>1, SMTT(60)
  <2>4. ASSUME NEW ip \in msgs, handleFailover(ip) PROVE FALSE
    BY <2>2, <2>4, FailoverFacts, Zenon
  <2>5. ASSUME NEW obj, Sent(obj), Accepts(inst), kv' = Stored(obj) PROVE FALSE
    BY <2>2, <2>5, AcceptedCopy, Zenon DEF Sent
  <2> QED
    BY <2>3, <2>4, <2>5, Writes, Zenon
<1> QED
  BY <1>1, InitType, TypeStep, CopyInit, CopyStep, PTL DEF Spec, UserOwnsReplicas

\* The worker and the failover handler never take Status.Version back, except to 0
\* when the instance fails.
THEOREM VersionGrows == Spec => VersionNeverFalls
<1>1. TypeInv /\ CopyInv /\ [Next]_vars => [kv'.version < kv.version => kv'.status = "Failed"]_vars
  <2> SUFFICES ASSUME TypeInv, CopyInv, [Next]_vars, kv'.version < kv.version
               PROVE  kv'.status = "Failed"
    BY Zenon
  <2>1. kv \in KVs /\ kv' \in KVs
    BY TypeFacts, Replaced, Zenon
  <2>2. kv.version \in Nat /\ kv'.version \in Nat
    BY <2>1, Zenon DEF KVs
  <2>3. ASSUME NEW obj \in KVs, kv' = Stored(obj), obj.version >= kv.version PROVE FALSE
    <3>1. kv'.version = obj.version
      BY <2>1, <2>3, StoredFacts, ZenonT(60)
    <3> QED
      BY <2>2, <2>3, <3>1, SMTT(60)
  <2>4. ASSUME NEW n \in Sizes, EditReplicas(n) PROVE FALSE
    <3>1. /\ [kv EXCEPT !.replicas = n] \in KVs
          /\ [kv EXCEPT !.replicas = n].version = kv.version
      BY <2>1, Zenon DEF KVs
    <3>2. kv.version >= kv.version
      BY <2>2, SMTT(60)
    <3> QED
      BY <2>3, <2>4, <3>1, <3>2, Zenon DEF EditReplicas
  <2>5. ASSUME NEW ip \in msgs, handleFailover(ip) PROVE kv'.status = "Failed"
    <3>1. kv.version + 1 >= kv.version /\ ~(kv.version < kv.version)
      BY <2>2
    <3>2. CASE UNCHANGED <<kv, ctl>>
      BY <3>1, <3>2, Zenon
    <3>3. ASSUME NEW obj \in KVs, kv' = Stored(obj), obj.status = "Failed" PROVE kv'.status = "Failed"
      BY <2>1, <3>3, StoredFacts, Zenon
    <3>4. ASSUME NEW obj \in KVs, kv' = Stored(obj), obj.version = kv.version + 1 PROVE FALSE
      BY <2>3, <3>1, <3>4, Zenon
    <3> QED
      BY <2>5, <3>2, <3>3, <3>4, FailoverFacts, Zenon
  <2>6. ASSUME NEW obj, Sent(obj), Accepts(inst), kv' = Stored(obj) PROVE FALSE
    BY <2>3, <2>6, AcceptedCopy, Zenon DEF Sent
  <2>7. CASE UNCHANGED kv
    <3>1. ~(kv.version < kv.version)
      BY <2>2
    <3> QED
      BY <2>7, <3>1, Zenon
  <2> QED
    BY <2>4, <2>5, <2>6, <2>7, Writes, Zenon
<1> QED
  BY <1>1, InitType, TypeStep, CopyInit, CopyStep, PTL DEF Spec, VersionNeverFalls

-----------------------------------------------------------------------------
(* A first edit of spec.replicas: the invariant *)

\* The worker has a list of the pods.
Listed == {"topo", "ping", "update", "setid", "publish", "shrink", "pvc"}

\* The object, the informer's copy of it and the worker's.
Copies == {kv, cache, inst}

\* Ips are not shared, the shard has at most one master, and what the worker
\* publishes has exactly one.
RolesInv ==
  /\ \A o, p \in DOMAIN pods : pods[o].ip = pods[p].ip => o = p
  /\ \A j, k \in 1..Len(stsNodes) : stsNodes[j].ip = stsNodes[k].ip => j = k
  /\ \A a, b \in MastersIn(ctl) : a = b
  /\ pc = "setid" => DOMAIN ctl = IPsOf(stsNodes)
  /\ pc \in {"publish", "shrink"} =>
       \E m \in 1..Len(stsNodes) :
         \A j \in 1..Len(stsNodes) : IsMaster(stsNodes[j]) <=> j = m

\* The edit travels from the object by the cache and the worker to the
\* StatefulSet, which has reserved ordinals only when it has shrunk.
EditInv ==
  /\ edits = 0 => kv.replicas = InitialSize
  /\ cache.replicas \in {InitialSize, kv.replicas}
  /\ inst.replicas \in {InitialSize, cache.replicas}
  /\ sts.replicas # InitialSize =>
       sts.replicas = kv.replicas /\ sts.replicas = cache.replicas
  /\ sts.replicas < InitialSize => inst.replicas = sts.replicas
  /\ sts.replicas >= InitialSize => sts.reserve = <<>>

\* An instance that has failed stays so, without topology and Status.Shrink.
FailedInv ==
  /\ \A c \in Copies : c.status = "Failed" => Len(c.topo) = 0 /\ c.shrink = NoShrink
  /\ cache.status = "Failed" => kv.status = "Failed"
  /\ pc # "idle" => inst.status # "Failed"

\* Until the StatefulSet shrinks no pod goes, then none comes; a worker that has
\* seen the StatefulSet ready works with the pods it wants.
PodsInv ==
  /\ \A o \in DOMAIN pods : o < InitialSize => pods[o].ip = o + 1
  /\ sts.replicas >= InitialSize =>
       /\ UpPods = DOMAIN pods
       /\ 0..(InitialSize - 1) \subseteq DOMAIN pods
       /\ DOMAIN pods \subseteq Desired(sts)
  /\ sts.replicas < InitialSize =>
       /\ Desired(sts) \subseteq UpPods
       /\ DOMAIN pods \subseteq 0..(InitialSize - 1)
  /\ sts.replicas = InitialSize => readyReplicas = InitialSize
  /\ readyReplicas = sts.replicas => UpPods = Desired(sts)
  /\ pc \in Listed \cup {"list"} => UpPods = Desired(sts)
  /\ pc \in Listed => DOMAIN pods = UpPods

\* The worker's list is that of the pods, each with its own id or none.
NodesInv ==
  pc \in Listed =>
    /\ Len(stsNodes) = Cardinality(DOMAIN pods)
    /\ \A j \in 1..Len(stsNodes) : /\ stsNodes[j].idx = Ascending(DOMAIN pods)[j]
                                   /\ stsNodes[j].ip = pods[Ascending(DOMAIN pods)[j]].ip
                                   /\ stsNodes[j].id \in {0, stsNodes[j].ip}

\* Position j of the topology is the pod with ordinal j - 1.
Whole(topo) ==
  \A j \in 1..Len(topo) : (j - 1) \in DOMAIN pods /\ topo[j].ip = pods[j - 1].ip

\* The topology is that of the first pods with the ordinals in D, in their order.
Part(topo, D) ==
  \/ Len(topo) = 0
  \/ /\ Len(topo) = Cardinality(D)
     /\ \A j \in 1..Len(topo) : topo[j].ip = Ascending(D)[j] + 1

\* The StatefulSet Status.Shrink plans.
Planned(c) == [replicas |-> c.replicas, reserve |-> c.shrink.reserve]

\* What a copy of the object says of the shard, before the StatefulSet shrinks and
\* after.
CopyOK(c) ==
  /\ sts.replicas >= InitialSize =>
       \/ ~c.shrink.on /\ Whole(c.topo)
       \/ /\ c.shrink.on /\ c.replicas = kv.replicas /\ c.replicas < InitialSize
          /\ Desired(Planned(c)) \subseteq 0..(InitialSize - 1)
          /\ Part(c.topo, Desired(Planned(c)))
  /\ sts.replicas < InitialSize =>
       /\ Part(c.topo, Desired(sts))
       /\ c.shrink.on => Range(c.shrink.reserve) = Range(sts.reserve)

\* A worker that shrinks the StatefulSet has read Status.Shrink, which stays until
\* the StatefulSet has shrunk.
ShrinkInv ==
  /\ pc \in {"clean", "unshrink"} <=> (pc # "idle" /\ inst.shrink.on)
  /\ pc = "unshrink" => sts.replicas < InitialSize
  /\ sts.replicas >= InitialSize =>
       /\ cache.shrink.on => kv.shrink = cache.shrink \/ kv.status = "Failed"
       /\ inst.shrink.on => cache.shrink = inst.shrink \/ cache.status = "Failed"
  /\ \A c \in Copies : CopyOK(c)

\* No copy pairs the ip of one node with the id of another.
PairsInv ==
  \A c \in Copies : \A j \in 1..Len(c.topo) : c.topo[j].id \in {0, c.topo[j].ip}

\* What a first edit keeps, all together.
EditedInv == EditInv /\ FailedInv /\ PodsInv /\ NodesInv /\ ShrinkInv /\ PairsInv

\* The inductive invariant of a first edit.
FirstInv == FirstEdit => EditedInv

-----------------------------------------------------------------------------
(* What a step can do *)

\* Only cleanStatefulSet and scaling up write the StatefulSet.
LEMMA StsStep ==
  ASSUME [Next]_vars
  PROVE  \/ UNCHANGED sts
         \/ cleanStatefulSet
         \/ ScaleUp /\ inst.replicas > sts.replicas
<1>1. CASE UNCHANGED sts
  BY <1>1
<1>2. CASE ScaleUp
  BY <1>2, Zenon DEF ScaleUp
<1>3. CASE \/ Reconcile \/ ClearShrink \/ ListPods \/ FixTopo \/ Ping \/ EndFailover
           \/ updateCluster \/ SetNodeID
  BY <1>1, <1>3, ZenonT(60)
     DEF Reconcile, ClearShrink, ListPods, FixTopo, Ping, EndFailover, updateCluster, SetNodeID,
         Abort, Panic, WorkerUpdate
<1>4. CASE \/ Publish \/ ensureShrink \/ cleanPersistentVolumeClaim \/ OperatorKilled
           \/ CacheSync \/ StatusSync \/ UNCHANGED vars
  BY <1>1, <1>4, ZenonT(60)
     DEF Publish, ensureShrink, cleanPersistentVolumeClaim, OperatorKilled, CacheSync, StatusSync,
         vars, Abort, Panic, WorkerUpdate
<1>5. CASE \/ \E n \in Sizes : EditReplicas(n)
           \/ \E o \in Ordinals : PodStep(o)
  BY <1>1, <1>5, Zenon DEF EditReplicas, PodStep, PodCreate, PodScaleDown, PodGone
<1>6. CASE \/ \E ip \in DOMAIN ctl : Odown(ip)
           \/ \E ip \in msgs : handleFailover(ip)
  BY <1>1, <1>6, Zenon DEF Odown, handleFailover
<1> QED
  BY <1>2, <1>3, <1>4, <1>5, <1>6, ZenonT(60) DEF Next, WorkerStep

\* Pods change by the StatefulSet controller, and by ensureFailover if a node of
\* the list does not serve; neither changes the StatefulSet or where the worker is.
LEMMA PodsChange ==
  ASSUME [Next]_vars
  PROVE  \/ UNCHANGED pods
         \/ \E o \in Ordinals : PodCreate(o)
         \/ \E o \in Ordinals : PodScaleDown(o)
         \/ \E o \in Ordinals : PodGone(o)
         \/ /\ pc = "ping" /\ pos <= Len(stsNodes) /\ ~Serving(stsNodes[pos].ip)
            /\ UNCHANGED <<sts, readyReplicas>>
<1>1. CASE UNCHANGED pods
  BY <1>1
<1>2. CASE Ping
  BY <1>1, <1>2, ZenonT(60) DEF Ping
<1>3. CASE \/ Reconcile \/ ClearShrink \/ ListPods \/ FixTopo \/ EndFailover
           \/ updateCluster \/ SetNodeID \/ ScaleUp \/ cleanStatefulSet
  BY <1>1, <1>3, ZenonT(60)
     DEF Reconcile, ClearShrink, ListPods, FixTopo, EndFailover, updateCluster, SetNodeID,
         ScaleUp, cleanStatefulSet, Abort, Panic, WorkerUpdate, podVars
<1>4. CASE \/ Publish \/ ensureShrink \/ cleanPersistentVolumeClaim \/ OperatorKilled
           \/ CacheSync \/ StatusSync \/ UNCHANGED vars
  BY <1>1, <1>4, ZenonT(60)
     DEF Publish, ensureShrink, cleanPersistentVolumeClaim, OperatorKilled, CacheSync, StatusSync,
         vars, Abort, Panic, WorkerUpdate, podVars
<1>5. CASE \/ \E n \in Sizes : EditReplicas(n)
           \/ \E ip \in DOMAIN ctl : Odown(ip)
  BY <1>1, <1>5, Zenon DEF EditReplicas, Odown, podVars
<1>6. CASE \E ip \in msgs : handleFailover(ip)
  BY <1>1, <1>6, ZenonT(60) DEF handleFailover, podVars
<1> QED
  BY <1>2, <1>3, <1>4, <1>5, <1>6, ZenonT(60) DEF Next, WorkerStep, PodStep

\* Only the StatefulSet controller writes the number of ready replicas.
LEMMA ReadyStep ==
  ASSUME [Next]_vars
  PROVE  UNCHANGED readyReplicas \/ StatusSync
<1>1. CASE UNCHANGED readyReplicas
  BY <1>1, Zenon
<1>2. CASE \/ Reconcile \/ ClearShrink \/ ListPods \/ FixTopo \/ EndFailover
           \/ updateCluster \/ SetNodeID \/ ScaleUp \/ cleanStatefulSet \/ Ping
  BY <1>1, <1>2, ZenonT(60)
     DEF Reconcile, ClearShrink, ListPods, FixTopo, EndFailover, updateCluster, SetNodeID,
         ScaleUp, cleanStatefulSet, Ping, Abort, Panic, WorkerUpdate, podVars
<1>3. CASE \/ Publish \/ ensureShrink \/ cleanPersistentVolumeClaim \/ OperatorKilled
           \/ CacheSync \/ UNCHANGED vars
  BY <1>1, <1>3, ZenonT(60)
     DEF Publish, ensureShrink, cleanPersistentVolumeClaim, OperatorKilled, CacheSync,
         vars, Abort, Panic, WorkerUpdate, podVars
<1>4. CASE \/ \E n \in Sizes : EditReplicas(n)
           \/ \E o \in Ordinals : PodStep(o)
  BY <1>1, <1>4, Zenon DEF EditReplicas, PodStep, PodCreate, PodScaleDown, PodGone, podVars
<1>5. CASE \/ \E ip \in DOMAIN ctl : Odown(ip)
           \/ \E ip \in msgs : handleFailover(ip)
  BY <1>1, <1>5, Zenon DEF Odown, handleFailover, podVars
<1> QED
  BY <1>2, <1>3, <1>4, <1>5, ZenonT(60) DEF Next, WorkerStep

\* The same nodes in the same places.
SameEntries(new, old) ==
  /\ Len(new) = Len(old)
  /\ \A j \in 1..Len(old) : new[j].ip = old[j].ip /\ new[j].id = old[j].id

\* What the worker writes: it clears Status.Shrink, publishes its list, or
\* publishes what remains of it with Status.Shrink.
WorkerWrote ==
  /\ Accepts(inst)
  /\ UNCHANGED <<cache, sts, pods, edits>>
  /\ kv'.replicas = inst.replicas /\ kv'.status = inst.status
  /\ \/ pc = "unshrink" /\ kv'.topo = inst.topo /\ kv'.shrink = NoShrink
     \/ /\ pc \in {"ping", "publish"} /\ kv'.topo = TopoOf(stsNodes)
        /\ kv'.shrink = inst.shrink
     \/ /\ pc = "shrink" /\ Len(stsNodes) > inst.replicas
        /\ pc' = "idle"
        /\ kv'.topo = TopoOf(Remaining(stsNodes, Len(stsNodes) - inst.replicas))
        /\ kv'.shrink = [on |-> TRUE,
                         reserve |-> Reserve(stsNodes, Len(stsNodes) - inst.replicas)]

\* That is all it writes.
LEMMA WorkerWrites ==
  ASSUME TypeInv, ClearShrink \/ EndFailover \/ Publish \/ ensureShrink
  PROVE  \/ UNCHANGED kv /\ (pc \in {"unshrink", "publish"} => EndReconcile)
         \/ WorkerWrote
<1>1. kv \in KVs /\ inst \in KVs /\ stsNodes \in Seq(Nodes)
  BY TypeFacts
<1>2. inst.version \in Nat /\ inst.version + 1 \in Nat /\ inst.version + 0 = inst.version
  BY <1>1, SMTT(60) DEF KVs
<1>3. NoShrink \in [on : BOOLEAN, reserve : Seq(Ordinals)]
  BY DEF NoShrink
<1>4. ASSUME NEW nodes \in Seq(Nodes), NEW ver \in Nat,
             NEW shrink \in [on : BOOLEAN, reserve : Seq(Ordinals)]
      PROVE  LET sent == WithTopo(inst, nodes, ver)
                 more == [sent EXCEPT !.shrink = shrink]
             IN /\ sent \in KVs /\ sent.rv = inst.rv /\ sent.replicas = inst.replicas
                /\ sent.status = inst.status /\ sent.topo = TopoOf(nodes)
                /\ sent.shrink = inst.shrink
                /\ more \in KVs /\ more.rv = inst.rv /\ more.replicas = inst.replicas
                /\ more.status = inst.status /\ more.topo = TopoOf(nodes)
                /\ more.shrink = shrink
  <2> DEFINE topo == TopoOf(nodes)
             sent == [inst EXCEPT !.topo = topo, !.version = ver]
             more == [sent EXCEPT !.shrink = shrink]
  <2>1. topo \in Seq(Entries)
    BY TopoOfFacts
  <2>2. WithTopo(inst, nodes, ver) = sent
    BY Zenon DEF WithTopo
  <2> HIDE DEF topo
  <2>3. sent \in KVs /\ more \in KVs
    BY <1>1, <2>1, SentFacts, Zenon
  <2>4. /\ sent.rv = inst.rv /\ sent.replicas = inst.replicas /\ sent.status = inst.status
        /\ sent.topo = topo /\ sent.shrink = inst.shrink
    BY <1>1, Zenon DEF KVs
  <2> HIDE DEF sent
  <2>5. /\ more.rv = sent.rv /\ more.replicas = sent.replicas /\ more.status = sent.status
        /\ more.topo = sent.topo /\ more.shrink = shrink
    BY <2>3, Zenon DEF KVs
  <2>6. [WithTopo(inst, nodes, ver) EXCEPT !.shrink = shrink] = more
    BY <2>2, Zenon
  <2> HIDE DEF more
  <2>7. WithTopo(inst, nodes, ver).topo = TopoOf(nodes)
    BY <2>2, <2>4, Zenon DEF topo
  <2> QED
    BY <2>2, <2>3, <2>4, <2>5, <2>6, <2>7, Zenon
<1>5. ASSUME NEW obj \in KVs, obj.rv = inst.rv, obj.replicas = inst.replicas,
             obj.status = inst.status, Accepts(obj), kv' = Stored(obj)
      PROVE  /\ Accepts(inst) /\ kv'.replicas = inst.replicas /\ kv'.status = inst.status
             /\ kv'.topo = obj.topo /\ kv'.shrink = obj.shrink
  <2>1. Accepts(inst)
    BY <1>5, Zenon DEF Accepts
  <2> QED
    BY <1>1, <1>5, <2>1, StoredFacts, Zenon
<1>6. ASSUME NEW obj, NEW label, WorkerUpdate(obj, label)
      PROVE  \/ UNCHANGED kv /\ EndReconcile
             \/ /\ Accepts(obj) /\ kv' = Stored(obj)
                /\ UNCHANGED <<cache, sts, pods, edits>>
  BY <1>6, Zenon DEF WorkerUpdate, podVars, countVars
<1>7. CASE ClearShrink
  <2> DEFINE obj == [inst EXCEPT !.shrink = NoShrink, !.version = @ + 1]
  <2>1. obj \in KVs
    BY <1>1, <1>2, <1>3, Zenon DEF KVs
  <2>2. /\ obj.rv = inst.rv /\ obj.replicas = inst.replicas /\ obj.status = inst.status
        /\ obj.topo = inst.topo /\ obj.shrink = NoShrink
    BY <1>1, Zenon DEF KVs
  <2>3. WorkerUpdate(obj, "scale") /\ pc = "unshrink"
    BY <1>7, Zenon DEF ClearShrink
  <2> HIDE DEF obj
  <2> QED
    BY <1>5, <1>6, <2>1, <2>2, <2>3, Zenon DEF WorkerWrote
<1>8. CASE Publish
  <2> DEFINE bump == inst.topo = <<>> \/ ChangedSince(inst.topo, stsNodes)
             ver == inst.version + (IF bump THEN 1 ELSE 0)
             obj == WithTopo(inst, stsNodes, ver)
  <2>1. ver \in Nat
    <3> HIDE DEF bump
    <3>1. ver = inst.version + 1 \/ ver = inst.version + 0
      BY Zenon
    <3> QED
      BY <1>2, <3>1, Zenon
  <2>2. WorkerUpdate(obj, "shrink") /\ pc = "publish"
    BY <1>8, Zenon DEF Publish
  <2> HIDE DEF ver
  <2>3. /\ obj \in KVs /\ obj.rv = inst.rv /\ obj.replicas = inst.replicas
        /\ obj.status = inst.status /\ obj.topo = TopoOf(stsNodes) /\ obj.shrink = inst.shrink
    BY <1>1, <1>3, <1>4, <2>1, Zenon
  <2> HIDE DEF obj
  <2> QED
    BY <1>5, <1>6, <2>2, <2>3, Zenon DEF WorkerWrote
<1>9. CASE EndFailover
  <2> DEFINE obj == WithTopo(inst, stsNodes, inst.version + 1)
  <2>1. /\ obj \in KVs /\ obj.rv = inst.rv /\ obj.replicas = inst.replicas
        /\ obj.status = inst.status /\ obj.topo = TopoOf(stsNodes) /\ obj.shrink = inst.shrink
    BY <1>1, <1>2, <1>3, <1>4, ZenonT(60)
  <2>2. \/ UNCHANGED kv
        \/ Accepts(inst) /\ kv' = Stored(obj) /\ UNCHANGED <<cache, sts, pods, edits>>
    BY <1>9, Zenon DEF EndFailover, Abort, countVars, podVars
  <2>3. pc = "ping"
    BY <1>9, Zenon DEF EndFailover
  <2> HIDE DEF obj
  <2> QED
    BY <1>5, <2>1, <2>2, <2>3, Zenon DEF WorkerWrote, Accepts
<1>10. CASE ensureShrink
  <2> DEFINE delta == Len(stsNodes) - inst.replicas
             shrink == [on |-> TRUE, reserve |-> Reserve(stsNodes, delta)]
             rest == Remaining(stsNodes, delta)
             obj == [WithTopo(inst, rest, inst.version) EXCEPT !.shrink = shrink]
  <2>1. shrink \in [on : BOOLEAN, reserve : Seq(Ordinals)]
    <3>1. \A j \in 1..Len(stsNodes) : stsNodes[j] \in Nodes
      BY <1>1
    <3>2. \A j \in 1..Len(stsNodes) : stsNodes[j].idx \in Ordinals
      BY <3>1, Zenon DEF Nodes
    <3> HIDE DEF delta
    <3>3. Reserve(stsNodes, delta) \in Seq(Ordinals)
      BY <3>2, OrdinalsFacts, ReserveType, Zenon
    <3> QED
      BY <3>3, Zenon
  <2>2. rest \in Seq(Nodes)
    BY <1>1, RemainingFacts, Zenon
  <2>3. \/ UNCHANGED kv
        \/ /\ Accepts(obj) /\ kv' = Stored(obj) /\ pc' = "idle"
           /\ Len(stsNodes) > inst.replicas /\ UNCHANGED <<cache, sts, pods, edits>>
    BY <1>10, Zenon DEF ensureShrink, Panic, countVars, podVars, EndReconcile
  <2>4. pc = "shrink"
    BY <1>10, Zenon DEF ensureShrink
  <2> HIDE DEF shrink, rest
  <2>5. /\ obj \in KVs /\ obj.rv = inst.rv /\ obj.replicas = inst.replicas
        /\ obj.status = inst.status /\ obj.topo = TopoOf(rest) /\ obj.shrink = shrink
    <3>1. inst.version \in Nat
      BY <1>2
    <3> QED
      BY <1>4, <2>1, <2>2, <3>1, ZenonT(180)
  <2> HIDE DEF obj
  <2>6. \/ UNCHANGED kv
        \/ /\ Accepts(inst) /\ kv'.replicas = inst.replicas /\ kv'.status = inst.status
           /\ kv'.topo = TopoOf(rest) /\ kv'.shrink = shrink /\ pc' = "idle"
           /\ Len(stsNodes) > inst.replicas /\ UNCHANGED <<cache, sts, pods, edits>>
    BY <1>5, <2>3, <2>5, Zenon
  <2> QED
    BY <2>4, <2>6, Zenon DEF WorkerWrote, rest, shrink
<1> QED
  BY <1>7, <1>8, <1>9, <1>10, Zenon

\* The writes of the user, of the failover handler and of the worker.
UserWrote ==
  /\ UNCHANGED <<cache, inst, sts, pods, readyReplicas, pc, stsNodes, ctl, msgs>>
  /\ edits' = edits + 1
  /\ kv'.topo = kv.topo /\ kv'.shrink = kv.shrink /\ kv'.status = kv.status

\* The failover handler marks an entry, or fails the instance.
FailoverWrote ==
  /\ UNCHANGED <<cache, inst, sts, pods, readyReplicas, pc, stsNodes, edits>>
  /\ kv'.replicas = kv.replicas
  /\ \/ kv'.status = "Failed" /\ kv'.topo = <<>> /\ kv'.shrink = NoShrink
     \/ /\ kv'.status = kv.status /\ kv'.shrink = kv.shrink
        /\ SameEntries(kv'.topo, kv.topo)

\* Nothing else writes the object.
LEMMA KvStep ==
  ASSUME TypeInv, [Next]_vars
  PROVE  \/ UNCHANGED <<kv, edits>>
         \/ UserWrote
         \/ FailoverWrote
         \/ WorkerWrote
<1>1. kv \in KVs
  BY TypeFacts
<1>2. ASSUME NEW n \in Sizes, EditReplicas(n) PROVE UserWrote
  <2> DEFINE obj == [kv EXCEPT !.replicas = n]
  <2>1. /\ obj \in KVs /\ obj.topo = kv.topo /\ obj.shrink = kv.shrink
        /\ obj.status = kv.status
    BY <1>1, Zenon DEF KVs
  <2>2. /\ kv' = Stored(obj) /\ edits' = edits + 1
        /\ UNCHANGED <<cache, inst, sts, pods, readyReplicas, pc, stsNodes, ctl, msgs>>
    BY <1>2, Zenon DEF EditReplicas, podVars, workerVars
  <2> HIDE DEF obj
  <2> QED
    BY <1>1, <2>1, <2>2, StoredFacts, Zenon DEF UserWrote
<1>3. ASSUME NEW ip \in msgs, handleFailover(ip)
      PROVE  UNCHANGED <<kv, edits>> \/ FailoverWrote
  <2>1. UNCHANGED <<cache, inst, sts, pods, readyReplicas, pc, stsNodes, edits>>
    BY <1>3, Zenon DEF handleFailover, podVars, workerVars, countVars
  <2>2. CASE UNCHANGED <<kv, ctl>>
    BY <2>1, <2>2, Zenon
  <2>3. ASSUME NEW obj \in KVs, kv' = Stored(obj), obj.replicas = kv.replicas,
               obj.status = "Failed", obj.topo = <<>>, obj.shrink = NoShrink
        PROVE  FailoverWrote
    BY <1>1, <2>1, <2>3, StoredFacts, Zenon DEF FailoverWrote
  <2>4. ASSUME NEW obj \in KVs, kv' = Stored(obj), obj.replicas = kv.replicas,
               obj.status = kv.status, obj.shrink = kv.shrink,
               Len(obj.topo) = Len(kv.topo),
               \A j \in 1..Len(kv.topo) :
                  obj.topo[j].ip = kv.topo[j].ip /\ obj.topo[j].id = kv.topo[j].id
        PROVE  FailoverWrote
    <3>1. SameEntries(obj.topo, kv.topo)
      BY <2>4, Zenon DEF SameEntries
    <3>2. /\ kv'.replicas = obj.replicas /\ kv'.status = obj.status
          /\ kv'.shrink = obj.shrink /\ kv'.topo = obj.topo
      BY <1>1, <2>4, StoredFacts, Zenon
    <3> QED
      BY <2>1, <2>4, <3>1, <3>2, Zenon DEF FailoverWrote
  <2> QED
    BY <1>3, <2>2, <2>3, <2>4, FailoverFacts, Zenon
<1>4. CASE UNCHANGED <<kv, edits>>
  BY <1>4
<1>5. CASE ClearShrink \/ EndFailover \/ Publish \/ ensureShrink
  <2>1. UNCHANGED edits
    BY <1>5, ZenonT(60) DEF ClearShrink, EndFailover, Publish, ensureShrink, WorkerUpdate, Abort, Panic,
       countVars
  <2> QED
    BY <1>5, <2>1, WorkerWrites, Zenon
<1>6. CASE \/ Reconcile \/ cleanStatefulSet \/ ScaleUp \/ ListPods \/ FixTopo \/ Ping
           \/ updateCluster \/ SetNodeID \/ cleanPersistentVolumeClaim
  BY <1>4, <1>6, ZenonT(60)
     DEF Reconcile, cleanStatefulSet, ScaleUp, ListPods, FixTopo, Ping, updateCluster, SetNodeID,
         cleanPersistentVolumeClaim, Abort, Panic, countVars
<1>7. CASE \/ CacheSync \/ StatusSync \/ OperatorKilled \/ UNCHANGED vars
           \/ \E o \in Ordinals : PodStep(o)
  BY <1>4, <1>7, ZenonT(60)
     DEF CacheSync, PodStep, PodCreate, PodScaleDown, PodGone, StatusSync, OperatorKilled, vars,
         countVars
<1>8. CASE \E ip \in DOMAIN ctl : Odown(ip)
  BY <1>4, <1>8, Zenon DEF Odown
<1> QED
  BY <1>2, <1>3, <1>5, <1>6, <1>7, <1>8, ZenonT(60) DEF Next, WorkerStep

\* Where the worker goes, and what it then takes for the instance.
WorkerGoes ==
  \/ UNCHANGED <<pc, inst>>
  \/ pc' = "idle" /\ inst' = cache /\ UNCHANGED cache
  \/ Reconcile
  \/ cleanStatefulSet
  \/ pc = "unshrink" /\ pc' = "scale" /\ inst' = kv' /\ WorkerWrote
  \/ ScaleUp /\ pc = "scale" /\ pc' = "list" /\ readyReplicas = sts'.replicas /\ UNCHANGED inst
  \/ pc = "list" /\ pc' = "topo" /\ UpPods = DOMAIN pods /\ UNCHANGED <<inst, pods, sts>>
  \/ pc \in Listed /\ pc' \in Listed /\ UNCHANGED <<inst, pods, sts>>
  \/ pc = "publish" /\ pc' = "shrink" /\ inst' = kv' /\ WorkerWrote

\* These are all its ways.
LEMMA ControlFlow ==
  ASSUME TypeInv, [Next]_vars
  PROVE  WorkerGoes
<1>1. CASE UNCHANGED <<pc, inst>>
  BY <1>1, Zenon DEF WorkerGoes
<1>2. CASE EndReconcile /\ UNCHANGED cache
  BY <1>2, Zenon DEF WorkerGoes, EndReconcile
<1>3. CASE Reconcile \/ cleanStatefulSet
  BY <1>3, Zenon DEF WorkerGoes
<1>4. CASE ClearShrink
  <2>1. pc = "unshrink"
    BY <1>4, Zenon DEF ClearShrink
  <2>2. \/ inst' = kv' /\ pc' = "scale" /\ WorkerWrote
        \/ EndReconcile /\ UNCHANGED cache
    <3>1. \/ inst' = kv' /\ pc' = "scale"
          \/ EndReconcile /\ UNCHANGED cache
      BY <1>4, Zenon DEF ClearShrink, WorkerUpdate
    <3>2. WorkerWrote \/ pc' = "idle"
      BY <1>4, <2>1, WorkerWrites, Zenon DEF EndReconcile
    <3> QED
      BY <3>1, <3>2, Zenon
  <2> QED
    BY <1>2, <2>1, <2>2, Zenon DEF WorkerGoes
<1>5. CASE ScaleUp
  <2>1. \/ ScaleUp /\ pc = "scale" /\ pc' = "list" /\ readyReplicas = sts'.replicas /\ UNCHANGED inst
        \/ EndReconcile /\ UNCHANGED cache
    BY <1>5, Zenon DEF ScaleUp, Goto
  <2> QED
    BY <1>2, <2>1, Zenon DEF WorkerGoes
<1>6. CASE ListPods
  <2>1. \/ pc = "list" /\ pc' = "topo" /\ UpPods = DOMAIN pods /\ UNCHANGED <<inst, pods, sts>>
        \/ EndReconcile /\ UNCHANGED cache
    BY <1>6, Zenon DEF ListPods, Abort, podVars
  <2> QED
    BY <1>2, <2>1, Zenon DEF WorkerGoes
<1>7. CASE FixTopo \/ EndFailover \/ updateCluster \/ SetNodeID
  <2>1. \/ pc \in Listed /\ pc' \in Listed /\ UNCHANGED <<inst, pods, sts>>
        \/ EndReconcile /\ UNCHANGED cache
    BY <1>7, ZenonT(60) DEF FixTopo, EndFailover, updateCluster, SetNodeID, Abort, Panic, podVars, Goto,
       Listed
  <2> QED
    BY <1>2, <2>1, Zenon DEF WorkerGoes
<1>8. CASE Ping
  <2>1. \/ UNCHANGED <<pc, inst>>
        \/ EndReconcile /\ UNCHANGED cache
    BY <1>8, ZenonT(60) DEF Ping
  <2> QED
    BY <1>1, <1>2, <2>1, Zenon
<1>9. CASE Publish
  <2>1. pc = "publish"
    BY <1>9, Zenon DEF Publish
  <2>2. \/ inst' = kv' /\ pc' = "shrink" /\ WorkerWrote
        \/ EndReconcile /\ UNCHANGED cache
    <3>1. \/ inst' = kv' /\ pc' = "shrink"
          \/ EndReconcile /\ UNCHANGED cache
      BY <1>9, Zenon DEF Publish, WorkerUpdate
    <3>2. WorkerWrote \/ pc' = "idle"
      BY <1>9, <2>1, WorkerWrites, Zenon DEF EndReconcile
    <3> QED
      BY <3>1, <3>2, Zenon
  <2> QED
    BY <1>2, <2>1, <2>2, Zenon DEF WorkerGoes
<1>10. CASE ensureShrink \/ cleanPersistentVolumeClaim \/ OperatorKilled
  <2>1. \/ pc \in Listed /\ pc' \in Listed /\ UNCHANGED <<inst, pods, sts>>
        \/ EndReconcile /\ UNCHANGED cache
    BY <1>10, ZenonT(60) DEF ensureShrink, cleanPersistentVolumeClaim, OperatorKilled, Panic, podVars,
       Goto, Listed
  <2> QED
    BY <1>2, <2>1, Zenon DEF WorkerGoes
<1>11. CASE \/ \E n \in Sizes : EditReplicas(n)
            \/ \E o \in Ordinals : PodStep(o)
  BY <1>1, <1>11, Zenon DEF EditReplicas, PodStep, PodCreate, PodScaleDown, PodGone, workerVars
<1>12. CASE \/ \E ip \in DOMAIN ctl : Odown(ip)
            \/ \E ip \in msgs : handleFailover(ip)
  BY <1>1, <1>12, Zenon DEF Odown, handleFailover, workerVars
<1>13. CASE CacheSync \/ StatusSync \/ UNCHANGED vars
  BY <1>1, <1>13, Zenon DEF CacheSync, StatusSync, vars, workerVars
<1> QED
  BY <1>3, <1>4, <1>5, <1>6, <1>7, <1>8, <1>9, <1>10, <1>11, <1>12, <1>13, ZenonT(60)
     DEF Next, WorkerStep

-----------------------------------------------------------------------------
(* Ips and roles *)

\* updateCluster adds no second master, keeps the master of a node that has a pod,
\* and knows every node unless one is refused.
LEMMA ExtendedRoles ==
  ASSUME NEW roles, NEW nodes, Len(nodes) \in Nat, \A a, b \in MastersIn(roles) : a = b
  PROVE  LET kept == Kept(roles, nodes)
             new == Extended(kept, nodes)
         IN /\ \A a, b \in MastersIn(new) : a = b
            /\ MastersIn(roles) \cap IPsOf(nodes) # {} => MastersIn(new) = MastersIn(roles)
            /\ Refused(kept, nodes) = {} => DOMAIN new = IPsOf(nodes)
<1> DEFINE kept == Kept(roles, nodes)
           acc == Accepted(kept, nodes)
           new == Extended(kept, nodes)
           ref == Refused(kept, nodes)
           claims == {j \in Missing(kept, nodes) : nodes[j].role = "master"}
           isMaster(ip) == \E j \in acc : nodes[j].ip = ip /\ nodes[j].role = "master"
<1>1. DOMAIN kept = DOMAIN roles \cap IPsOf(nodes) /\ \A ip \in DOMAIN kept : kept[ip] = roles[ip]
  BY Zenon DEF Kept
<1>2. /\ DOMAIN new = DOMAIN kept \cup {nodes[j].ip : j \in acc}
      /\ \A ip \in DOMAIN new : new[ip] = IF ip \in DOMAIN kept THEN kept[ip]
                                          ELSE IF isMaster(ip) THEN "master" ELSE "slave"
  BY Zenon DEF Extended
<1>3. /\ Missing(kept, nodes) = {j \in 1..Len(nodes) : nodes[j].ip \notin DOMAIN kept}
      /\ ref = {j \in claims : MastersIn(kept) # {} \/ \E k \in claims : k < j}
      /\ acc = {j \in Missing(kept, nodes) : \A k \in ref : j < k}
  BY Zenon DEF Missing, Refused, Accepted
<1>4. MastersIn(kept) = MastersIn(roles) \cap IPsOf(nodes)
  BY <1>1, Zenon DEF MastersIn
<1> HIDE DEF kept, new, ref, acc
<1>5. \A ip \in MastersIn(new) : ip \in MastersIn(kept) \/ isMaster(ip)
  BY <1>2, Zenon DEF MastersIn
<1>6. MastersIn(kept) \subseteq MastersIn(new)
  BY <1>2 DEF MastersIn
<1>7. \A j \in 1..Len(nodes) : ~(j < j)
  OBVIOUS
<1>8. \A j \in acc : j \in 1..Len(nodes) /\ j \notin ref
  BY <1>3, <1>7, Zenon
<1>9. ASSUME MastersIn(kept) # {} PROVE \A j \in acc : nodes[j].role # "master"
  BY <1>3, <1>8, <1>9, Zenon
<1>10. ASSUME NEW j \in acc, NEW k \in acc, nodes[j].role = "master", nodes[k].role = "master"
       PROVE  j = k
  <2>1. j \in claims /\ k \in claims /\ j \notin ref /\ k \notin ref
    BY <1>3, <1>8, <1>10, Zenon
  <2>2. ~(j < k) /\ ~(k < j)
    BY <1>3, <2>1, Zenon
  <2>3. j \in 1..Len(nodes) /\ k \in 1..Len(nodes)
    BY <1>8
  <2> QED
    BY <2>2, <2>3, SMTT(60)
<1>11. \A a, b \in MastersIn(new) : a = b
  <2>1. CASE MastersIn(kept) # {}
    <3>1. MastersIn(new) \subseteq MastersIn(roles)
      BY <1>4, <1>5, <1>9, <2>1, Zenon
    <3> QED
      BY <3>1, Zenon
  <2>2. CASE MastersIn(kept) = {}
    BY <1>5, <1>10, <2>2, Zenon
  <2> QED
    BY <2>1, <2>2, Zenon
<1>12. MastersIn(roles) \cap IPsOf(nodes) # {} => MastersIn(new) = MastersIn(roles)
  <2> SUFFICES ASSUME MastersIn(roles) \cap IPsOf(nodes) # {} PROVE MastersIn(new) = MastersIn(roles)
    OBVIOUS
  <2>1. MastersIn(kept) # {} /\ MastersIn(kept) = MastersIn(roles)
    BY <1>4, Zenon
  <2>2. MastersIn(new) \subseteq MastersIn(kept)
    BY <1>5, <1>9, <2>1, Zenon
  <2> QED
    BY <1>6, <2>1, <2>2, Zenon
<1>13. ref = {} => DOMAIN new = IPsOf(nodes)
  <2> SUFFICES ASSUME ref = {} PROVE DOMAIN new = IPsOf(nodes)
    OBVIOUS
  <2>1. acc = {j \in 1..Len(nodes) : nodes[j].ip \notin DOMAIN kept}
    BY <1>3, Zenon
  <2>2. DOMAIN kept \subseteq IPsOf(nodes)
    BY <1>1, Zenon
  <2> QED
    BY <1>2, <2>1, <2>2, Zenon DEF IPsOf
<1> QED
  BY <1>11, <1>12, <1>13, Zenon DEF new, kept, ref

\* A failover leaves the nodes and one master.
LEMMA PromotedRoles ==
  ASSUME NEW roles, NEW new
  PROVE  /\ DOMAIN Promoted(roles, new) = DOMAIN roles
         /\ \A a, b \in MastersIn(Promoted(roles, new)) : a = b
<1>1. /\ DOMAIN Promoted(roles, new) = DOMAIN roles
      /\ \A ip \in DOMAIN roles : Promoted(roles, new)[ip] = IF ip = new THEN "master" ELSE "slave"
  BY Zenon DEF Promoted
<1>2. \A ip \in MastersIn(Promoted(roles, new)) : ip = new
  BY <1>1 DEF MastersIn
<1> QED
  BY <1>1, <1>2, Zenon

\* Failovers and updateCluster change the roles.
LEMMA CtlStep ==
  ASSUME TypeInv, [Next]_vars
  PROVE  \/ UNCHANGED ctl
         \/ /\ \E new : ctl' = Promoted(ctl, new)
            /\ \E ip \in msgs : handleFailover(ip)
         \/ /\ updateCluster
            /\ ctl' = Extended(Kept(ctl, Replicated(stsNodes)), Replicated(stsNodes))
            /\ \/ pc' = "idle"
               \/ /\ pc' = "setid" /\ stsNodes' = Replicated(stsNodes)
                  /\ Refused(Kept(ctl, Replicated(stsNodes)), Replicated(stsNodes)) = {}
<1>1. CASE UNCHANGED ctl
  BY <1>1
<1>2. CASE \E ip \in msgs : handleFailover(ip)
  BY <1>2, Zenon DEF handleFailover
<1>3. CASE updateCluster
  BY <1>3, Zenon DEF updateCluster, Abort, EndReconcile
<1>4. CASE \/ Reconcile \/ ClearShrink \/ ListPods \/ FixTopo \/ EndFailover
           \/ SetNodeID \/ ScaleUp \/ cleanStatefulSet \/ Ping
  BY <1>1, <1>4, ZenonT(60)
     DEF Reconcile, ClearShrink, ListPods, FixTopo, EndFailover, SetNodeID,
         ScaleUp, cleanStatefulSet, Ping, Abort, Panic, WorkerUpdate
<1>5. CASE \/ Publish \/ ensureShrink \/ cleanPersistentVolumeClaim \/ OperatorKilled
           \/ CacheSync \/ StatusSync \/ UNCHANGED vars
  BY <1>1, <1>5, ZenonT(60)
     DEF Publish, ensureShrink, cleanPersistentVolumeClaim, OperatorKilled, CacheSync, StatusSync,
         vars, Abort, Panic, WorkerUpdate
<1>6. CASE \/ \E n \in Sizes : EditReplicas(n)
           \/ \E o \in Ordinals : PodStep(o)
  BY <1>1, <1>6, Zenon DEF EditReplicas, PodStep, PodCreate, PodScaleDown, PodGone
<1>7. CASE \E ip \in DOMAIN ctl : Odown(ip)
  BY <1>1, <1>7, Zenon DEF Odown
<1> QED
  BY <1>2, <1>3, <1>4, <1>5, <1>6, <1>7, ZenonT(60) DEF Next, WorkerStep

\* How the worker comes to publish: its list changes on the way only in
\* updateCluster and ensureSetNodeID.
LEMMA PublishFlow ==
  ASSUME [Next]_vars, pc' \in {"setid", "publish", "shrink"}
  PROVE  \/ UNCHANGED <<pc, stsNodes>> /\ ~updateCluster
         \/ updateCluster /\ pc' = "setid"
         \/ /\ SetNodeID /\ pc' = "publish" /\ stsNodes' = Identified(stsNodes, ctl)
            /\ MastersIn(ctl) # {} /\ UNCHANGED ctl
         \/ pc = "publish" /\ pc' = "shrink" /\ UNCHANGED stsNodes
<1>1. ~EndReconcile
  BY Zenon DEF EndReconcile
<1>2. CASE updateCluster
  BY <1>1, <1>2, Zenon DEF updateCluster, Abort
<1>3. CASE ~updateCluster /\ UNCHANGED <<pc, stsNodes>>
  BY <1>3, Zenon
<1>4. CASE SetNodeID
  BY <1>1, <1>4, Zenon DEF SetNodeID, Abort
<1>5. CASE Publish
  BY <1>1, <1>5, Zenon DEF Publish, WorkerUpdate
<1>6. CASE \/ Reconcile \/ ClearShrink \/ ListPods \/ FixTopo \/ EndFailover
           \/ ScaleUp \/ cleanStatefulSet \/ Ping
  <2>1. pc' \notin {"setid", "publish", "shrink"}
    BY <1>1, <1>6, ZenonT(60)
       DEF Reconcile, ClearShrink, ListPods, FixTopo, EndFailover, ScaleUp, cleanStatefulSet, Ping,
           Abort, Panic, WorkerUpdate, Goto
  <2> QED
    BY <2>1
<1>7. CASE ensureShrink \/ cleanPersistentVolumeClaim \/ OperatorKilled
  <2>1. pc' \notin {"setid", "publish", "shrink"}
    BY <1>1, <1>7, ZenonT(60)
       DEF ensureShrink, cleanPersistentVolumeClaim, OperatorKilled, Panic, Goto
  <2> QED
    BY <2>1
<1>8. CASE \/ CacheSync \/ StatusSync \/ UNCHANGED vars
           \/ \E o \in Ordinals : PodStep(o)
  BY <1>2, <1>3, <1>8, ZenonT(60)
     DEF CacheSync, StatusSync, PodStep, PodCreate, PodScaleDown, PodGone, workerVars, vars
<1>9. CASE \/ \E n \in Sizes : EditReplicas(n)
           \/ \E ip \in DOMAIN ctl : Odown(ip)
           \/ \E ip \in msgs : handleFailover(ip)
  BY <1>2, <1>3, <1>9, Zenon DEF EditReplicas, Odown, handleFailover, workerVars
<1> QED
  BY <1>2, <1>4, <1>5, <1>6, <1>7, <1>8, <1>9, ZenonT(60) DEF Next, WorkerStep

\* In the beginning pod o has ip o + 1, and one of these is the master.
LEMMA RolesInit == Init => RolesInv
<1> SUFFICES ASSUME Init PROVE RolesInv
  OBVIOUS
<1>1. InitialSize \in Nat
  BY SizesFacts, Zenon
<1>2. \A o, p \in DOMAIN pods : pods[o].ip = pods[p].ip => o = p
  <2>1. DOMAIN pods = 0..(InitialSize - 1) /\ \A o \in DOMAIN pods : pods[o].ip = o + 1
    BY Zenon DEF Init
  <2>2. \A o, p \in 0..(InitialSize - 1) : o + 1 = p + 1 => o = p
    BY <1>1, SMTT(60)
  <2> QED
    BY <2>1, <2>2, Zenon
<1>3. 1..Len(stsNodes) = {} /\ pc = "idle"
  BY DEF Init
<1>4. \A a, b \in MastersIn(ctl) : a = b
  <2>1. PICK m \in 0..(InitialSize - 1) :
          ctl = [ip \in 1..InitialSize |-> IF ip = m + 1 THEN "master" ELSE "slave"]
    BY Zenon DEF Init
  <2>2. \A ip \in MastersIn(ctl) : ip = m + 1
    BY <2>1 DEF MastersIn
  <2> QED
    BY <2>2, Zenon
<1> QED
  BY <1>2, <1>3, <1>4, Zenon DEF RolesInv

\* A new pod has a new ip, kvrocks-controller refuses a second master, and
\* ensureSetNodeID takes the roles from it.
LEMMA RolesStep == TypeInv /\ RolesInv /\ [Next]_vars => RolesInv'
<1> SUFFICES ASSUME TypeInv, RolesInv, [Next]_vars PROVE RolesInv'
  OBVIOUS
<1>1. /\ stsNodes \in Seq(Nodes) /\ stsNodes' \in Seq(Nodes) /\ nextIP \in Nat
      /\ DOMAIN ctl \subseteq IPs /\ \A ip \in DOMAIN ctl : ctl[ip] \in {"master", "slave"}
      /\ \A o \in DOMAIN pods : pods[o].ip \in IPs
  BY TypeFacts, TypeParts, ListKept, Zenon DEF ShardOK
<1>2. Len(stsNodes) \in Nat /\ Len(stsNodes') \in Nat
  BY <1>1
<1>3. \A o, p \in DOMAIN pods' : pods'[o].ip = pods'[p].ip => o = p
  <2>1. nextIP \notin IPs
    BY <1>1 DEF IPs
  <2>2. \A o, p : PodCreate(o) /\ PodCreate(p) => o = p
    <3> SUFFICES ASSUME NEW o, NEW p, PodCreate(o), PodCreate(p), o # p PROVE FALSE
      OBVIOUS
    <3>1. DOMAIN pods' = DOMAIN pods \cup {o} /\ DOMAIN pods' = DOMAIN pods \cup {p}
      BY Zenon DEF PodCreate
    <3>2. o \notin DOMAIN pods
      BY Zenon DEF PodCreate
    <3> QED
      BY <3>1, <3>2, Zenon
  <2>3. \A o \in DOMAIN pods' : \/ o \in DOMAIN pods /\ pods'[o].ip = pods[o].ip
                                \/ PodCreate(o) /\ pods'[o].ip = nextIP
    BY IPsStep, Zenon
  <2>4. \A o, p \in DOMAIN pods : pods[o].ip = pods[p].ip => o = p
    BY Zenon DEF RolesInv
  <2> SUFFICES ASSUME NEW o \in DOMAIN pods', NEW p \in DOMAIN pods', pods'[o].ip = pods'[p].ip
               PROVE  o = p
    OBVIOUS
  <2>5. \/ o \in DOMAIN pods /\ pods'[o].ip = pods[o].ip
        \/ PodCreate(o) /\ pods'[o].ip = nextIP
    BY <2>3, Zenon
  <2>6. \/ p \in DOMAIN pods /\ pods'[p].ip = pods[p].ip
        \/ PodCreate(p) /\ pods'[p].ip = nextIP
    BY <2>3
  <2> QED
    BY <1>1, <2>1, <2>2, <2>4, <2>5, <2>6, Zenon
<1>4. \A j, k \in 1..Len(stsNodes') : stsNodes'[j].ip = stsNodes'[k].ip => j = k
  <2>1. CASE stsNodes' = <<>>
    <3>1. 1..Len(<<>>) = {}
      OBVIOUS
    <3> QED
      BY <2>1, <3>1, Zenon
  <2>2. CASE SamePods(stsNodes', stsNodes)
    BY <2>2, Zenon DEF SamePods, RolesInv
  <2>3. ASSUME Len(stsNodes') = Len(Ascending(DOMAIN pods)),
               \A j \in 1..Len(stsNodes') :
                 /\ Ascending(DOMAIN pods)[j] \in DOMAIN pods
                 /\ stsNodes'[j] = NewNode(pods[Ascending(DOMAIN pods)[j]].ip,
                                           Ascending(DOMAIN pods)[j])
        PROVE  \A j, k \in 1..Len(stsNodes') : stsNodes'[j].ip = stsNodes'[k].ip => j = k
    <3> DEFINE asc == Ascending(DOMAIN pods)
               n == Len(stsNodes')
    <3>1. \A j, k \in 1..n : j < k => asc[j] < asc[k]
      BY <2>3, PodsFinite, AscendingFacts, Zenon
    <3>2. \A j \in 1..n : asc[j] \in Nat /\ asc[j] \in DOMAIN pods
      BY <2>3, PodsFinite, Zenon
    <3>3. \A j \in 1..n : stsNodes'[j].ip = pods[asc[j]].ip
      <4>1. \A ip, idx : NewNode(ip, idx).ip = ip
        BY Zenon DEF NewNode
      <4> SUFFICES ASSUME NEW j \in 1..n PROVE stsNodes'[j].ip = pods[asc[j]].ip
        OBVIOUS
      <4>2. stsNodes'[j] = NewNode(pods[asc[j]].ip, asc[j])
        BY <2>3
      <4> QED
        BY <4>1, <4>2, Zenon
    <3> HIDE DEF asc, n
    <3>4. \A j, k \in 1..n : asc[j] = asc[k] => j = k
      <4> SUFFICES ASSUME NEW j \in 1..n, NEW k \in 1..n, asc[j] = asc[k] PROVE j = k
        OBVIOUS
      <4>1. ~(asc[j] < asc[k]) /\ ~(asc[k] < asc[j])
        BY <3>2
      <4>2. ~(j < k) /\ ~(k < j)
        BY <3>1, <4>1, Zenon
      <4> QED
        BY <1>2, <4>2, SMTT(60) DEF n
    <3>5. \A j, k \in 1..n : stsNodes'[j].ip = stsNodes'[k].ip => j = k
      <4>1. \A o, p \in DOMAIN pods : pods[o].ip = pods[p].ip => o = p
        BY Zenon DEF RolesInv
      <4> SUFFICES ASSUME NEW j \in 1..n, NEW k \in 1..n, stsNodes'[j].ip = stsNodes'[k].ip
                   PROVE  j = k
        OBVIOUS
      <4>2. pods[asc[j]].ip = pods[asc[k]].ip
        BY <3>3, Zenon
      <4> QED
        BY <3>2, <3>4, <4>1, <4>2, Zenon
    <3> QED
      BY <3>5, Zenon DEF n
  <2> QED
    BY <2>1, <2>2, <2>3, ListKept, Zenon
<1> DEFINE nodes == Replicated(stsNodes)
<1>5. SamePods(nodes, stsNodes) /\ nodes \in Seq(Nodes)
  BY <1>1, ReplicatedFacts, Zenon
<1>6. Len(nodes) \in Nat
  BY <1>2, <1>5, Zenon DEF SamePods
<1>7. \A a, b \in MastersIn(ctl) : a = b
  BY Zenon DEF RolesInv
<1> HIDE DEF nodes
<1>8. \A a, b \in MastersIn(ctl') : a = b
  <2>1. CASE UNCHANGED ctl
    BY <1>7, <2>1, Zenon
  <2>2. ASSUME NEW new, ctl' = Promoted(ctl, new) PROVE \A a, b \in MastersIn(ctl') : a = b
    BY <2>2, PromotedRoles, Zenon
  <2>3. CASE ctl' = Extended(Kept(ctl, nodes), nodes)
    BY <1>6, <1>7, <2>3, ExtendedRoles, Zenon
  <2> QED
    BY <2>1, <2>2, <2>3, CtlStep, Zenon DEF nodes
<1>9. pc' = "setid" => DOMAIN ctl' = IPsOf(stsNodes')
  <2> SUFFICES ASSUME pc' = "setid" PROVE DOMAIN ctl' = IPsOf(stsNodes')
    OBVIOUS
  <2>1. CASE updateCluster
    <3>1. /\ ctl' = Extended(Kept(ctl, nodes), nodes) /\ stsNodes' = nodes
          /\ Refused(Kept(ctl, nodes), nodes) = {}
      BY <2>1, Zenon DEF updateCluster, Abort, EndReconcile, nodes
    <3> QED
      BY <1>6, <1>7, <3>1, ExtendedRoles, Zenon
  <2>2. CASE UNCHANGED <<pc, stsNodes>> /\ ~updateCluster
    <3>1. DOMAIN ctl' = DOMAIN ctl
      BY <2>2, CtlStep, PromotedRoles, Zenon
    <3>2. DOMAIN ctl = IPsOf(stsNodes)
      BY <2>2, Zenon DEF RolesInv
    <3> QED
      BY <2>2, <3>1, <3>2, Zenon
  <2> QED
    BY <2>1, <2>2, PublishFlow, Zenon
<1> DEFINE OneMaster(list) == \E m \in 1..Len(list) :
                                \A j \in 1..Len(list) : IsMaster(list[j]) <=> j = m
<1>10. pc' \in {"publish", "shrink"} => OneMaster(stsNodes')
  <2> SUFFICES ASSUME pc' \in {"publish", "shrink"} PROVE OneMaster(stsNodes')
    OBVIOUS
  <2>1. CASE pc \in {"publish", "shrink"} /\ UNCHANGED stsNodes
    <3>1. OneMaster(stsNodes)
      BY <2>1, Zenon DEF RolesInv
    <3> HIDE DEF OneMaster
    <3> QED
      BY <2>1, <3>1, Zenon
  <2>2. CASE SetNodeID /\ stsNodes' = Identified(stsNodes, ctl) /\ MastersIn(ctl) # {}
    <3>1. DOMAIN ctl = IPsOf(stsNodes)
      BY <2>2, Zenon DEF RolesInv, SetNodeID
    <3>2. DOMAIN ctl \subseteq Nat
      BY <1>1 DEF IPs
    <3>3. /\ SamePods(stsNodes', stsNodes)
          /\ \A j \in 1..Len(stsNodes) : stsNodes[j].ip \in DOMAIN ctl =>
                                           stsNodes'[j].role = ctl[stsNodes[j].ip]
      <4>1. /\ SamePods(Identified(stsNodes, ctl), stsNodes)
            /\ \A j \in 1..Len(stsNodes) : stsNodes[j].ip \in DOMAIN ctl =>
                 Identified(stsNodes, ctl)[j].role = ctl[stsNodes[j].ip]
        BY <1>1, <2>2, <3>2, IdentifiedFacts, SMTT(60)
      <4> QED
        BY <2>2, <4>1, Zenon
    <3>4. \A j \in 1..Len(stsNodes) : stsNodes[j].ip \in DOMAIN ctl
      BY <3>1, Zenon DEF IPsOf
    <3>5. PICK ip \in MastersIn(ctl) : TRUE
      BY <2>2, Zenon
    <3>6. PICK m \in 1..Len(stsNodes) : stsNodes[m].ip = ip
      BY <3>1, <3>5, Zenon DEF IPsOf, MastersIn
    <3>7. \A j \in 1..Len(stsNodes) : IsMaster(stsNodes'[j]) <=> stsNodes[j].ip = ip
      BY <1>7, <3>3, <3>4, <3>5, Zenon DEF MastersIn, IsMaster
    <3>8. \A j \in 1..Len(stsNodes) : IsMaster(stsNodes'[j]) <=> j = m
      BY <3>6, <3>7, Zenon DEF RolesInv
    <3>9. Len(stsNodes') = Len(stsNodes)
      BY <3>3, Zenon DEF SamePods
    <3>10. /\ m \in 1..Len(stsNodes')
           /\ \A j \in 1..Len(stsNodes') : IsMaster(stsNodes'[j]) <=> j = m
      BY <3>6, <3>8, <3>9, Zenon
    <3> QED
      BY <3>10, SMTT(60)
  <2>3. \/ pc \in {"publish", "shrink"} /\ UNCHANGED stsNodes
        \/ SetNodeID /\ stsNodes' = Identified(stsNodes, ctl) /\ MastersIn(ctl) # {}
    BY PublishFlow, Zenon
  <2> QED
    BY <2>1, <2>2, <2>3, Zenon
<1> QED
  BY <1>3, <1>4, <1>8, <1>9, <1>10, Zenon DEF RolesInv

-----------------------------------------------------------------------------
(* The edit *)

\* Sizes are numbers, and the StatefulSet wants as many pods as it has replicas.
LEMMA SizeFacts ==
  ASSUME TypeInv
  PROVE  /\ InitialSize \in Nat /\ InitialSize >= 1
         /\ sts.replicas \in Nat /\ sts.reserve \in Seq(Nat)
         /\ IsFiniteSet(Desired(sts)) /\ Desired(sts) \in SUBSET Nat
         /\ Cardinality(Desired(sts)) = sts.replicas
         /\ \A c \in Copies :
              /\ c \in KVs /\ c.replicas \in Nat /\ c.replicas >= 1
              /\ c.shrink.on \in BOOLEAN /\ c.shrink.reserve \in Seq(Nat)
              /\ c.topo \in Seq(Entries) /\ Len(c.topo) \in Nat
<1>1. /\ \A c \in Copies : c \in KVs
      /\ sts \in [replicas : Sizes, reserve : Seq(Ordinals)]
  BY TypeFacts, Zenon DEF Copies
<1>2. \A s \in Seq(Ordinals) : s \in Seq(Nat)
  BY OrdinalsFacts, SeqOfMore, Zenon
<1>3. InitialSize \in Nat /\ InitialSize >= 1 /\ sts.replicas \in Nat /\ sts.reserve \in Seq(Nat)
  BY <1>1, <1>2, SizesFacts, Zenon
<1>4. IsFiniteSet(Desired(sts)) /\ Cardinality(Desired(sts)) = sts.replicas
  BY <1>3, DesiredFacts, DesiredCount, Zenon
<1>5. Desired(sts) \in SUBSET Nat
  BY <1>3, DesiredFacts, Zenon
<1>6. ASSUME NEW c \in Copies
      PROVE  /\ c \in KVs /\ c.replicas \in Nat /\ c.replicas >= 1
             /\ c.shrink.on \in BOOLEAN /\ c.shrink.reserve \in Seq(Nat)
             /\ c.topo \in Seq(Entries) /\ Len(c.topo) \in Nat
  <2>1. /\ c \in KVs /\ c.replicas \in Sizes /\ c.topo \in Seq(Entries)
        /\ c.shrink \in [on : BOOLEAN, reserve : Seq(Ordinals)]
    BY <1>1, Zenon DEF KVs
  <2>2. c.shrink.on \in BOOLEAN /\ c.shrink.reserve \in Seq(Nat)
    BY <1>2, <2>1, Zenon
  <2>3. Len(c.topo) \in Nat
    BY <2>1, SMTT(60)
  <2> QED
    BY <2>1, <2>2, <2>3, SizesFacts, Zenon
<1> QED
  BY <1>3, <1>4, <1>5, <1>6, Zenon

\* A StatefulSet that has not shrunk has the first ordinals.
LEMMA Unshrunk ==
  ASSUME TypeInv, EditInv, sts.replicas >= InitialSize
  PROVE  sts.reserve = <<>> /\ Desired(sts) = 0..(sts.replicas - 1)
<1>1. sts.replicas \in Nat /\ sts.reserve = <<>>
  BY SizeFacts, Zenon DEF EditInv
<1> QED
  BY <1>1, DesiredFirst, Zenon

\* Scaling up starts from the initial size, and takes the size the user gave.
LEMMA Grows ==
  ASSUME TypeInv, EditInv, ScaleUp, inst.replicas > sts.replicas
  PROVE  /\ sts.replicas = InitialSize
         /\ sts'.replicas = inst.replicas /\ sts'.replicas > InitialSize /\ sts'.reserve = <<>>
         /\ kv.replicas = inst.replicas /\ cache.replicas = inst.replicas
         /\ UNCHANGED <<kv, cache, pods, readyReplicas, edits>>
<1>1. /\ InitialSize \in Nat /\ sts.replicas \in Nat /\ inst.replicas \in Nat
      /\ kv.replicas \in Nat /\ cache.replicas \in Nat
  BY SizeFacts, Zenon DEF Copies
<1>2. /\ sts'.replicas = inst.replicas
      /\ sts'.reserve = Unreserved(sts.reserve, inst.replicas - sts.replicas)
      /\ UNCHANGED <<kv, cache, pods, readyReplicas, edits>>
  BY Zenon DEF ScaleUp, podVars, countVars
<1>3. sts.replicas >= InitialSize
  BY <1>1, SMTT(60) DEF EditInv
<1>4. sts.replicas = InitialSize
  <2>1. sts.replicas # InitialSize => sts.replicas = cache.replicas
    BY Zenon DEF EditInv
  <2>2. inst.replicas = InitialSize \/ inst.replicas = cache.replicas
    BY Zenon DEF EditInv
  <2> QED
    BY <1>1, <1>3, <2>1, <2>2, SMTT(60)
<1>5. inst.replicas # InitialSize
  BY <1>1, <1>4, SMTT(60)
<1>6. inst.replicas = cache.replicas /\ cache.replicas = kv.replicas
  BY <1>5, Zenon DEF EditInv
<1>7. sts'.reserve = <<>>
  <2>1. sts.reserve = <<>>
    BY <1>3, Zenon DEF EditInv
  <2>2. inst.replicas - sts.replicas >= Len(<<>>)
    BY <1>1
  <2> QED
    BY <1>2, <2>1, <2>2, Zenon DEF Unreserved
<1>8. sts'.replicas > InitialSize
  BY <1>1, <1>2, <1>4, Zenon
<1> QED
  BY <1>2, <1>4, <1>6, <1>7, <1>8, Zenon

\* cleanStatefulSet makes the StatefulSet what Status.Shrink plans; when a worker
\* that did not get to clear Status.Shrink is followed by another, nothing changes.
LEMMA Cleans ==
  ASSUME TypeInv, EditInv, ShrinkInv, cleanStatefulSet
  PROVE  /\ inst.shrink.on /\ inst.replicas < InitialSize
         /\ sts'.replicas = inst.replicas
         /\ kv.replicas = inst.replicas /\ cache.replicas = inst.replicas
         /\ UNCHANGED <<kv, cache, inst, pods, readyReplicas, edits>>
         /\ \/ sts.replicas = InitialSize /\ sts' = Planned(inst)
            \/ /\ sts.replicas = inst.replicas
               /\ Desired(sts') = Desired(sts) /\ Range(sts'.reserve) = Range(sts.reserve)
<1>1. /\ InitialSize \in Nat /\ sts.replicas \in Nat /\ inst.replicas \in Nat
      /\ kv.replicas \in Nat /\ cache.replicas \in Nat /\ sts.reserve \in Seq(Nat)
      /\ inst.shrink.reserve \in Seq(Nat)
  BY SizeFacts, Zenon DEF Copies
<1>2. /\ pc = "clean"
      /\ sts' = [replicas |-> inst.replicas, reserve |-> sts.reserve \o inst.shrink.reserve]
      /\ UNCHANGED <<kv, cache, inst, pods, readyReplicas, edits>>
  BY Zenon DEF cleanStatefulSet, Goto, podVars, countVars
<1>3. inst.shrink.on /\ CopyOK(inst)
  BY <1>2, Zenon DEF ShrinkInv, Copies
<1>4. sts'.replicas = inst.replicas /\ sts'.reserve = sts.reserve \o inst.shrink.reserve
  BY <1>2, Zenon
<1>5. CASE sts.replicas >= InitialSize
  <2>1. inst.replicas = kv.replicas /\ inst.replicas < InitialSize
    BY <1>3, <1>5, Zenon DEF CopyOK
  <2>2. sts.replicas = InitialSize /\ sts.reserve = <<>>
    <3>1. sts.replicas # InitialSize => sts.replicas = kv.replicas
      BY Zenon DEF EditInv
    <3> QED
      BY <1>1, <1>5, <2>1, <3>1, SMTT(60) DEF EditInv
  <2>3. inst.replicas = cache.replicas
    <3>1. inst.replicas # InitialSize
      BY <1>1, <2>1, SMTT(60)
    <3> QED
      BY <3>1, Zenon DEF EditInv
  <2>4. sts' = Planned(inst)
    <3>1. <<>> \o inst.shrink.reserve = inst.shrink.reserve
      BY <1>1, SMTT(60)
    <3> QED
      BY <1>2, <2>2, <3>1, Zenon DEF Planned
  <2> QED
    BY <1>2, <1>3, <1>4, <2>1, <2>2, <2>3, <2>4, Zenon
<1>6. CASE ~(sts.replicas >= InitialSize)
  <2>1. sts.replicas < InitialSize /\ sts.replicas # InitialSize
    BY <1>1, <1>6, SMTT(60)
  <2>2. /\ inst.replicas = sts.replicas /\ kv.replicas = sts.replicas
        /\ cache.replicas = sts.replicas
    BY <2>1, Zenon DEF EditInv
  <2>3. Range(inst.shrink.reserve) = Range(sts.reserve)
    BY <1>3, <2>1, Zenon DEF CopyOK
  <2>4. sts'.reserve \in Seq(Nat) /\ Range(sts'.reserve) = Range(sts.reserve)
    <3> DEFINE both == sts.reserve \o inst.shrink.reserve
    <3>1. both \in Seq(Nat) /\ Range(both) = Range(sts.reserve) \cup Range(inst.shrink.reserve)
      BY <1>1, RangeOfConcat, Zenon
    <3> HIDE DEF both
    <3>2. Range(both) = Range(sts.reserve)
      BY <2>3, <3>1, Zenon
    <3> QED
      BY <1>4, <3>1, <3>2, ZenonT(60) DEF both
  <2>5. Desired(sts') = Desired(sts)
    <3> DEFINE new == sts'
    <3>1. new.replicas = sts.replicas /\ new.reserve \in Seq(Nat)
          /\ Range(new.reserve) = Range(sts.reserve)
      BY <1>4, <2>2, <2>4, Zenon
    <3> HIDE DEF new
    <3>2. Desired(new) = Desired(sts)
      BY <1>1, <3>1, DesiredSame, Zenon
    <3> QED
      BY <3>2 DEF new
  <2> QED
    BY <1>2, <1>3, <1>4, <2>1, <2>2, <2>4, <2>5, Zenon
<1> QED
  BY <1>5, <1>6, Zenon

\* How the copies change.
LEMMA CopiesStep ==
  ASSUME TypeInv, CopyInv, [Next]_vars
  PROVE  \/ cache' = kv /\ UNCHANGED <<kv, inst, pc, sts, pods, edits>>
         \/ UNCHANGED cache /\ inst' \in {inst, cache}
         \/ UNCHANGED cache /\ inst' = kv' /\ WorkerWrote /\ inst = kv
<1>1. CASE CacheSync
  BY <1>1, Zenon DEF CacheSync, workerVars, podVars, countVars
<1>2. CASE cache' = cache
  <2>1. inst' = inst \/ inst' = cache \/ (inst' = kv' /\ WorkerWrote)
    BY ControlFlow, Zenon DEF WorkerGoes, Reconcile, cleanStatefulSet, Goto
  <2>2. WorkerWrote => inst = kv
    BY AcceptedCopy, Zenon DEF WorkerWrote
  <2> QED
    BY <1>2, <2>1, <2>2, Zenon
<1> QED
  BY <1>1, <1>2, Reads, ZenonT(60)

\* Every step keeps EditInv.
LEMMA EditStep ==
  ASSUME TypeInv, CopyInv, EditInv, ShrinkInv, [Next]_vars, edits' <= 1
  PROVE  EditInv'
<1> DEFINE N0 == InitialSize
<1>1. /\ N0 \in Nat /\ sts.replicas \in Nat /\ inst.replicas \in Nat /\ edits \in Nat
      /\ kv.replicas \in Nat /\ cache.replicas \in Nat
  BY SizeFacts, TypeFacts, Zenon DEF Copies
<1>2. /\ edits = 0 => kv.replicas = N0
      /\ cache.replicas \in {N0, kv.replicas} /\ inst.replicas \in {N0, cache.replicas}
      /\ sts.replicas # N0 => sts.replicas = kv.replicas /\ sts.replicas = cache.replicas
      /\ sts.replicas < N0 => inst.replicas = sts.replicas
      /\ sts.replicas >= N0 => sts.reserve = <<>>
  BY Zenon DEF EditInv
<1> HIDE DEF N0
<1>3. CASE UserWrote
  <2>1. edits = 0 /\ edits' # 0
    BY <1>1, <1>3, SMTT(60) DEF UserWrote
  <2>2. sts.replicas = N0 /\ cache.replicas = N0 /\ inst.replicas = N0
    BY <1>2, <2>1, Zenon
  <2>3. UNCHANGED <<cache, inst, sts>>
    BY <1>3, Zenon DEF UserWrote
  <2>4. ~(N0 < N0) /\ N0 >= N0
    BY <1>1
  <2> QED
    BY <1>2, <2>1, <2>2, <2>3, <2>4, Zenon DEF EditInv, N0
<1>4. CASE kv'.replicas = kv.replicas /\ edits' = edits
  <2>1. \/ cache' = kv /\ inst' = inst
        \/ cache' = cache /\ inst'.replicas \in {inst.replicas, cache.replicas}
    BY CopiesStep, Zenon DEF WorkerWrote
  <2>2. /\ edits' = 0 => kv'.replicas = N0
        /\ cache'.replicas \in {N0, kv'.replicas} /\ inst'.replicas \in {N0, cache'.replicas}
    BY <1>2, <1>4, <2>1, Zenon
  <2>3. CASE UNCHANGED sts
    <3>1. /\ sts.replicas # N0 => sts.replicas = kv'.replicas /\ sts.replicas = cache'.replicas
          /\ sts.replicas < N0 => inst'.replicas = sts.replicas
      <4>1. sts.replicas < N0 => sts.replicas # N0
        BY <1>1
      <4> QED
        BY <1>2, <1>4, <2>1, <4>1, Zenon
    <3> QED
      BY <1>2, <2>2, <2>3, <3>1, Zenon DEF EditInv, N0
  <2>4. CASE cleanStatefulSet
    <3>1. /\ inst.replicas < N0 /\ sts'.replicas = inst.replicas
          /\ kv.replicas = inst.replicas /\ cache.replicas = inst.replicas
          /\ UNCHANGED <<kv, cache, inst>>
      BY <2>4, Cleans, Zenon DEF N0
    <3>2. ~(sts'.replicas >= N0)
      BY <1>1, <3>1, SMTT(60)
    <3> QED
      BY <2>2, <3>1, <3>2, Zenon DEF EditInv, N0
  <2>5. CASE ScaleUp /\ inst.replicas > sts.replicas
    <3>1. /\ sts'.replicas = inst.replicas /\ sts'.replicas > N0 /\ sts'.reserve = <<>>
          /\ kv.replicas = inst.replicas /\ cache.replicas = inst.replicas
          /\ UNCHANGED <<kv, cache>>
      BY <2>5, Grows, Zenon DEF N0
    <3>2. ~(sts'.replicas < N0)
      BY <1>1, <3>1, SMTT(60)
    <3> QED
      BY <2>2, <3>1, <3>2, Zenon DEF EditInv, N0
  <2> QED
    BY <2>3, <2>4, <2>5, StsStep, Zenon
<1>5. UserWrote \/ (kv'.replicas = kv.replicas /\ edits' = edits)
  <2>1. WorkerWrote => kv'.replicas = kv.replicas /\ edits' = edits
    BY AcceptedCopy, Zenon DEF WorkerWrote
  <2>2. FailoverWrote => kv'.replicas = kv.replicas /\ edits' = edits
    BY Zenon DEF FailoverWrote
  <2> QED
    BY <2>1, <2>2, KvStep, Zenon
<1> QED
  BY <1>3, <1>4, <1>5, Zenon

\* Every step keeps FailedInv.
LEMMA FailedStep ==
  ASSUME TypeInv, CopyInv, FailedInv, [Next]_vars
  PROVE  FailedInv'
<1>1. /\ \A c \in {kv, cache, inst} : c.status = "Failed" => Len(c.topo) = 0 /\ c.shrink = NoShrink
      /\ cache.status = "Failed" => kv.status = "Failed"
      /\ pc # "idle" => inst.status # "Failed"
  BY Zenon DEF FailedInv, Copies
<1>2. WorkerWrote => inst = kv /\ pc # "idle" /\ kv'.status = inst.status
  BY AcceptedCopy, Zenon DEF WorkerWrote
<1>3. kv'.status = "Failed" => Len(kv'.topo) = 0 /\ kv'.shrink = NoShrink
  <2>1. Len(<<>>) = 0
    OBVIOUS
  <2>2. FailoverWrote => (kv'.status = "Failed" => Len(kv'.topo) = 0 /\ kv'.shrink = NoShrink)
    BY <1>1, <2>1, Zenon DEF FailoverWrote, SameEntries
  <2>3. UserWrote => (kv'.status = "Failed" => Len(kv'.topo) = 0 /\ kv'.shrink = NoShrink)
    BY <1>1, Zenon DEF UserWrote
  <2> QED
    BY <1>1, <1>2, <2>2, <2>3, KvStep, Zenon
<1>4. kv.status = "Failed" => kv'.status = "Failed"
  BY <1>2, KvStep, Zenon DEF FailoverWrote, UserWrote
<1>5. cache' \in {cache, kv} /\ inst' \in {inst, cache, kv'}
      /\ (cache' = kv => kv' = kv \/ cache' = cache)
  BY CopiesStep, Zenon
<1>6. pc' # "idle" => inst'.status # "Failed"
  BY <1>1, <1>2, ControlFlow, Zenon
     DEF WorkerGoes, Reconcile, cleanStatefulSet, Goto, ScaleUp, Listed
<1>7. \A c \in {kv', cache', inst'} :
        c.status = "Failed" => Len(c.topo) = 0 /\ c.shrink = NoShrink
  BY <1>1, <1>3, <1>5, Zenon
<1>8. cache'.status = "Failed" => kv'.status = "Failed"
  BY <1>1, <1>4, <1>5, Zenon
<1> QED
  BY <1>6, <1>7, <1>8, Zenon DEF FailedInv, Copies

-----------------------------------------------------------------------------
(* Pods *)

\* What is listed is in the set.
LEMMA AscendingIn ==
  ASSUME NEW S \in SUBSET Nat, IsFiniteSet(S), NEW j \in 1..Cardinality(S)
  PROVE  Ascending(S)[j] \in S
<1>1. Ascending(S) \in Seq(S) /\ Len(Ascending(S)) = Cardinality(S)
  BY AscendingFacts
<1>2. j \in 1..Len(Ascending(S))
  BY <1>1
<1> QED
  BY <1>1, <1>2, SMTT(60)

\* Every node of the worker's list serves.
LEMMA ListServes ==
  ASSUME TypeInv, PodsInv, NodesInv, pc \in Listed, NEW j \in 1..Len(stsNodes)
  PROVE  Serving(stsNodes[j].ip)
<1> DEFINE o == Ascending(DOMAIN pods)[j]
<1>1. /\ Len(stsNodes) = Cardinality(DOMAIN pods) /\ stsNodes[j].ip = pods[o].ip
      /\ DOMAIN pods = UpPods
  BY Zenon DEF NodesInv, PodsInv
<1>2. o \in DOMAIN pods
  BY <1>1, PodsFinite, AscendingIn, Zenon
<1> HIDE DEF o
<1> QED
  BY <1>1, <1>2, Zenon DEF Serving

\* What the StatefulSet controller does to the pods.
LEMMA PodEffects ==
  ASSUME TypeInv, NEW o \in Ordinals
  PROVE  /\ PodCreate(o) =>
              /\ o \in Desired(sts) /\ o \notin DOMAIN pods
              /\ DOMAIN pods' = DOMAIN pods \cup {o} /\ UpPods' = UpPods \cup {o}
              /\ UNCHANGED <<sts, readyReplicas, pc, kv, cache, inst, stsNodes>>
         /\ PodScaleDown(o) =>
              /\ o \in UpPods /\ o \notin Desired(sts)
              /\ DOMAIN pods' = DOMAIN pods /\ UpPods' = UpPods \ {o}
              /\ UNCHANGED <<sts, readyReplicas, pc, kv, cache, inst, stsNodes>>
         /\ PodGone(o) =>
              /\ o \in DOMAIN pods /\ o \notin UpPods
              /\ DOMAIN pods' = DOMAIN pods \ {o} /\ UpPods' = UpPods
              /\ UNCHANGED <<sts, readyReplicas, pc, kv, cache, inst, stsNodes>>
<1>1. \A p \in DOMAIN pods : pods[p] \in Pods
  BY TypeFacts, Zenon
<1>2. ASSUME PodCreate(o)
      PROVE  /\ o \in Desired(sts) /\ o \notin DOMAIN pods
             /\ DOMAIN pods' = DOMAIN pods \cup {o} /\ UpPods' = UpPods \cup {o}
             /\ UNCHANGED <<sts, readyReplicas, pc, kv, cache, inst, stsNodes>>
  <2>1. /\ o \in Desired(sts) /\ o \notin DOMAIN pods
        /\ UNCHANGED <<sts, readyReplicas, pc, kv, cache, inst, stsNodes>>
    BY <1>2, Zenon DEF PodCreate, workerVars
  <2>2. /\ DOMAIN pods' = DOMAIN pods \cup {o}
        /\ \A p \in DOMAIN pods' : pods'[p] = IF p = o THEN [ip |-> nextIP, up |-> TRUE] ELSE pods[p]
    BY <1>2, Zenon DEF PodCreate
  <2>3. [ip |-> nextIP, up |-> TRUE].up = TRUE
    BY Zenon
  <2>4. UpPods' = UpPods \cup {o}
    BY <2>1, <2>2, <2>3, Zenon DEF UpPods
  <2> QED
    BY <2>1, <2>2, <2>4, Zenon
<1>3. ASSUME PodScaleDown(o)
      PROVE  /\ o \in UpPods /\ o \notin Desired(sts)
             /\ DOMAIN pods' = DOMAIN pods /\ UpPods' = UpPods \ {o}
             /\ UNCHANGED <<sts, readyReplicas, pc, kv, cache, inst, stsNodes>>
  <2>1. /\ o \in UpPods /\ o \notin Desired(sts)
        /\ UNCHANGED <<sts, readyReplicas, pc, kv, cache, inst, stsNodes>>
    BY <1>3, Zenon DEF PodScaleDown, workerVars
  <2>2. /\ DOMAIN pods' = DOMAIN pods /\ o \in DOMAIN pods
        /\ \A p \in DOMAIN pods : pods'[p] = IF p = o THEN [pods[p] EXCEPT !.up = FALSE] ELSE pods[p]
    BY <1>3, Zenon DEF PodScaleDown, UpPods
  <2>3. [pods[o] EXCEPT !.up = FALSE].up = FALSE
    BY <1>1, <2>2, Zenon DEF Pods
  <2>4. UpPods' = UpPods \ {o}
    BY <2>2, <2>3, Zenon DEF UpPods
  <2> QED
    BY <2>1, <2>2, <2>4, Zenon
<1>4. ASSUME PodGone(o)
      PROVE  /\ o \in DOMAIN pods /\ o \notin UpPods
             /\ DOMAIN pods' = DOMAIN pods \ {o} /\ UpPods' = UpPods
             /\ UNCHANGED <<sts, readyReplicas, pc, kv, cache, inst, stsNodes>>
  <2>1. /\ o \in DOMAIN pods /\ o \notin UpPods
        /\ UNCHANGED <<sts, readyReplicas, pc, kv, cache, inst, stsNodes>>
    BY <1>4, Zenon DEF PodGone, workerVars
  <2>2. /\ DOMAIN pods' = DOMAIN pods \ {o}
        /\ \A p \in DOMAIN pods' : pods'[p] = pods[p]
    BY <1>4, Zenon DEF PodGone, Removed
  <2>3. UpPods' = UpPods
    <3>1. UpPods = {p \in DOMAIN pods : pods[p].up} /\ UpPods' = {p \in DOMAIN pods' : pods'[p].up}
      BY Zenon DEF UpPods
    <3>2. \A p \in UpPods : p \in DOMAIN pods' /\ pods'[p].up
      BY <2>1, <2>2, <3>1, Zenon
    <3>3. \A p \in UpPods' : p \in DOMAIN pods /\ pods[p].up
      BY <2>2, <3>1, Zenon
    <3> QED
      BY <3>1, <3>2, <3>3, Zenon
  <2> QED
    BY <2>1, <2>2, <2>3, Zenon
<1> QED
  BY <1>2, <1>3, <1>4, Zenon

\* During the edit pods come only until the StatefulSet shrinks and go only after,
\* and the pods do not change under a worker that has listed them.
LEMMA PodsMove ==
  ASSUME TypeInv, EditInv, PodsInv, NodesInv, [Next]_vars, ~UNCHANGED pods
  PROVE  /\ UNCHANGED <<sts, readyReplicas, pc, kv, cache, inst, stsNodes>>
         /\ pc \notin Listed
         /\ \/ /\ sts.replicas >= InitialSize /\ readyReplicas # sts.replicas /\ pc # "list"
               /\ \E o \in Desired(sts) : /\ ~(o < InitialSize)
                                          /\ DOMAIN pods' = DOMAIN pods \cup {o}
                                          /\ UpPods' = UpPods \cup {o}
            \/ /\ sts.replicas < InitialSize /\ readyReplicas # sts.replicas /\ pc # "list"
               /\ \E o : /\ o \notin Desired(sts)
                         /\ DOMAIN pods' = DOMAIN pods
                         /\ UpPods' = UpPods \ {o}
            \/ /\ sts.replicas < InitialSize
               /\ \E o : DOMAIN pods' = DOMAIN pods \ {o} /\ UpPods' = UpPods
<1>1. InitialSize \in Nat /\ sts.replicas \in Nat /\ Desired(sts) \subseteq Nat
  BY SizeFacts, SMTT(60)
<1>2. sts.replicas >= InitialSize \/ sts.replicas < InitialSize
  BY <1>1, SMTT(60)
<1>3. UpPods \subseteq DOMAIN pods
  BY Zenon DEF UpPods
<1>4. ASSUME NEW o \in Ordinals, PodCreate(o)
      PROVE  /\ sts.replicas >= InitialSize /\ readyReplicas # sts.replicas
             /\ pc \notin Listed \cup {"list"} /\ ~(o < InitialSize) /\ o \in Desired(sts)
  <2>1. o \in Desired(sts) /\ o \notin DOMAIN pods
    BY <1>4, PodEffects, Zenon
  <2>2. UpPods # Desired(sts)
    BY <1>3, <2>1, Zenon
  <2>3. sts.replicas >= InitialSize /\ readyReplicas # sts.replicas /\ pc \notin Listed \cup {"list"}
    BY <1>2, <1>3, <2>1, <2>2, Zenon DEF PodsInv
  <2>4. o \notin 0..(InitialSize - 1)
    BY <2>1, <2>3, Zenon DEF PodsInv
  <2>5. ~(o < InitialSize)
    BY <1>1, <2>1, <2>4, SMTT(60)
  <2> QED
    BY <2>1, <2>3, <2>5, Zenon
<1>5. ASSUME NEW o \in Ordinals, PodScaleDown(o)
      PROVE  /\ sts.replicas < InitialSize /\ readyReplicas # sts.replicas
             /\ pc \notin Listed \cup {"list"}
  <2>1. o \in UpPods /\ o \notin Desired(sts)
    BY <1>5, PodEffects, Zenon
  <2> QED
    BY <1>2, <1>3, <2>1, Zenon DEF PodsInv
<1>6. ASSUME NEW o \in Ordinals, PodGone(o)
      PROVE  sts.replicas < InitialSize /\ pc \notin Listed
  <2>1. o \in DOMAIN pods /\ o \notin UpPods
    BY <1>6, PodEffects, Zenon
  <2> QED
    BY <1>2, <2>1, Zenon DEF PodsInv
<1>7. ASSUME pc = "ping", pos <= Len(stsNodes), ~Serving(stsNodes[pos].ip) PROVE FALSE
  <2>1. pos \in 1..(Len(stsNodes) + 1) /\ stsNodes \in Seq(Nodes)
    BY TypeParts, Zenon DEF WorkerOK
  <2>2. pos \in 1..Len(stsNodes)
    BY <1>7, <2>1, SMTT(60)
  <2>3. pc \in Listed
    BY <1>7, Zenon DEF Listed
  <2> QED
    BY <1>7, <2>2, <2>3, ListServes, Zenon
<1> QED
  BY <1>4, <1>5, <1>6, <1>7, PodsChange, PodEffects, Zenon

\* Every step keeps PodsInv.
LEMMA PodsKept ==
  ASSUME TypeInv, EditInv, PodsInv, NodesInv, ShrinkInv, EditInv', [Next]_vars
  PROVE  PodsInv'
<1> DEFINE N0 == InitialSize
           D == DOMAIN pods
<1>1. N0 \in Nat /\ sts.replicas \in Nat /\ IsFiniteSet(Desired(sts))
      /\ Cardinality(Desired(sts)) = sts.replicas /\ readyReplicas \in Nat
      /\ IsFiniteSet(UpPods) /\ UpPods \subseteq D /\ inst.replicas \in Nat
  BY SizeFacts, TypeFacts, PodsFinite, Zenon DEF UpPods, Copies
<1>2. /\ \A o \in D : o < N0 => pods[o].ip = o + 1
      /\ sts.replicas >= N0 => UpPods = D /\ 0..(N0 - 1) \subseteq D /\ D \subseteq Desired(sts)
      /\ sts.replicas < N0 => Desired(sts) \subseteq UpPods /\ D \subseteq 0..(N0 - 1)
      /\ sts.replicas = N0 => readyReplicas = N0
      /\ readyReplicas = sts.replicas => UpPods = Desired(sts)
      /\ pc \in Listed \cup {"list"} => UpPods = Desired(sts)
      /\ pc \in Listed => D = UpPods
  BY Zenon DEF PodsInv
<1> HIDE DEF N0, D
<1>3. ASSUME \A o \in D' : o < N0 => pods'[o].ip = o + 1,
             sts'.replicas >= N0 => UpPods' = D' /\ 0..(N0 - 1) \subseteq D' /\ D' \subseteq Desired(sts'),
             sts'.replicas < N0 => Desired(sts') \subseteq UpPods' /\ D' \subseteq 0..(N0 - 1),
             sts'.replicas = N0 => readyReplicas' = N0,
             readyReplicas' = sts'.replicas => UpPods' = Desired(sts'),
             pc' \in Listed \cup {"list"} => UpPods' = Desired(sts'),
             pc' \in Listed => D' = UpPods'
      PROVE  PodsInv'
  BY <1>3, Zenon DEF PodsInv, N0, D
<1>4. sts.replicas >= N0 \/ sts.replicas < N0
  BY <1>1, SMTT(60)
<1>5. \A o \in D' : o < N0 => pods'[o].ip = o + 1
  <2>1. \A o \in D' : (o \in D /\ pods'[o].ip = pods[o].ip) \/ PodCreate(o)
    BY IPsStep, Zenon DEF D
  <2>2. ASSUME NEW o \in D', PodCreate(o), o < N0 PROVE FALSE
    <3>1. o \in Desired(sts) /\ o \notin D
      BY <2>2, Zenon DEF PodCreate, D
    <3>2. o \in 0..(N0 - 1)
      <4>1. o \in Nat
        BY <3>1, SizeFacts, Zenon
      <4> QED
        BY <1>1, <2>2, <4>1, SMTT(60)
    <3> QED
      BY <1>1, <1>2, <1>4, <3>1, <3>2, Zenon
  <2> QED
    BY <1>2, <2>1, <2>2, Zenon
<1>6. CASE ~UNCHANGED pods
  <2>1. /\ UNCHANGED <<sts, readyReplicas, pc>> /\ pc \notin Listed
        /\ \/ /\ sts.replicas >= N0 /\ readyReplicas # sts.replicas /\ pc # "list"
              /\ \E o \in Desired(sts) : D' = D \cup {o} /\ UpPods' = UpPods \cup {o}
           \/ /\ sts.replicas < N0 /\ readyReplicas # sts.replicas /\ pc # "list"
              /\ \E o : o \notin Desired(sts) /\ D' = D /\ UpPods' = UpPods \ {o}
           \/ /\ sts.replicas < N0
              /\ \E o : D' = D \ {o} /\ UpPods' = UpPods
    BY <1>6, PodsMove, Zenon DEF N0, D
  <2>2. sts.replicas < N0 => ~(sts.replicas >= N0)
    BY <1>1, SMTT(60)
  <2>3. sts.replicas >= N0 => UpPods' = D' /\ 0..(N0 - 1) \subseteq D' /\ D' \subseteq Desired(sts)
    BY <1>2, <2>1, <2>2, Zenon
  <2>4. sts.replicas < N0 => Desired(sts) \subseteq UpPods' /\ D' \subseteq 0..(N0 - 1)
    BY <1>2, <2>1, <2>2, Zenon
  <2>5. /\ readyReplicas = sts.replicas => UpPods' = Desired(sts)
        /\ pc = "list" => UpPods' = Desired(sts)
    BY <1>2, <2>1, Zenon
  <2> QED
    BY <1>2, <1>3, <1>5, <2>1, <2>3, <2>4, <2>5, Zenon
<1>7. ASSUME UNCHANGED pods PROVE UpPods' = UpPods /\ D' = D
  BY <1>7, Zenon DEF UpPods, D
<1>8. CASE StatusSync
  <2>1. /\ readyReplicas' = Cardinality(UpPods)
        /\ UNCHANGED <<sts, pods, pc>>
    BY <1>8, Zenon DEF StatusSync, workerVars
  <2>2. sts.replicas = N0 => readyReplicas' = N0
    <3> SUFFICES ASSUME sts.replicas = N0 PROVE readyReplicas' = N0
      OBVIOUS
    <3>1. sts.replicas >= N0
      BY <1>1
    <3>2. UpPods = Desired(sts)
      BY <1>2, Zenon
    <3> QED
      BY <1>1, <2>1, <3>2, Zenon
  <2>3. readyReplicas' = sts.replicas => UpPods = Desired(sts)
    <3> SUFFICES ASSUME Cardinality(UpPods) = Cardinality(Desired(sts)) PROVE UpPods = Desired(sts)
      BY <1>1, <2>1, Zenon
    <3>1. UpPods \subseteq Desired(sts) \/ Desired(sts) \subseteq UpPods
      BY <1>2, <1>4, Zenon
    <3> QED
      BY <1>1, <3>1, FS_Subset, Zenon
  <2> QED
    BY <1>2, <1>3, <1>5, <1>7, <2>1, <2>2, <2>3, Zenon
<1>9. CASE UNCHANGED <<pods, readyReplicas, sts>>
  <2>1. pc' \in Listed \cup {"list"} =>
          pc \in Listed \cup {"list"} \/ readyReplicas = sts.replicas
    BY <1>9, ControlFlow, ZenonT(60)
       DEF WorkerGoes, Reconcile, cleanStatefulSet, Goto, Listed
  <2>2. pc' \in Listed => pc \in Listed \/ UpPods = D
    BY <1>9, ControlFlow, Zenon
       DEF WorkerGoes, Reconcile, cleanStatefulSet, Goto, Listed, D
  <2> QED
    BY <1>2, <1>3, <1>5, <1>7, <1>9, <2>1, <2>2, Zenon
<1>10. CASE cleanStatefulSet
  <2>1. /\ sts'.replicas = inst.replicas /\ inst.replicas < N0 /\ inst.shrink.on
        /\ UNCHANGED <<pods, readyReplicas>>
        /\ \/ sts.replicas = N0 /\ sts' = Planned(inst)
           \/ sts.replicas = inst.replicas /\ Desired(sts') = Desired(sts)
    BY <1>10, Cleans, Zenon DEF N0
  <2>2. ~(sts'.replicas >= N0) /\ sts'.replicas # N0 /\ inst.replicas < N0
    BY <1>1, <2>1, SMTT(60)
  <2>3. pc' \notin Listed \cup {"list"}
    BY <1>10, Zenon DEF cleanStatefulSet, Goto, Listed
  <2>4. CASE sts.replicas = N0 /\ sts' = Planned(inst)
    <3>1. CopyOK(inst) /\ sts.replicas >= N0
      <4>1. CopyOK(inst)
        BY Zenon DEF ShrinkInv, Copies
      <4>2. sts.replicas >= N0
        BY <1>1, <2>4, SMTT(60)
      <4> QED
        BY <4>1, <4>2, Zenon
    <3>2. Desired(sts') \subseteq 0..(N0 - 1)
      BY <2>1, <2>4, <3>1, Zenon DEF CopyOK, N0
    <3>3. D \subseteq 0..(N0 - 1)
      <4>1. Desired(sts) = 0..(N0 - 1)
        BY <2>4, <3>1, Unshrunk, ZenonT(60) DEF N0
      <4> QED
        BY <1>2, <3>1, <4>1, Zenon
    <3>4. readyReplicas' # sts'.replicas
      BY <1>2, <2>1, <2>2, <2>4, Zenon
    <3> QED
      BY <1>2, <1>3, <1>5, <1>7, <2>1, <2>2, <2>3, <3>1, <3>2, <3>3, <3>4, Zenon
  <2>5. CASE sts.replicas = inst.replicas /\ Desired(sts') = Desired(sts)
    BY <1>2, <1>3, <1>5, <1>7, <2>1, <2>2, <2>3, <2>5, Zenon
  <2> QED
    BY <2>1, <2>4, <2>5, Zenon
<1>11. CASE ScaleUp /\ inst.replicas > sts.replicas
  <2>1. /\ sts.replicas = N0 /\ sts'.replicas > N0 /\ sts'.reserve = <<>>
        /\ sts'.replicas = inst.replicas /\ UNCHANGED <<pods, readyReplicas>>
    BY <1>11, Grows, Zenon DEF N0
  <2>2. ~(sts'.replicas < N0) /\ sts'.replicas # N0 /\ sts'.replicas \in Nat /\ sts.replicas >= N0
    BY <1>1, <2>1, SMTT(60)
  <2>3. Desired(sts) = 0..(N0 - 1) /\ Desired(sts') = 0..(sts'.replicas - 1)
    <3>1. Desired(sts) = 0..(N0 - 1)
      BY <2>1, <2>2, Unshrunk, ZenonT(60) DEF N0
    <3> DEFINE new == sts'
    <3>2. new.replicas \in Nat /\ new.reserve = <<>>
      BY <2>1, <2>2, Zenon
    <3> HIDE DEF new
    <3>3. Desired(new) = 0..(new.replicas - 1)
      BY <3>2, DesiredFirst, Zenon
    <3> QED
      BY <3>1, <3>3, Zenon DEF new
  <2>4. 0..(N0 - 1) \subseteq 0..(sts'.replicas - 1)
    BY <1>1, <2>1, <2>2, SMTT(60)
  <2>5. readyReplicas' # sts'.replicas
    BY <1>2, <2>1, <2>2, Zenon
  <2>6. pc' = "idle"
    BY <1>11, <2>1, <2>5, Zenon DEF ScaleUp, EndReconcile
  <2> QED
    BY <1>2, <1>3, <1>5, <1>7, <2>1, <2>2, <2>3, <2>4, <2>5, <2>6, Zenon DEF Listed
<1>12. StatusSync \/ UNCHANGED readyReplicas
  BY ReadyStep, Zenon
<1> QED
  BY <1>6, <1>8, <1>9, <1>10, <1>11, <1>12, StsStep, Zenon

=============================================================================
