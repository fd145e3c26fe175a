------------------------ MODULE ClusterOperatorProofs ------------------------
(***************************************************************************)
(* Proofs about ClusterOperator, for every number of shards and replicas   *)
(* and whatever faults happen: its status implements PublishedStatus, no   *)
(* failover mark is lost and, as long as the published topologies list all *)
(* pods, none is deleted without a fault of its own.                       *)
(***************************************************************************)
EXTENDS ClusterOperator, TLAPS

\* What the worker has left to visit is there.
TodoListed == pc \in {"ping", "delete"} => todo \subseteq Positions(stsNodes)

\* Types, with the worker's set of nodes to visit.
TypeInv == TypeOK /\ TodoListed

\* A copy is never ahead of the stored object, and is equal to it as long as
\* nobody has written: this is what the resourceVersion is for.
IsCopy(obj) == obj.rv <= kv.rv /\ (obj.rv = kv.rv => obj = kv)

\* The cache, the worker and the handler work on copies.  Before its update the
\* handler has changed no more than the topology and the version of its copy.
CopiesInv ==
  /\ IsCopy(cache)
  /\ pc # "idle" => IsCopy(inst)
  /\ hpc \in {"failover", "nodes", "fail"} => IsCopy(hinst)
  /\ hpc = "update" => /\ hinst.rv <= kv.rv
                       /\ hinst.rv = kv.rv => /\ hinst.status = kv.status
                                              /\ hinst.version = kv.version + 1

\* A topology goes with the status Running.
Shown(obj) == obj.topo # NoTopo => obj.status = "Running"

\* What is known of the copies at each point of the worker and the handler.
StatusInv ==
  /\ Shown(kv) /\ Shown(cache)
  /\ kv.status = "Failed" => kv.version = 0 /\ kv.topo = NoTopo
  /\ pc # "idle" => Shown(inst) /\ inst.status # "Failed"
  /\ pc \in {"publish", "finalizer"} => inst.status = "Running"
  /\ hpc # "idle" => Shown(hinst) /\ hinst.status # "Failed"
  /\ hpc = "nodes" => hinst.topo # NoTopo
  /\ hpc = "update" => hinst.status = "Running"

\* A mark that the worker has seen was in the topology it has read.
MarksInv ==
  /\ pc = "topo" => \A s \in Shards : \A j \in 1..Len(stsNodes[s]) :
                      ~stsNodes[s][j].failover
  /\ pc \in {"idle", "list", "topo"} => ~change
  /\ pc = "delete" => inst.topo # NoTopo
  /\ pc = "ping" /\ inst.topo = NoTopo =>
       /\ ~change
       /\ \A s \in Shards : \A j \in 1..Len(stsNodes[s]) : ~stsNodes[s][j].failover

\* The worker computes from the version it has read, and comes to its last
\* update with the topology it has just published.
WorkerInv ==
  /\ pc \notin {"idle", "list", "topo"} => version = inst.version
  /\ pc = "finalizer" => inst.topo = [s \in Shards |-> TopoOf(stsNodes[s])]

\* The inductive invariant.
ClusterInv == TypeInv /\ CopiesInv /\ StatusInv /\ MarksInv /\ WorkerInv

-----------------------------------------------------------------------------
(* What the functions of Topology return *)

\* A function on 1..n is a sequence of length n.
LEMMA IsSequence ==
  ASSUME NEW S, NEW n \in Nat, NEW f \in [1..n -> S]
  PROVE  f \in Seq(S) /\ Len(f) = n
OBVIOUS

\* What ListStatefulSetPods gives the worker of a shard: at most Replicas nodes,
\* one for each pod that exists, in the order of the ordinals.
LEMMA ListedNodes ==
  ASSUME ListPods, ~Abort
  PROVE  /\ stsNodes' = [s \in Shards |-> stsNodes'[s]]
         /\ \A s \in Shards : \E n \in 0..Replicas : \E order \in [1..n -> Ordinals] :
              /\ Len(order) = n
              /\ IsListing(order, s)
              /\ stsNodes'[s] = [k \in 1..n |-> NewNode(pods[s][order[k]].ip, order[k])]
<1>1. PICK orders \in [Shards -> Listings] :
        /\ \A s \in Shards : IsListing(orders[s], s)
        /\ stsNodes' = [s \in Shards |-> [j \in 1..Len(orders[s]) |->
                         NewNode(pods[s][orders[s][j]].ip, orders[s][j])]]
  BY ZenonT(60) DEF ListPods
<1>2. stsNodes' = [s \in Shards |-> stsNodes'[s]]
  BY <1>1, Zenon
<1>3. ASSUME NEW s \in Shards
      PROVE  \E n \in 0..Replicas : \E order \in [1..n -> Ordinals] :
               /\ Len(order) = n
               /\ IsListing(order, s)
               /\ stsNodes'[s] = [k \in 1..n |-> NewNode(pods[s][order[k]].ip, order[k])]
  <2>1. orders[s] \in Listings
    BY <1>1, Zenon
  <2>2. PICK n \in 0..Replicas : orders[s] \in [1..n -> Ordinals]
    BY <2>1, Zenon DEF Listings
  <2>3. n \in Nat
    BY <2>2, ReplicasAssumption
  <2>4. Len(orders[s]) = n
    BY <2>2, <2>3, IsSequence, Zenon
  <2>5. IsListing(orders[s], s)
    BY <1>1, Zenon
  <2>6. stsNodes'[s] = [k \in 1..n |-> NewNode(pods[s][orders[s][k]].ip, orders[s][k])]
    BY <1>1, <2>4, Zenon
  <2> QED
    BY <2>2, <2>4, <2>5, <2>6, Zenon
<1> QED
  BY <1>2, <1>3, Zenon

\* Replacing a node keeps a list of nodes.
LEMMA NodesExcept ==
  \A list \in Seq(Nodes) : \A j \in 1..Len(list), node \in Nodes :
    /\ [list EXCEPT ![j] = node] \in Seq(Nodes)
    /\ Len([list EXCEPT ![j] = node]) = Len(list)
OBVIOUS

\* What ensureKubernetes copies from the status leaves the list of pods a list
\* of the same pods.
LEMMA FixNodesType ==
  ASSUME NEW nodes \in Seq(Nodes), NEW topo \in Seq(TopoNodes)
  PROVE  /\ FixNodes(nodes, topo) \in Seq(Nodes)
         /\ Len(FixNodes(nodes, topo)) = Len(nodes)
<1>1. ASSUME NEW j \in 1..Len(nodes) PROVE FixNodes(nodes, topo)[j] \in Nodes
  <2>1. nodes[j] \in Nodes
    OBVIOUS
  <2>2. j <= Len(topo) => topo[j] \in TopoNodes
    OBVIOUS
  <2>3. CASE j > Len(topo)
    BY <2>1, <2>3 DEF FixNodes
  <2>4. CASE ~(j > Len(topo))
    <3>1. FixNodes(nodes, topo)[j] =
            [nodes[j] EXCEPT !.id = topo[j].id, !.role = topo[j].role,
                             !.master = topo[j].master, !.failover = topo[j].failover]
      BY <2>4 DEF FixNodes
    <3>2. topo[j] \in TopoNodes
      BY <2>2, <2>4
    <3> QED
      BY <2>1, <3>1, <3>2, ZenonT(60) DEF Nodes, TopoNodes
  <2> QED
    BY <2>3, <2>4
<1>2. FixNodes(nodes, topo) \in [1..Len(nodes) -> Nodes]
  BY <1>1, ZenonT(60) DEF FixNodes
<1> QED
  BY <1>2, IsSequence

\* ensureStatusTopoMsg publishes every node of the list.
LEMMA TopoOfType ==
  ASSUME NEW nodes \in Seq(Nodes)
  PROVE  /\ TopoOf(nodes) \in Seq(TopoNodes)
         /\ Len(TopoOf(nodes)) = Len(nodes)
<1>1. \A j \in 1..Len(nodes) : nodes[j] \in Nodes
  OBVIOUS
<1>2. TopoOf(nodes) \in [1..Len(nodes) -> TopoNodes]
  BY Zenon, <1>1 DEF TopoOf, Nodes, TopoNodes
<1> QED
  BY <1>2, IsSequence

\* initCluster, ensureReplication and ensureSetNodeID change no more than ids
\* and roles.
LEMMA InitRolesType ==
  ASSUME NEW nodes \in Seq(Nodes)
  PROVE  InitRoles(nodes) \in Seq(Nodes)
<1>1. \A j \in 1..Len(nodes) : nodes[j] \in Nodes
  OBVIOUS
<1>2. InitRoles(nodes) \in [1..Len(nodes) -> Nodes]
  BY <1>1, Zenon DEF InitRoles, Nodes, Roles
<1> QED
  BY <1>2, IsSequence

\* What ensureReplication makes of a list of pods is a list of the same pods.
LEMMA ReplicatedType ==
  ASSUME NEW nodes \in Seq(Nodes), nodes # <<>>
  PROVE  Replicated(nodes) \in Seq(Nodes)
<1> DEFINE known == {j \in 1..Len(nodes) : /\ nodes[j].role = "master" /\ nodes[j].id # 0
                                           /\ \A k \in 1..j - 1 : nodes[k].role # "master"}
           id == IF known # {} THEN nodes[CHOOSE j \in known : TRUE].id ELSE nodes[1].id
           fixed == IF known # {} THEN nodes ELSE [nodes EXCEPT ![1].role = "master"]
<1>1. \A j \in 1..Len(nodes) : nodes[j] \in Nodes
  OBVIOUS
<1>2. 1 \in 1..Len(nodes)
  OBVIOUS
<1>3. known # {} => (CHOOSE j \in known : TRUE) \in 1..Len(nodes)
  BY ZenonT(60)
<1>4. id \in Nat
  BY <1>1, <1>2, <1>3, ZenonT(60) DEF Nodes
<1>5. \A j \in 1..Len(nodes) : fixed[j] \in Nodes
  <2>1. [nodes[1] EXCEPT !.role = "master"] \in Nodes
    BY <1>1, <1>2, ZenonT(60) DEF Nodes, Roles
  <2>2. [nodes EXCEPT ![1] = [nodes[1] EXCEPT !.role = "master"]] \in Seq(Nodes)
    BY <1>2, <2>1
  <2> QED
    BY <1>1, <2>1, <2>2
<1>6. Replicated(nodes) = [j \in 1..Len(nodes) |->
                             IF fixed[j].id # id /\ fixed[j].master # id
                             THEN [fixed[j] EXCEPT !.master = id, !.role = "slave"]
                             ELSE fixed[j]]
  BY DEF Replicated
<1> HIDE DEF id, fixed
<1>7. Replicated(nodes) \in [1..Len(nodes) -> Nodes]
  BY <1>4, <1>5, <1>6, ZenonT(180) DEF Nodes, Roles
<1> QED
  BY <1>7, IsSequence

\* What ensureSetNodeID makes of a list of pods is a list of the same pods.
LEMMA IdentifiedType ==
  ASSUME NEW nodes \in Seq(Nodes), NEW roles, DOMAIN roles \subseteq Nat,
         \A ip \in DOMAIN roles : roles[ip] \in {"master", "slave"},
         MastersIn(roles) # {}
  PROVE  Identified(nodes, roles) \in Seq(Nodes)
<1>1. \A j \in 1..Len(nodes) : nodes[j] \in Nodes
  OBVIOUS
<1>2. (CHOOSE m \in MastersIn(roles) : TRUE) \in Nat
  BY DEF MastersIn
<1>3. Identified(nodes, roles) \in [1..Len(nodes) -> Nodes]
  BY <1>1, <1>2, ZenonT(60) DEF Identified, Nodes, Roles
<1> QED
  BY <1>3, IsSequence

\* The handler's new topology has the nodes of the old one.
LEMMA AfterFailoverType ==
  ASSUME NEW topo \in Seq(TopoNodes), NEW ip, NEW roles, NEW master \in Nat,
         \A i \in DOMAIN roles : roles[i] \in {"master", "slave"}
  PROVE  /\ AfterFailover(topo, ip, roles, master) \in Seq(TopoNodes)
         /\ Len(AfterFailover(topo, ip, roles, master)) = Len(topo)
<1>1. \A j \in 1..Len(topo) : topo[j] \in TopoNodes
  OBVIOUS
<1>2. AfterFailover(topo, ip, roles, master) \in [1..Len(topo) -> TopoNodes]
  BY <1>1, ZenonT(60) DEF AfterFailover, TopoNodes, Roles
<1> QED
  BY <1>2, IsSequence

-----------------------------------------------------------------------------
(* Types *)

\* The first object, what the API server stores of one, and what
\* ensureStatusTopoMsg makes of one are KVRocks objects.
LEMMA NewTypes ==
  /\ NewKV \in KVs
  /\ NoTopo \in [Shards -> Seq(Nodes)]
  /\ NoMsg \in Messages
<1>1. 1 \in Shards
  BY ShardsAssumption DEF Shards
<1> QED
  BY <1>1 DEF NewKV, NoTopo, NoMsg, KVs, Topos, Messages

\* Changing the fields of the status keeps an object.
LEMMA ExceptType ==
  ASSUME NEW obj \in KVs, NEW status \in {"Creating", "Running", "Failed"}, NEW ver \in Nat,
         NEW topo \in Topos
  PROVE  /\ [obj EXCEPT !.status = status, !.version = ver, !.topo = topo] \in KVs
         /\ [obj EXCEPT !.version = ver, !.topo = topo] \in KVs
BY ZenonT(60) DEF KVs

\* What the API server stores is an object.
LEMMA StoredType ==
  ASSUME kv \in KVs, NEW obj \in KVs
  PROVE  Stored(obj) \in KVs
BY DEF Stored, KVs

\* What ensureStatusTopoMsg sends is an object.
LEMMA WithTopoType ==
  ASSUME NEW obj \in KVs, NEW nodes \in [Shards -> Seq(Nodes)], NEW ver \in Nat
  PROVE  WithTopo(obj, nodes, ver) \in KVs
<1>1. [s \in Shards |-> TopoOf(nodes[s])] \in Topos
  BY TopoOfType DEF Topos
<1> QED
  BY <1>1, ZenonT(60) DEF WithTopo, KVs

\* What kvrocks-controller knows of a shard, after each of its operations.
IsRoles(roles) ==
  /\ DOMAIN roles \subseteq Nat
  /\ \A ip \in DOMAIN roles : roles[ip] \in {"master", "slave"}

\* The calls to kvrocks-controller keep its table of roles one.
LEMMA RolesType ==
  ASSUME NEW roles, IsRoles(roles), NEW nodes \in Seq(Nodes), NEW new
  PROVE  /\ IsRoles(Kept(roles, nodes))
         /\ IsRoles(Extended(roles, nodes))
         /\ IsRoles(Promoted(roles, new))
<1>1. \A j \in 1..Len(nodes) : nodes[j].ip \in Nat
  <2>1. \A j \in 1..Len(nodes) : nodes[j] \in Nodes
    OBVIOUS
  <2> QED
    BY <2>1 DEF Nodes
<1>2. IsRoles(Kept(roles, nodes))
  BY DEF IsRoles, Kept
<1>3. IsRoles(Extended(roles, nodes))
  <2>1. Accepted(roles, nodes) \subseteq 1..Len(nodes)
    BY DEF Accepted, Missing
  <2> QED
    BY <1>1, <2>1 DEF IsRoles, Extended
<1>4. IsRoles(Promoted(roles, new))
  BY DEF IsRoles, Promoted
<1> QED
  BY <1>2, <1>3, <1>4

\* updatePodLabels writes roles.
LEMMA LabelledType ==
  ASSUME pods \in [Shards -> [Ordinals -> Pods]], NEW nodes \in [Shards -> Seq(Nodes)]
  PROVE  Labelled(nodes) \in [Shards -> [Ordinals -> Pods]]
<1> DEFINE node(p) == nodes[p[1]][p[2]]
           fine(p) == \A q \in Positions(nodes) : UpTo(q, p) => Exists(q[1], node(q).idx)
           role(s, o) == {node(p).role : p \in {q \in Positions(nodes) :
                                                 q[1] = s /\ node(q).idx = o /\ fine(q)}}
           label(s, o) == IF role(s, o) = {} THEN pods[s][o]
                          ELSE [pods[s][o] EXCEPT !.label = CHOOSE r \in role(s, o) : TRUE]
<1>1. \A p \in Positions(nodes) : node(p).role \in Roles
  <2> SUFFICES ASSUME NEW p \in Positions(nodes) PROVE node(p).role \in Roles
    OBVIOUS
  <2>1. p[1] \in Shards /\ p[2] \in 1..Len(nodes[p[1]])
    BY DEF Positions, Ordinals
  <2>2. node(p) \in Nodes
    BY <2>1
  <2> QED
    BY <2>2 DEF Nodes
<1>2. ASSUME NEW s \in Shards, NEW o \in Ordinals PROVE label(s, o) \in Pods
  <2>1. role(s, o) \subseteq Roles
    BY <1>1
  <2> HIDE DEF role
  <2>2. role(s, o) # {} => (CHOOSE r \in role(s, o) : TRUE) \in Roles
    BY <2>1
  <2>3. pods[s][o] \in Pods
    OBVIOUS
  <2>4. \A r \in Roles : [pods[s][o] EXCEPT !.label = r] \in Pods
    BY <2>3, ZenonT(60) DEF Pods
  <2> QED
    BY <2>2, <2>3, <2>4, ZenonT(60)
<1>3. Labelled(nodes) = [s \in Shards |-> [o \in Ordinals |-> label(s, o)]]
  BY DEF Labelled
<1> HIDE DEF label
<1> QED
  BY <1>2, <1>3

\* Everything is of its type at the start.
LEMMA InitType == Init => TypeInv
<1> SUFFICES ASSUME Init PROVE TypeInv
  OBVIOUS
<1> USE ShardsAssumption, ReplicasAssumption, FaultsAssumption, RetriesAssumption
<1>1. pods \in [Shards -> [Ordinals -> Pods]] /\ nextIP \in Nat
  <2>1. \A s \in Shards, o \in Ordinals : (s - 1) * Replicas + o \in Nat
    BY DEF Shards, Ordinals
  <2>2. \A s \in Shards, o \in Ordinals :
          [phase |-> "up", ip |-> (s - 1) * Replicas + o, label |-> "none"] \in Pods
    BY <2>1 DEF Pods, Roles
  <2>3. NumShards * Replicas + 1 \in Nat
    OBVIOUS
  <2> QED
    BY <2>2, <2>3 DEF Init
<1>2. \A s \in Shards : DOMAIN ctl[s] = {}
  BY DEF Init, NoTopo
<1>3. kv \in KVs /\ cache \in KVs /\ inst \in KVs /\ hinst \in KVs
  BY NewTypes DEF Init
<1>4. stsNodes \in [Shards -> Seq(Nodes)] /\ hmsg \in Messages
  BY NewTypes DEF Init
<1>5. TodoListed
  BY DEF Init, TodoListed
<1>6. ready \in [Shards -> BOOLEAN] /\ requeue \in BOOLEAN /\ change \in BOOLEAN
  BY ZenonT(60) DEF Init
<1> QED
  BY SMTT(30), <1>1, <1>2, <1>3, <1>4, <1>5, <1>6 DEF Init, TypeInv, TypeOK

\* The worker's variables after it has returned.
LEMMA EndReconcileType ==
  ASSUME EndReconcile
  PROVE  /\ pc' = "idle"
         /\ inst' \in KVs
         /\ stsNodes' \in [Shards -> Seq(Nodes)]
         /\ version' \in Nat
         /\ requeue' \in BOOLEAN
         /\ change' \in BOOLEAN
         /\ todo' \subseteq Shards \X Ordinals
BY NewTypes, ZenonT(60) DEF EndReconcile

\* Every step keeps them.
LEMMA NextType == TypeInv /\ [Next]_vars => TypeInv'
<1> SUFFICES ASSUME TypeInv, [Next]_vars PROVE TypeInv'
  BY Zenon
<1> USE ShardsAssumption, ReplicasAssumption, FaultsAssumption, RetriesAssumption
<1> USE DEF TypeInv
<1>1. CASE CacheSync
  BY <1>1, Zenon DEF CacheSync, TypeOK, TodoListed, workerVars, handlerVars, faultVars
<1>2. ASSUME NEW s \in Shards, NEW o \in Ordinals,
             PodCrash(s, o) \/ PodEvict(s, o) \/ PodStep(s, o)
      PROVE  TypeInv'
  <2> DEFINE pod == pods[s][o]
  <2>1. pods \in [Shards -> [Ordinals -> Pods]] /\ nextIP \in Nat /\ pod \in Pods
    BY DEF TypeOK
  <2>3. \A phase \in {"up", "down", "terminating", "gone"} :
          [pod EXCEPT !.phase = phase] \in Pods
    BY <2>1 DEF Pods
  <2>4. [phase |-> "up", ip |-> nextIP, label |-> "none"] \in Pods
    BY Zenon, <2>1 DEF Pods, Roles
  <2>5. \/ \E phase \in {"up", "down", "terminating", "gone"} :
               pods' = [pods EXCEPT ![s][o] = [pod EXCEPT !.phase = phase]]
        \/ pods' = [pods EXCEPT ![s][o] = [phase |-> "up", ip |-> nextIP, label |-> "none"]]
    BY Zenon, <1>2 DEF PodCrash, PodEvict, PodStep, ContainerRestart, PodGone, PodCreate, SetPhase
  <2>6. pods' \in [Shards -> [Ordinals -> Pods]]
    <3>1. ASSUME NEW x \in Pods PROVE [pods EXCEPT ![s][o] = x] \in [Shards -> [Ordinals -> Pods]]
      <4>1. [pods[s] EXCEPT ![o] = x] \in [Ordinals -> Pods]
        BY Zenon, <2>1
      <4> QED
        BY <2>1, <4>1
    <3> QED
      BY SMTT(30), <2>3, <2>4, <2>5, <3>1
  <2>7. nextIP' \in Nat
    BY <1>2, <2>1, SMTT(30) DEF PodCrash, PodEvict, PodStep, ContainerRestart, PodGone, PodCreate
  <2>2. faults' \in 0..MaxFaults /\ podFaults' \in 0..MaxPodFaults
    BY <1>2, SMTT(30) DEF PodCrash, PodEvict, PodStep, ContainerRestart, PodGone, PodCreate, PodFault,
                TypeOK, faultVars
  <2> QED
    BY <1>2, <2>2, <2>6, <2>7, ZenonT(180) DEF PodCrash, PodEvict, PodStep, ContainerRestart, PodGone, PodCreate,
                            TypeOK, TodoListed, workerVars, handlerVars
<1>3. ASSUME NEW s \in Shards, StatusSync(s) PROVE TypeInv'
  BY ZenonT(60), <1>3 DEF StatusSync, TypeOK, TodoListed, workerVars, handlerVars, faultVars
<1>4. ASSUME NEW s \in Shards, Odown(s) PROVE TypeInv'
  <2>1. monitor \in [Shards -> Nat] /\ msgs \subseteq Messages
    BY Zenon DEF TypeOK
  <2>2. [ip |-> monitor[s], shard |-> s] \in Messages
    BY <2>1, SMTT(60) DEF Messages
  <2>3. msgs' \subseteq Messages
    BY <1>4, <2>1, <2>2, Zenon DEF Odown
  <2>4. 0 \in Nat
    OBVIOUS
  <2>5. monitor' \in [Shards -> Nat]
    BY <1>4, <2>1, <2>4, Zenon DEF Odown
  <2> QED
    BY <1>4, <2>3, <2>5, ZenonT(60) DEF Odown, TypeOK, TodoListed, workerVars, handlerVars, faultVars
<1>5. ASSUME NEW s \in Shards, EnsureMonitor(s) PROVE TypeInv'
  <2>1. monitor \in [Shards -> Nat] /\ pods \in [Shards -> [Ordinals -> Pods]]
    BY Zenon DEF TypeOK
  <2>2. PICK o \in Ordinals : monitor' = [monitor EXCEPT ![s] = pods[s][o].ip]
    BY <1>5, Zenon DEF EnsureMonitor
  <2>3. pods[s][o] \in Pods
    BY <2>1, Zenon
  <2>4. pods[s][o].ip \in Nat
    BY <2>3, SMTT(60) DEF Pods
  <2>5. monitor' \in [Shards -> Nat]
    BY <2>1, <2>2, <2>4, Zenon
  <2> QED
    BY <1>5, <2>5, ZenonT(60) DEF EnsureMonitor, TypeOK, TodoListed, workerVars, handlerVars, faultVars
<1>6. CASE UNCHANGED vars
  BY ZenonT(60), <1>6 DEF vars, clusterVars, workerVars, handlerVars, faultVars, TypeOK, TodoListed,
              Positions
<1>7. CASE Reconcile
  BY Zenon, <1>7 DEF Reconcile, OthersUnchanged, clusterVars, handlerVars, faultVars, TypeOK,
              TodoListed
<1>8. CASE Panic
  BY <1>8, EndReconcileType, NewTypes, Zenon DEF Panic, ProcessDies, clusterVars, faultVars, TypeOK,
                                          TodoListed
<1>9. CASE Abort
  BY <1>9, EndReconcileType DEF Abort, OthersUnchanged, clusterVars, handlerVars, faultVars,
                                TypeOK, TodoListed
<1>10. CASE ListPods
  <2>1. CASE Abort
    BY <1>9, <2>1, Zenon
  <2>2. CASE ~Abort
    <3>1. stsNodes' = [s \in Shards |-> stsNodes'[s]]
      BY <1>10, <2>2, ListedNodes, Zenon
    <3>2. ASSUME NEW s \in Shards PROVE stsNodes'[s] \in Seq(Nodes)
      <4>1. PICK n \in 0..Replicas : \E order \in [1..n -> Ordinals] :
              stsNodes'[s] = [k \in 1..n |-> NewNode(pods[s][order[k]].ip, order[k])]
        BY <1>10, <2>2, ListedNodes, Zenon
      <4>2. PICK order \in [1..n -> Ordinals] :
              stsNodes'[s] = [k \in 1..n |-> NewNode(pods[s][order[k]].ip, order[k])]
        BY <4>1, Zenon
      <4>3. ASSUME NEW j \in 1..n PROVE NewNode(pods[s][order[j]].ip, order[j]) \in Nodes
        <5>1. order[j] \in Ordinals
          BY <4>2, Zenon
        <5>2. pods \in [Shards -> [Ordinals -> Pods]]
          BY Zenon DEF TypeOK
        <5>3. pods[s][order[j]] \in Pods
          BY <5>1, <5>2, Zenon
        <5>4. pods[s][order[j]].ip \in Nat
          BY <5>3, Zenon DEF Pods
        <5> QED
          BY <5>1, <5>4, Zenon DEF NewNode, Nodes, Roles
      <4>4. stsNodes'[s] \in [1..n -> Nodes]
        BY <4>2, <4>3, Zenon
      <4>5. n \in Nat
        BY <4>1, ReplicasAssumption
      <4> QED
        BY <4>4, <4>5, IsSequence, Zenon
    <3>3. stsNodes' \in [Shards -> Seq(Nodes)]
      BY <3>1, <3>2, Zenon
    <3> QED
      BY <1>10, <2>2, <3>3, ZenonT(60) DEF ListPods, OthersUnchanged, clusterVars, handlerVars, faultVars,
                               TypeOK, TodoListed
  <2> QED
    BY <2>1, <2>2
<1>11. CASE FixTopo
  <2>1. CASE Abort \/ Panic
    BY <1>8, <1>9, <2>1
  <2>2. CASE ~(Abort \/ Panic)
    <3> DEFINE fixed == [s \in Shards |-> FixNodes(stsNodes[s], inst.topo[s])]
    <3>1. inst.topo \in Topos /\ inst.version \in Nat /\ stsNodes \in [Shards -> Seq(Nodes)]
      BY DEF TypeOK, KVs
    <3>2. \A s \in Shards : /\ fixed[s] \in Seq(Nodes)
                            /\ Len(fixed[s]) = Len(stsNodes[s])
      BY <3>1, FixNodesType DEF Topos
    <3>3. fixed \in [Shards -> Seq(Nodes)] /\ Positions(fixed) = Positions(stsNodes)
      BY <3>2 DEF Positions
    <3>4. Positions(stsNodes) \subseteq Shards \X Ordinals
      BY Zenon DEF Positions
    <3>5. /\ stsNodes' = fixed /\ version' = inst.version /\ todo' = Positions(stsNodes)
          /\ pc' = "ping"
          /\ UNCHANGED <<inst, requeue, change>> /\ OthersUnchanged
      BY <1>11, <2>2, Zenon DEF FixTopo
    <3> HIDE DEF fixed
    <3>6. TypeOK'
      BY Zenon, <3>1, <3>3, <3>4, <3>5 DEF OthersUnchanged, clusterVars, handlerVars, faultVars, TypeOK
    <3>7. Positions(stsNodes)' = Positions(fixed)
      BY <3>5 DEF Positions
    <3>8. TodoListed'
      BY Zenon, <3>3, <3>5, <3>7 DEF TodoListed
    <3> QED
      BY Zenon, <3>6, <3>8
  <2> QED
    BY <2>1, <2>2
<1>12. ASSUME NEW p \in todo, pc \in {"ping", "delete"}
       PROVE  /\ stsNodes[p[1]][p[2]] \in Nodes
              /\ p[1] \in Shards /\ p[2] \in Ordinals
              /\ ClearMark(p) => /\ stsNodes' \in [Shards -> Seq(Nodes)]
                                 /\ Positions(stsNodes)' = Positions(stsNodes)
  <2>1. p[1] \in Shards /\ p[2] \in Ordinals /\ p[2] \in 1..Len(stsNodes[p[1]])
    BY SMTT(30), <1>12 DEF TodoListed, Positions, Ordinals
  <2>2. stsNodes \in [Shards -> Seq(Nodes)] /\ stsNodes[p[1]] \in Seq(Nodes)
    BY <2>1 DEF TypeOK
  <2>3. stsNodes[p[1]][p[2]] \in Nodes
    BY <2>1, <2>2
  <2>4. ASSUME ClearMark(p)
        PROVE  /\ stsNodes' \in [Shards -> Seq(Nodes)]
               /\ Positions(stsNodes)' = Positions(stsNodes)
    <3> DEFINE cleared == [stsNodes[p[1]][p[2]] EXCEPT !.failover = FALSE]
               list == [stsNodes[p[1]] EXCEPT ![p[2]] = cleared]
    <3>1. cleared \in Nodes
      BY <2>3, ZenonT(60) DEF Nodes
    <3> HIDE DEF cleared
    <3>2. list \in Seq(Nodes) /\ Len(list) = Len(stsNodes[p[1]])
      BY Zenon, <2>1, <2>2, <3>1, NodesExcept
    <3>3. stsNodes' = [stsNodes EXCEPT ![p[1]] = list]
      BY <2>4 DEF ClearMark, cleared
    <3> HIDE DEF list
    <3>4. stsNodes' \in [Shards -> Seq(Nodes)]
      BY <2>2, <3>2, <3>3, ZenonT(60)
    <3>5. \A s \in Shards : Len(stsNodes'[s]) = Len(stsNodes[s])
      BY <2>2, <3>2, <3>3
    <3> QED
      BY <3>4, <3>5 DEF Positions
  <2> QED
    BY <2>1, <2>3, <2>4
<1>13. CASE Ping
  <2>1. PICK p \in todo :
          LET node == stsNodes[p[1]][p[2]] IN
          \/ /\ ClearMark(p)
             /\ requeue' = TRUE
             /\ change' = TRUE
             /\ todo' = todo \ {p}
             /\ UNCHANGED <<pc, inst, version>>
             /\ OthersUnchanged
          \/ /\ requeue' = TRUE
             /\ pc' = "delete"
             /\ UNCHANGED <<inst, stsNodes, version, change, todo>>
             /\ OthersUnchanged
          \/ /\ requeue' = (requeue \/ ~Serving(node.ip))
             /\ msgs' = IF Serving(node.ip) THEN msgs
                        ELSE msgs \cup {[ip |-> node.ip, shard |-> p[1]]}
             /\ todo' = todo \ {p}
             /\ UNCHANGED <<pc, inst, stsNodes, version, change, clusterVars,
                            handlerVars, nextIP, faultVars, deletions>>
    BY <1>13, ZenonT(60) DEF Ping
  <2>2. pc \in {"ping", "delete"}
    BY <1>13, ZenonT(60) DEF Ping
  <2>3. /\ stsNodes[p[1]][p[2]].ip \in Nat /\ p[1] \in Shards
        /\ ClearMark(p) => /\ stsNodes' \in [Shards -> Seq(Nodes)]
                           /\ Positions(stsNodes)' = Positions(stsNodes)
    BY <1>12, <2>2, ZenonT(60) DEF Nodes
  <2>4. requeue' \in BOOLEAN /\ change' \in BOOLEAN
    BY <2>1, ZenonT(60) DEF TypeOK
  <2>5. msgs' \subseteq Messages
    <3> DEFINE msg == [ip |-> stsNodes[p[1]][p[2]].ip, shard |-> p[1]]
    <3>1. msgs \subseteq Messages
      BY Zenon DEF TypeOK
    <3>2. msg \in Messages
      BY <2>3, SMTT(60) DEF Messages
    <3>3. msgs' = msgs \/ msgs' = msgs \cup {msg}
      BY <2>1, ZenonT(60) DEF OthersUnchanged
    <3> QED
      BY <3>1, <3>2, <3>3, Zenon
  <2>6. stsNodes' \in [Shards -> Seq(Nodes)] /\ Positions(stsNodes)' = Positions(stsNodes)
    BY <2>1, <2>3, ZenonT(60) DEF TypeOK, Positions
  <2>7. todo' \subseteq todo
    BY <2>1
  <2>8. TodoListed'
    BY <2>2, <2>6, <2>7, Zenon DEF TodoListed
  <2>9. TypeOK'
    BY <2>1, <2>4, <2>5, <2>6, <2>7, ZenonT(60) DEF OthersUnchanged, clusterVars, handlerVars, faultVars,
                                        TypeOK
  <2> QED
    BY <2>8, <2>9
<1>14. CASE DeletePod
  <2>1. CASE Panic
    BY <1>8, <2>1
  <2>2. CASE ~Panic
    <3>1. PICK p \in todo :
            /\ SetPhase(p[1], p[2], "gone")
            /\ deletions' = deletions + 1
            /\ ClearMark(p)
            /\ change' = TRUE
            /\ todo' = todo \ {p}
            /\ pc' = "ping"
            /\ UNCHANGED <<kv, cache, ready, ctl, monitor, inst, version, requeue, msgs,
                           handlerVars, nextIP, faultVars>>
      BY <1>14, <2>2, Zenon DEF DeletePod
    <3>2. /\ p[1] \in Shards /\ p[2] \in Ordinals
          /\ stsNodes' \in [Shards -> Seq(Nodes)]
          /\ Positions(stsNodes)' = Positions(stsNodes)
          /\ todo \subseteq Positions(stsNodes)
      BY Zenon, <1>12, <1>14, <3>1 DEF DeletePod, TodoListed
    <3>3. pods' \in [Shards -> [Ordinals -> Pods]]
      <4>1. pods \in [Shards -> [Ordinals -> Pods]]
        BY DEF TypeOK
      <4>2. [pods[p[1]][p[2]] EXCEPT !.phase = "gone"] \in Pods
        <5>1. pods[p[1]][p[2]] \in Pods
          BY <3>2, <4>1
        <5> QED
          BY <5>1 DEF Pods
      <4>3. [pods[p[1]] EXCEPT ![p[2]] = [pods[p[1]][p[2]] EXCEPT !.phase = "gone"]]
              \in [Ordinals -> Pods]
        BY Zenon, <3>2, <4>1, <4>2
      <4>4. pods' = [pods EXCEPT ![p[1]] =
                       [pods[p[1]] EXCEPT ![p[2]] = [pods[p[1]][p[2]] EXCEPT !.phase = "gone"]]]
        BY <3>1 DEF SetPhase
      <4> QED
        BY <3>2, <4>1, <4>3, <4>4, Zenon
    <3>4. deletions' \in Nat
      <4>1. deletions \in Nat
        BY Zenon DEF TypeOK
      <4> QED
        BY <3>1, <4>1, SMTT(60)
    <3>5. todo' \subseteq todo
      BY <3>1, Zenon
    <3>6. TodoListed'
      BY <3>2, <3>5, ZenonT(60) DEF TodoListed
    <3>7. TypeOK'
      BY <3>1, <3>2, <3>3, <3>4, <3>5, ZenonT(60) DEF handlerVars, faultVars, TypeOK
    <3> QED
      BY <3>6, <3>7, Zenon
  <2> QED
    BY <2>1, <2>2
<1>15. CASE EndFailover
  <2>1. CASE Abort
    BY <1>9, <2>1
  <2>2. CASE ~Abort /\ change
    <3>1. kv' \in KVs
      <4>1. /\ kv \in KVs /\ inst \in KVs
            /\ stsNodes \in [Shards -> Seq(Nodes)] /\ version + 1 \in Nat
        BY SMTT(30) DEF TypeOK
      <4>2. Stored(WithTopo(inst, stsNodes, version + 1)) \in KVs
        BY Zenon, <4>1, StoredType, WithTopoType
      <4> QED
        BY <1>15, <2>2, <4>1, <4>2, Zenon DEF EndFailover
    <3> QED
      BY Zenon, <1>15, <2>2, <3>1, EndReconcileType DEF EndFailover, handlerVars, faultVars, TypeOK,
                                                 TodoListed
  <2>3. CASE ~Abort /\ ~change
    BY <1>15, <2>3, ZenonT(60) DEF EndFailover, OthersUnchanged, clusterVars, handlerVars, faultVars, TypeOK,
                       TodoListed
  <2> QED
    BY <2>1, <2>2, <2>3, Zenon
<1>16. CASE EnsureConfig
  <2>1. CASE Abort
    BY <1>9, <2>1
  <2>2. CASE ~Abort
    BY <1>16, <2>2, ZenonT(60) DEF EnsureConfig, OthersUnchanged, clusterVars, handlerVars, faultVars, TypeOK,
                       TodoListed
  <2> QED
    BY <2>1, <2>2
<1>17. CASE EnsureRoles
  <2>1. CASE Panic
    BY <1>8, <2>1
  <2>2. CASE ~Panic
    <3> DEFINE nodes == [s \in Shards |-> IF inst.status = "Creating" THEN InitRoles(stsNodes[s])
                                         ELSE Replicated(stsNodes[s])]
    <3>1. nodes \in [Shards -> Seq(Nodes)]
      BY <1>17, <2>2, InitRolesType, ReplicatedType, ZenonT(60) DEF EnsureRoles, TypeOK
    <3>2. /\ pods' = Labelled(nodes)
          /\ \/ EndReconcile
             \/ /\ stsNodes' = nodes
                /\ pc' = IF inst.status = "Creating" THEN "create" ELSE "remove"
                /\ UNCHANGED <<inst, version, requeue, change, todo>>
          /\ UNCHANGED <<kv, cache, ready, ctl, monitor, msgs, handlerVars, nextIP, faultVars,
                         deletions>>
      BY <1>17, <2>2, ZenonT(60) DEF EnsureRoles
    <3> HIDE DEF nodes
    <3>3. pods' \in [Shards -> [Ordinals -> Pods]]
      BY <3>1, <3>2, LabelledType, ZenonT(60) DEF TypeOK
    <3> QED
      BY <3>1, <3>2, <3>3, EndReconcileType DEF handlerVars, faultVars, TypeOK, TodoListed
  <2> QED
    BY <2>1, <2>2
<1>18. \A s \in Shards : IsRoles(ctl[s]) /\ stsNodes[s] \in Seq(Nodes)
  BY Zenon DEF TypeOK, IsRoles
<1>19. CASE CreateCluster \/ RemoveNodes \/ AddNodes
  <2>1. \A s \in Shards : IsRoles(ctl'[s])
    <3>1. CASE CreateCluster
      <4>1. ASSUME \A s \in Shards : Len(stsNodes[s]) = Replicas
            PROVE  \A s \in Shards, j \in Ordinals : stsNodes[s][j].ip \in Nat
        <5>1. \A s \in Shards, j \in Ordinals : stsNodes[s][j] \in Nodes
          BY <1>18, <4>1, SMTT(30) DEF Ordinals
        <5> QED
          BY <5>1 DEF Nodes
      <4> QED
        BY SMTT(30), <1>18, <3>1, <4>1 DEF CreateCluster, IsRoles
    <3>2. CASE RemoveNodes
      BY <1>18, <3>2, RolesType, ZenonT(60) DEF RemoveNodes
    <3>3. CASE AddNodes
      BY <1>18, <3>3, RolesType, ZenonT(60) DEF AddNodes
    <3> QED
      BY <1>19, <3>1, <3>2, <3>3
  <2> QED
    BY <1>19, <2>1, EndReconcileType, ZenonT(60) DEF CreateCluster, RemoveNodes, AddNodes, handlerVars,
                                         faultVars, TypeOK, TodoListed, IsRoles
<1>20. CASE SetNodeID
  <2>1. CASE Abort \/ Panic
    BY <1>8, <1>9, <2>1
  <2>2. CASE ~(Abort \/ Panic)
    <3> DEFINE nodes == [s \in Shards |-> Identified(stsNodes[s], ctl[s])]
    <3>1. nodes \in [Shards -> Seq(Nodes)]
      BY <1>18, <1>20, <2>2, IdentifiedType, ZenonT(60) DEF SetNodeID, IsRoles, Masters
    <3>2. /\ pods' = Labelled(nodes)
          /\ \/ EndReconcile
             \/ /\ stsNodes' = nodes
                /\ pc' = "running"
                /\ UNCHANGED <<inst, version, requeue, change, todo>>
          /\ UNCHANGED <<kv, cache, ready, ctl, monitor, msgs, handlerVars, nextIP, faultVars,
                         deletions>>
      BY <1>20, <2>2, ZenonT(60) DEF SetNodeID
    <3> HIDE DEF nodes
    <3>3. pods' \in [Shards -> [Ordinals -> Pods]]
      BY <3>1, <3>2, LabelledType, ZenonT(60) DEF TypeOK
    <3> QED
      BY <3>1, <3>2, <3>3, EndReconcileType, ZenonT(60) DEF handlerVars, faultVars, TypeOK, TodoListed
  <2> QED
    BY <2>1, <2>2
<1>21. ASSUME NEW obj \in KVs, NEW ver \in Nat, NEW next \in {"publish", "finalizer"},
              WorkerUpdate(obj, ver, next)
       PROVE  TypeInv'
  <2>1. Stored(obj) \in KVs
    BY Zenon, StoredType DEF TypeOK
  <2> QED
    BY ZenonT(60), <1>21, <2>1, EndReconcileType DEF WorkerUpdate, handlerVars, faultVars, TypeOK, TodoListed
<1>22. /\ kv \in KVs /\ inst \in KVs /\ hinst \in KVs /\ version \in Nat
       /\ stsNodes \in [Shards -> Seq(Nodes)]
  BY DEF TypeOK
<1>23. CASE SetRunning
  <2>1. [inst EXCEPT !.status = "Running"] \in KVs
    BY <1>22, Zenon DEF KVs
  <2> QED
    BY <1>21, <1>22, <1>23, <2>1 DEF SetRunning
<1>24. CASE Publish
  <2>1. PICK ver \in Nat : WorkerUpdate(WithTopo(inst, stsNodes, ver), ver, "finalizer")
    BY <1>22, <1>24 DEF Publish
  <2>2. WithTopo(inst, stsNodes, ver) \in KVs
    BY <1>22, WithTopoType
  <2> QED
    BY <1>21, <2>1, <2>2
<1>25. CASE AddFinalizer
  <2> DEFINE obj == WithTopo(inst, stsNodes, version)
  <2>1. obj \in KVs
    BY <1>22, WithTopoType
  <2> HIDE DEF obj
  <2>2. [obj EXCEPT !.finalizer = TRUE] \in KVs
    BY <2>1, ZenonT(60) DEF KVs
  <2>3. kv' \in KVs
    BY Zenon, <1>22, <1>25, <2>2, StoredType DEF AddFinalizer, obj
  <2> QED
    BY <1>25, <2>3, EndReconcileType, ZenonT(60) DEF AddFinalizer, handlerVars, faultVars, TypeOK, TodoListed
<1>26. CASE OperatorKilled
  BY <1>26, EndReconcileType, NewTypes, SMTT(30) DEF OperatorKilled, ProcessDies, Fault, clusterVars,
                                           TypeOK, TodoListed
<1>27. ASSUME NEW m \in msgs, handleFailover(m) PROVE TypeInv'
  BY <1>27, Zenon DEF handleFailover, clusterVars, workerVars, handlerVars, faultVars, TypeOK,
               TodoListed, Positions
<1>28. hmsg.shard \in Shards /\ hmsg \in Messages
  BY Zenon DEF TypeOK, Messages
<1>29. ASSUME NEW new, Promote(hmsg.shard, new)
       PROVE  \A s \in Shards : IsRoles(ctl'[s])
  BY <1>18, <1>28, <1>29, RolesType, SMTT(30) DEF Promote, IsRoles, Promoted
<1>30. CASE FailoverShard
  <2>1. \A s \in Shards : IsRoles(ctl'[s])
    BY <1>18, <1>29, <1>30, ZenonT(60) DEF FailoverShard
  <2>2. monitor' \in [Shards -> Nat]
    <3>1. \/ UNCHANGED monitor
          \/ monitor' = IF IsMasterFailover(hinst.topo[hmsg.shard], hmsg.ip)
                        THEN [monitor EXCEPT ![hmsg.shard] = 0] ELSE monitor
      BY <1>30 DEF FailoverShard
    <3>2. monitor \in [Shards -> Nat]
      BY Zenon DEF TypeOK
    <3>3. 0 \in Nat
      OBVIOUS
    <3>4. [monitor EXCEPT ![hmsg.shard] = 0] \in [Shards -> Nat]
      BY <3>2, <3>3, Zenon
    <3> QED
      BY <3>1, <3>2, <3>4, Zenon
  <2>3. CASE ProcessDies
    BY <1>30, <2>1, <2>2, <2>3, EndReconcileType, NewTypes, ZenonT(60)
       DEF FailoverShard, ProcessDies, faultVars, TypeOK, TodoListed, IsRoles
  <2>4. CASE ~ProcessDies
    <3>1. /\ hpc' \in {"nodes", "fail"}
          /\ UNCHANGED <<kv, cache, pods, ready, workerVars, msgs, hmsg, hinst, retries, nextIP,
                         faultVars, deletions>>
      BY <1>30, <2>4, ZenonT(60) DEF FailoverShard
    <3> QED
      BY <2>1, <2>2, <3>1, ZenonT(60) DEF workerVars, faultVars, TypeOK, TodoListed, Positions,
                                          IsRoles
  <2> QED
    BY <2>3, <2>4
<1>31. CASE FailoverShardLost
  <2>1. \A s \in Shards : IsRoles(ctl'[s])
    BY <1>18, <1>29, <1>31, ZenonT(60) DEF FailoverShardLost
  <2> QED
    <3>1. faults' \in 0..MaxFaults /\ podFaults' = podFaults
      BY <1>31, FaultsAssumption DEF FailoverShardLost, Fault, TypeOK
    <3>2. /\ hpc' = "fail"
          /\ UNCHANGED <<kv, cache, pods, ready, monitor, workerVars, msgs, hmsg, hinst, retries,
                         nextIP, deletions>>
      BY <1>31, ZenonT(60) DEF FailoverShardLost
    <3> QED
      BY <2>1, <3>1, <3>2, ZenonT(60) DEF workerVars, TypeOK, TodoListed, Positions, IsRoles
<1>32. ASSUME EndHandler PROVE hpc' = "idle" /\ hmsg' \in Messages /\ hinst' \in KVs
  BY Zenon, <1>32, NewTypes DEF EndHandler
<1>33. CASE MarkFailed
  <2>1. [hinst EXCEPT !.status = "Failed", !.version = 0, !.topo = NoTopo] \in KVs
    <3>1. NoTopo \in Topos
      BY DEF NoTopo, Topos
    <3> QED
      BY <1>22, <3>1, ExceptType, ZenonT(60)
  <2>2. kv' \in KVs
    BY <1>22, <1>33, <2>1, StoredType DEF MarkFailed
  <2>3. /\ hpc' = "idle" /\ hmsg' \in Messages /\ hinst' \in KVs
        /\ msgs' \subseteq Messages /\ retries' \in 0..MaxRetries
    BY <1>32, <1>33, SMTT(30) DEF MarkFailed, HandlerError, TypeOK
  <2> QED
    BY <1>33, <2>2, <2>3, ZenonT(60) DEF MarkFailed, workerVars, faultVars, TypeOK, TodoListed, Positions
<1>34. CASE GetNodes
  <2>1. hinst' \in KVs
    <3>1. CASE UNCHANGED hinst
      BY <1>22, <3>1, Zenon
    <3>2. ASSUME NEW master \in Masters(hmsg.shard),
                 hinst' = [hinst EXCEPT !.version = @ + 1,
                             !.topo[hmsg.shard] = AfterFailover(@, hmsg.ip, ctl[hmsg.shard], master)]
          PROVE  hinst' \in KVs
      <4> DEFINE new == AfterFailover(hinst.topo[hmsg.shard], hmsg.ip, ctl[hmsg.shard], master)
      <4>1. hinst.topo \in Topos /\ master \in Nat
        BY <1>18, <1>22, <1>28, Zenon DEF KVs, Masters, MastersIn, IsRoles
      <4>2. new \in Seq(TopoNodes)
        BY Zenon, <1>18, <1>28, <4>1, AfterFailoverType DEF IsRoles, Topos
      <4>3. hinst' = [hinst EXCEPT !.version = @ + 1,
                                   !.topo = [hinst.topo EXCEPT ![hmsg.shard] = new]]
        BY Zenon, <3>2
      <4> HIDE DEF new
      <4>4. [hinst.topo EXCEPT ![hmsg.shard] = new] \in Topos
        BY Zenon, <1>28, <4>1, <4>2 DEF Topos
      <4> DEFINE topo == [hinst.topo EXCEPT ![hmsg.shard] = new]
      <4>5. topo \in Topos /\ hinst' = [hinst EXCEPT !.version = hinst.version + 1, !.topo = topo]
        BY <4>3, <4>4, Zenon
      <4> HIDE DEF topo
      <4> QED
        <5>1. hinst.version + 1 \in Nat
          BY SMTT(30), <1>22 DEF KVs
        <5> QED
          BY <1>22, <4>5, <5>1, ExceptType, ZenonT(60)
    <3> QED
      BY <1>34, <3>1, <3>2, ZenonT(60) DEF GetNodes
  <2> QED
    BY <1>34, <2>1, ZenonT(60) DEF GetNodes, clusterVars, workerVars, faultVars, TypeOK, TodoListed,
                       Positions
<1>35. CASE UpdateTopo
  <2>1. kv' \in KVs
    BY <1>22, <1>35, StoredType DEF UpdateTopo
  <2> QED
    BY <1>32, <1>35, <2>1, SMTT(30) DEF UpdateTopo, HandlerError, workerVars, faultVars, TypeOK,
                              TodoListed, Positions
<1> QED
  BY Zenon, <1>1, <1>2, <1>3, <1>4, <1>5, <1>6, <1>7, <1>10, <1>11, <1>13, <1>14, <1>15, <1>16, <1>17,
     <1>19, <1>20, <1>23, <1>24, <1>25, <1>26, <1>27, <1>30, <1>31, <1>33, <1>34, <1>35
  DEF Next, WorkerStep, HandlerStep

-----------------------------------------------------------------------------
(* How a step moves the object and the copies of it *)

\* The types of what the worker and the handler work on.
LEMMA TypeFacts ==
  ASSUME TypeInv
  PROVE  /\ kv \in KVs /\ cache \in KVs /\ inst \in KVs /\ hinst \in KVs
         /\ version \in Nat /\ stsNodes \in [Shards -> Seq(Nodes)]
         /\ hmsg \in Messages
BY ZenonT(60) DEF TypeInv, TypeOK

\* An Update that the API server accepts moves the resourceVersion on, unless it
\* changes nothing.
LEMMA StoredFacts ==
  ASSUME kv \in KVs, NEW obj \in KVs, Accepts(obj)
  PROVE  /\ Stored(obj) = kv \/ Stored(obj).rv = kv.rv + 1
         /\ Stored(obj).status = obj.status
         /\ Stored(obj).version = obj.version
         /\ Stored(obj).topo = obj.topo
BY DEF Stored, Accepts, KVs

\* The object that ensureStatusTopoMsg sends.
LEMMA WithTopoFacts ==
  ASSUME NEW obj \in KVs, NEW nodes \in [Shards -> Seq(Nodes)], NEW ver \in Nat
  PROVE  /\ WithTopo(obj, nodes, ver).rv = obj.rv
         /\ WithTopo(obj, nodes, ver).status = obj.status
         /\ WithTopo(obj, nodes, ver).version = ver
         /\ WithTopo(obj, nodes, ver).topo = [s \in Shards |-> TopoOf(nodes[s])]
BY Zenon DEF WithTopo, KVs

\* The steps that leave both threads of the operator and the object alone.
Outside ==
  \/ CacheSync
  \/ \E s \in Shards, o \in Ordinals : PodCrash(s, o) \/ PodEvict(s, o) \/ PodStep(s, o)
  \/ \E s \in Shards : StatusSync(s) \/ Odown(s) \/ EnsureMonitor(s)
  \/ UNCHANGED vars

\* Such a step changes neither the object nor what a thread knows; the cache may
\* catch up.
LEMMA OutsideFacts ==
  ASSUME Outside
  PROVE  UNCHANGED <<kv, workerVars, handlerVars>> /\ cache' \in {cache, kv}
BY ZenonT(60) DEF Outside, CacheSync, PodCrash, PodEvict, PodStep, ContainerRestart, PodGone, PodCreate,
       StatusSync, Odown, EnsureMonitor, vars, clusterVars

\* A step of the worker leaves the handler alone, or ends it with the process.
LEMMA WorkerFacts ==
  ASSUME WorkerStep
  PROVE  /\ UNCHANGED cache
         /\ UNCHANGED handlerVars \/ hpc' = "idle"
BY ZenonT(60) DEF WorkerStep, Reconcile, ListPods, FixTopo, Ping, DeletePod, EndFailover, EnsureConfig,
       EnsureRoles, CreateCluster, RemoveNodes, AddNodes, SetNodeID, SetRunning, Publish,
       AddFinalizer, WorkerUpdate, Abort, Panic, ProcessDies, OthersUnchanged, clusterVars

\* The steps of the failover handler, and the end of the process.
HandlerNext == \/ \E m \in msgs : handleFailover(m)
               \/ HandlerStep
               \/ FailoverShardLost
               \/ OperatorKilled

\* A step of the handler leaves the worker alone, or ends it with the process.
LEMMA HandlerFacts ==
  ASSUME HandlerNext
  PROVE  /\ UNCHANGED cache
         /\ UNCHANGED workerVars \/ pc' = "idle"
BY ZenonT(60) DEF HandlerNext, HandlerStep, handleFailover, FailoverShard, FailoverShardLost, MarkFailed,
       GetNodes, UpdateTopo, OperatorKilled, ProcessDies, EndReconcile, clusterVars, workerVars

\* Every step is a step of one of the three.
LEMMA NextCases ==
  ASSUME [Next]_vars
  PROVE  Outside \/ WorkerStep \/ HandlerNext
BY Zenon DEF Next, Outside, HandlerNext

\* Nobody writes the object without moving its resourceVersion on.
KvMoves == kv' = kv \/ kv'.rv = kv.rv + 1

\* The worker reads the cache when it starts, and holds what it has stored when
\* it goes on after an update.
LEMMA WorkerMoves ==
  ASSUME TypeInv, WorkerStep
  PROVE  /\ KvMoves
         /\ \/ pc' = "idle"
            \/ pc = "idle" /\ inst' = cache /\ kv' = kv
            \/ pc # "idle" /\ inst' = inst
            \/ pc # "idle" /\ inst' = kv'
<1> DEFINE Goal == /\ KvMoves
                   /\ \/ pc' = "idle"
                      \/ pc = "idle" /\ inst' = cache /\ kv' = kv
                      \/ pc # "idle" /\ inst' = inst
                      \/ pc # "idle" /\ inst' = kv'
<1>1. CASE Reconcile \/ ListPods \/ FixTopo \/ Ping \/ DeletePod \/ EnsureConfig \/ EnsureRoles
           \/ CreateCluster \/ RemoveNodes \/ AddNodes \/ SetNodeID
  BY <1>1, ZenonT(60) DEF Reconcile, ListPods, FixTopo, Ping, DeletePod, EnsureConfig, EnsureRoles,
              CreateCluster, RemoveNodes, AddNodes, SetNodeID, Abort, Panic, ProcessDies,
              EndReconcile, OthersUnchanged, clusterVars, KvMoves
<1>2. /\ kv \in KVs /\ inst \in KVs /\ version \in Nat
      /\ stsNodes \in [Shards -> Seq(Nodes)]
  BY TypeFacts, ZenonT(60)
<1>3. CASE EndFailover
  <2> DEFINE obj == WithTopo(inst, stsNodes, version + 1)
  <2>1. obj \in KVs /\ obj.rv = inst.rv
    <3>1. version + 1 \in Nat
      BY <1>2
    <3> QED
      BY <1>2, <3>1, WithTopoType, WithTopoFacts, ZenonT(60)
  <2>2. kv' = kv \/ (Accepts(inst) /\ kv' = Stored(obj))
    <3>1. \/ kv' = IF Accepts(inst) THEN Stored(obj) ELSE kv
          \/ OthersUnchanged
      BY <1>3 DEF EndFailover, Abort
    <3> QED
      BY <3>1 DEF OthersUnchanged, clusterVars
  <2> HIDE DEF obj
  <2>3. KvMoves
    BY <1>2, <2>1, <2>2, StoredFacts, Zenon DEF Accepts, KvMoves
  <2> QED
    BY <1>3, <2>3, Zenon DEF EndFailover, Abort, EndReconcile
<1>4. ASSUME NEW obj \in KVs, NEW ver, NEW next, pc # "idle", WorkerUpdate(obj, ver, next)
      PROVE  Goal
  BY <1>2, <1>4, StoredFacts DEF WorkerUpdate, EndReconcile, KvMoves
<1>5. CASE SetRunning
  <2>1. [inst EXCEPT !.status = "Running"] \in KVs
    BY Zenon, <1>2 DEF KVs
  <2> QED
    BY <1>4, <1>5, <2>1 DEF SetRunning
<1>6. CASE Publish
  <2>1. PICK ver \in Nat : WorkerUpdate(WithTopo(inst, stsNodes, ver), ver, "finalizer")
    BY <1>2, <1>6 DEF Publish
  <2>2. WithTopo(inst, stsNodes, ver) \in KVs
    BY <1>2, WithTopoType
  <2> QED
    BY Zenon, <1>4, <1>6, <2>1, <2>2 DEF Publish
<1>7. CASE AddFinalizer
  <2> DEFINE obj == WithTopo(inst, stsNodes, version)
  <2>1. obj \in KVs /\ obj.rv = inst.rv
    BY <1>2, WithTopoType, WithTopoFacts, ZenonT(60)
  <2> HIDE DEF obj
  <2>2. [obj EXCEPT !.finalizer = TRUE] \in KVs /\ [obj EXCEPT !.finalizer = TRUE].rv = obj.rv
    BY <2>1, ZenonT(60) DEF KVs
  <2>3. KvMoves
    BY <1>2, <1>7, <2>1, <2>2, StoredFacts, ZenonT(60) DEF AddFinalizer, obj, Accepts, KvMoves
  <2> QED
    BY <1>7, <2>3, Zenon DEF AddFinalizer, EndReconcile
<1> QED
  BY <1>1, <1>3, <1>5, <1>6, <1>7, Zenon DEF WorkerStep

\* The handler reads the cache when it starts, and changes its copy once.
LEMMA HandlerMoves ==
  ASSUME TypeInv, HandlerNext
  PROVE  /\ KvMoves
         /\ \/ hpc' = "idle"
            \/ hpc' = "failover" /\ hinst' = cache /\ kv' = kv
            \/ hpc \in {"failover", "nodes"} /\ hpc' \in {"nodes", "fail"} /\ hinst' = hinst
            \/ /\ hpc = "nodes" /\ hpc' = "update" /\ kv' = kv
               /\ hinst'.rv = hinst.rv /\ hinst'.status = hinst.status
               /\ hinst'.version = hinst.version + 1
<1>1. kv \in KVs /\ hinst \in KVs
  BY TypeFacts, ZenonT(60)
<1>2. CASE \E m \in msgs : handleFailover(m)
  BY <1>2, Zenon DEF handleFailover, clusterVars, handlerVars, KvMoves
<1>3. CASE FailoverShard \/ FailoverShardLost \/ OperatorKilled
  BY <1>3 DEF FailoverShard, FailoverShardLost, OperatorKilled, ProcessDies, clusterVars, KvMoves
<1>4. CASE MarkFailed
  <2> DEFINE obj == [hinst EXCEPT !.status = "Failed", !.version = 0, !.topo = NoTopo]
  <2>1. obj \in KVs /\ obj.rv = hinst.rv
    <3>1. NoTopo \in Topos
      BY DEF NoTopo, Topos
    <3> QED
      BY <1>1, <3>1, ExceptType, ZenonT(60) DEF KVs
  <2> HIDE DEF obj
  <2>2. KvMoves
    BY <1>1, <1>4, <2>1, StoredFacts, ZenonT(60) DEF MarkFailed, obj, Accepts, KvMoves
  <2> QED
    BY <1>4, <2>2, Zenon DEF MarkFailed, HandlerError, EndHandler
<1>5. CASE GetNodes
  BY <1>1, <1>5, ZenonT(60) DEF GetNodes, clusterVars, KVs, KvMoves
<1>6. CASE UpdateTopo
  BY Zenon, <1>1, <1>6, StoredFacts DEF UpdateTopo, HandlerError, EndHandler, KvMoves
<1> QED
  BY Zenon, <1>2, <1>3, <1>4, <1>5, <1>6 DEF HandlerNext, HandlerStep

-----------------------------------------------------------------------------
(* The inductive invariant *)

\* A copy stays one when the object moves.
LEMMA CopyStays ==
  ASSUME TypeInv, TypeInv', KvMoves
  PROVE  /\ IsCopy(cache) /\ UNCHANGED cache => IsCopy(cache)'
         /\ IsCopy(inst) /\ UNCHANGED inst => IsCopy(inst)'
         /\ IsCopy(hinst) /\ UNCHANGED hinst => IsCopy(hinst)'
<1>1. kv.rv \in Nat /\ cache.rv \in Nat /\ inst.rv \in Nat /\ hinst.rv \in Nat
  BY TypeFacts, Zenon DEF KVs
<1> QED
  BY <1>1, SMTT(30) DEF KvMoves, IsCopy

\* Every copy stays a copy of the object as it was at that resourceVersion.
LEMMA CopiesStep ==
  ASSUME TypeInv, TypeInv', CopiesInv, [Next]_vars
  PROVE  CopiesInv'
<1>1. kv.rv \in Nat /\ cache.rv \in Nat /\ inst.rv \in Nat /\ hinst.rv \in Nat /\ kv'.rv \in Nat
  <2>1. kv' \in KVs
    BY ZenonT(60) DEF TypeInv, TypeOK, KVs
  <2> QED
    BY <2>1, TypeFacts, Zenon DEF KVs
<1>2. CASE Outside
  BY <1>1, <1>2, OutsideFacts, SMTT(30) DEF CopiesInv, IsCopy, workerVars, handlerVars
<1>3. CASE WorkerStep
  <2>1. KvMoves /\ UNCHANGED cache
    BY <1>3, WorkerMoves, WorkerFacts, Zenon
  <2>2. IsCopy(cache)'
    BY <2>1, CopyStays, Zenon DEF CopiesInv
  <2>3. pc' # "idle" => IsCopy(inst)'
    BY SMTT(30), <1>1, <1>3, <2>1, WorkerMoves, CopyStays DEF CopiesInv, IsCopy
  <2>4. UNCHANGED handlerVars \/ hpc' = "idle"
    BY <1>3, WorkerFacts, Zenon
  <2> QED
    BY <1>1, <2>1, <2>2, <2>3, <2>4, CopyStays, SMTT(30) DEF CopiesInv, handlerVars, KvMoves
<1>4. CASE HandlerNext
  <2>1. KvMoves /\ UNCHANGED cache
    BY <1>4, HandlerMoves, HandlerFacts, Zenon
  <2>2. IsCopy(cache)'
    BY <2>1, CopyStays DEF CopiesInv
  <2>3. pc' # "idle" => IsCopy(inst)'
    BY <1>4, <2>1, HandlerFacts, CopyStays, Zenon DEF CopiesInv, workerVars
  <2>4. /\ hpc' \in {"failover", "nodes", "fail"} => IsCopy(hinst)'
        /\ hpc' = "update" => /\ hinst'.rv <= kv'.rv
                              /\ hinst'.rv = kv'.rv => /\ hinst'.status = kv'.status
                                                       /\ hinst'.version = kv'.version + 1
    BY <1>1, <1>4, <2>1, HandlerMoves, CopyStays, Zenon DEF CopiesInv, IsCopy
  <2> QED
    BY Zenon, <2>2, <2>3, <2>4 DEF CopiesInv
<1> QED
  BY <1>2, <1>3, <1>4, NextCases, Zenon

\* A mark in the hands of the worker comes from the topology it has read.
LEMMA MarksStep ==
  ASSUME TypeInv, TypeInv', MarksInv, [Next]_vars
  PROVE  MarksInv'
<1>1. ASSUME pc' = "idle", change' = FALSE PROVE MarksInv'
  BY <1>1 DEF MarksInv
<1>2. ASSUME EndReconcile PROVE MarksInv'
  BY <1>1, <1>2, ZenonT(60) DEF EndReconcile
<1>3. ASSUME Abort \/ Panic PROVE MarksInv'
  BY Zenon, <1>2, <1>3 DEF Abort, Panic, ProcessDies
<1>4. ASSUME UNCHANGED workerVars PROVE MarksInv'
  BY <1>4 DEF workerVars, MarksInv
<1>5. CASE Outside
  BY <1>4, <1>5, OutsideFacts
<1>6. CASE HandlerNext
  BY <1>2, <1>4, <1>6, ZenonT(60) DEF HandlerNext, HandlerStep, handleFailover, FailoverShard,
     FailoverShardLost, MarkFailed, GetNodes, UpdateTopo, OperatorKilled, ProcessDies
<1>7. CASE Reconcile
  BY <1>7 DEF Reconcile, MarksInv
<1>8. CASE ListPods
  <2>1. CASE Abort
    BY <1>3, <2>1, Zenon
  <2>2. CASE ~Abort
    <3>1. ASSUME NEW s \in Shards, NEW j \in 1..Len(stsNodes'[s]) PROVE ~stsNodes'[s][j].failover
      <4>1. PICK n \in 0..Replicas : \E order \in [1..n -> Ordinals] :
              stsNodes'[s] = [k \in 1..n |-> NewNode(pods[s][order[k]].ip, order[k])]
        BY <1>8, <2>2, ListedNodes, Zenon
      <4>2. PICK order \in [1..n -> Ordinals] :
              stsNodes'[s] = [k \in 1..n |-> NewNode(pods[s][order[k]].ip, order[k])]
        BY <4>1, Zenon
      <4>3. Len(stsNodes'[s]) = n
        BY <4>2, ReplicasAssumption, SMTT(30)
      <4>4. stsNodes'[s][j] = NewNode(pods[s][order[j]].ip, order[j])
        BY <4>2, <4>3, Zenon
      <4> QED
        BY <4>4, SMTT(60) DEF NewNode
    <3>2. pc' = "topo" /\ change' = change
      BY <1>8, <2>2, ZenonT(60) DEF ListPods
    <3>3. ~change
      BY <1>8, ZenonT(60) DEF ListPods, MarksInv
    <3> QED
      BY <3>1, <3>2, <3>3, ZenonT(60) DEF MarksInv
  <2> QED
    BY <2>1, <2>2
<1>9. CASE FixTopo
  <2>1. CASE Abort \/ Panic
    BY <1>3, <2>1, Zenon
  <2>2. CASE ~(Abort \/ Panic)
    <3>1. ASSUME inst.topo = NoTopo, NEW s \in Shards, NEW j \in 1..Len(stsNodes'[s])
          PROVE  ~stsNodes'[s][j].failover
      <4>1. stsNodes[s] \in Seq(Nodes)
        BY TypeFacts, ZenonT(60)
      <4>2. stsNodes'[s] = FixNodes(stsNodes[s], <<>>)
        BY <1>9, <2>2, <3>1, Zenon DEF FixTopo, NoTopo
      <4>3. stsNodes'[s] = [k \in 1..Len(stsNodes[s]) |-> stsNodes[s][k]]
        <5>1. \A k \in 1..Len(stsNodes[s]) : k > Len(<<>>)
          BY SMTT(30), <4>1
        <5> QED
          BY <4>2, <5>1, ZenonT(60) DEF FixNodes
      <4>4. Len(stsNodes'[s]) = Len(stsNodes[s])
        BY <4>1, <4>3, SMTT(30)
      <4> QED
        BY <1>9, <4>3, <4>4, Zenon DEF FixTopo, MarksInv
    <3> QED
      BY <1>9, <2>2, <3>1, SMTT(30) DEF FixTopo, MarksInv
  <2> QED
    BY Zenon, <2>1, <2>2
<1>10. CASE Ping
  <2>1. PICK p \in todo :
          \/ /\ stsNodes[p[1]][p[2]].failover
             /\ UNCHANGED <<pc, inst>>
          \/ /\ stsNodes[p[1]][p[2]].failover
             /\ pc' = "delete"
             /\ UNCHANGED <<inst, change>>
          \/ UNCHANGED <<pc, inst, stsNodes, change>>
    BY <1>10, ZenonT(60) DEF Ping
  <2>2. p[1] \in Shards /\ p[2] \in 1..Len(stsNodes[p[1]])
    <3>1. p \in Positions(stsNodes) /\ stsNodes \in [Shards -> Seq(Nodes)]
      BY <1>10, ZenonT(60) DEF Ping, TypeInv, TypeOK, TodoListed
    <3> QED
      BY <3>1 DEF Positions, Ordinals
  <2>3. stsNodes[p[1]][p[2]].failover => inst.topo # NoTopo
    BY <1>10, <2>2, ZenonT(60) DEF Ping, MarksInv
  <2> QED
    <3>1. CASE inst.topo # NoTopo
      <4>1. inst' = inst /\ pc' \in {"ping", "delete"}
        BY <1>10, <2>1, ZenonT(60) DEF Ping
      <4> QED
        BY <3>1, <4>1, ZenonT(60) DEF MarksInv
    <3>2. CASE inst.topo = NoTopo
      <4>1. UNCHANGED <<pc, inst, stsNodes, change>>
        BY <2>1, <2>3, <3>2, ZenonT(60)
      <4> QED
        BY <1>10, <4>1, ZenonT(60) DEF Ping, MarksInv
    <3> QED
      BY <3>1, <3>2
<1>11. CASE DeletePod
  BY <1>3, <1>11, ZenonT(60) DEF DeletePod, MarksInv
<1>12. CASE EndFailover \/ EnsureConfig \/ EnsureRoles \/ CreateCluster \/ RemoveNodes \/ AddNodes
            \/ SetNodeID \/ SetRunning \/ Publish \/ AddFinalizer
  <2>1. \/ EndReconcile
        \/ pc' \notin {"idle", "list", "topo", "ping", "delete"}
    BY <1>12, ZenonT(60) DEF EndFailover, EnsureConfig, EnsureRoles, CreateCluster, RemoveNodes, AddNodes,
                 SetNodeID, SetRunning, Publish, AddFinalizer, WorkerUpdate, Abort, Panic,
                 ProcessDies
  <2> QED
    BY <1>2, <2>1, Zenon DEF MarksInv
<1> QED
  BY <1>5, <1>6, <1>7, <1>8, <1>9, <1>10, <1>11, <1>12, NextCases, Zenon DEF WorkerStep

\* The worker keeps the version of the copy it works from.
LEMMA WorkerInvStep ==
  ASSUME TypeInv, TypeInv', WorkerInv, [Next]_vars
  PROVE  WorkerInv'
<1>1. ASSUME pc' = "idle" PROVE WorkerInv'
  BY <1>1, Zenon DEF WorkerInv
<1>2. ASSUME UNCHANGED workerVars PROVE WorkerInv'
  BY Zenon, <1>2 DEF workerVars, WorkerInv
<1>3. CASE Outside
  BY <1>2, <1>3, OutsideFacts
<1>4. CASE HandlerNext
  BY <1>1, <1>2, <1>4, HandlerFacts, Zenon
<1>5. CASE Reconcile \/ ListPods
  BY <1>5, Zenon DEF Reconcile, ListPods, Abort, EndReconcile, WorkerInv
<1>6. CASE FixTopo
  BY Zenon, <1>6 DEF FixTopo, Abort, Panic, ProcessDies, EndReconcile, WorkerInv
<1>7. CASE Ping \/ DeletePod \/ EndFailover \/ EnsureConfig \/ EnsureRoles \/ CreateCluster
           \/ RemoveNodes \/ AddNodes \/ SetNodeID
  <2>1. \/ pc' = "idle"
        \/ /\ pc \notin {"idle", "list", "topo"} /\ pc' # "finalizer"
           /\ UNCHANGED <<inst, version>>
    BY <1>7, ZenonT(60) DEF Ping, DeletePod, EndFailover, EnsureConfig, EnsureRoles, CreateCluster,
                RemoveNodes, AddNodes, SetNodeID, Abort, Panic, ProcessDies, EndReconcile
  <2> QED
    BY <2>1, Zenon DEF WorkerInv
<1>8. /\ kv \in KVs /\ inst \in KVs /\ version \in Nat
      /\ stsNodes \in [Shards -> Seq(Nodes)]
  BY TypeFacts, ZenonT(60)
<1>9. CASE SetRunning
  <2> DEFINE obj == [inst EXCEPT !.status = "Running"]
  <2>1. obj \in KVs /\ obj.version = inst.version
    BY <1>8 DEF KVs
  <2> HIDE DEF obj
  <2>2. \/ pc' = "idle"
        \/ pc' = "publish" /\ inst'.version = inst.version /\ version' = version
    BY <1>8, <1>9, <2>1, StoredFacts, ZenonT(60) DEF SetRunning, WorkerUpdate, EndReconcile, obj
  <2> QED
    BY <1>9, <2>2 DEF SetRunning, WorkerInv
<1>10. CASE Publish
  <2>1. PICK ver \in Nat : WorkerUpdate(WithTopo(inst, stsNodes, ver), ver, "finalizer")
    BY <1>8, <1>10 DEF Publish
  <2> DEFINE obj == WithTopo(inst, stsNodes, ver)
  <2>2. /\ obj \in KVs /\ obj.version = ver
        /\ obj.topo = [s \in Shards |-> TopoOf(stsNodes[s])]
    BY <1>8, WithTopoType, WithTopoFacts, ZenonT(60)
  <2> HIDE DEF obj
  <2>3. \/ pc' = "idle"
        \/ /\ inst'.version = ver /\ version' = ver /\ stsNodes' = stsNodes
           /\ inst'.topo = [s \in Shards |-> TopoOf(stsNodes[s])]
    BY <1>8, <2>1, <2>2, StoredFacts, ZenonT(60) DEF WorkerUpdate, EndReconcile, obj
  <2> QED
    BY <2>3 DEF WorkerInv
<1>11. CASE AddFinalizer
  BY <1>1, <1>11 DEF AddFinalizer, EndReconcile
<1> QED
  BY <1>3, <1>4, <1>5, <1>6, <1>7, <1>9, <1>10, <1>11, NextCases, Zenon DEF WorkerStep

\* What a reader sees of a topology is an address and a role for each node, and
\* nothing before one is published.
LEMMA ViewType ==
  ASSUME NEW topo \in Topos
  PROVE  View(topo) \in Views
<1>1. ASSUME NEW s \in Shards PROVE View(topo)[s] \in Seq(Nat \X Roles)
  <2>1. topo[s] \in Seq(TopoNodes) /\ Len(topo[s]) \in Nat
    BY DEF Topos
  <2>2. \A j \in 1..Len(topo[s]) : topo[s][j] \in TopoNodes
    BY SMTT(30), <2>1
  <2>3. [j \in 1..Len(topo[s]) |-> <<topo[s][j].ip, topo[s][j].role>>]
          \in [1..Len(topo[s]) -> Nat \X Roles]
    BY <2>2 DEF TopoNodes
  <2> QED
    BY <2>1, <2>3, IsSequence, ZenonT(60) DEF View
<1> QED
  BY <1>1 DEF View, Views

\* Nothing published, nothing to see.
LEMMA ViewOfNothing == View(NoTopo) = NoTopo
<1>1. \A s \in Shards : View(NoTopo)[s] = <<>>
  <2>1. \A s \in Shards : NoTopo[s] = <<>> /\ Len(NoTopo[s]) = 0
    BY Zenon DEF NoTopo
  <2> QED
    BY <2>1 DEF View
<1> QED
  BY Zenon, <1>1 DEF View, NoTopo

\* When ensureVersion finds no change, there is none to see.
LEMMA ViewUnchanged ==
  ASSUME NEW topo \in Topos, NEW nodes \in [Shards -> Seq(Nodes)], ~ShouldBump(topo, nodes)
  PROVE  View([s \in Shards |-> TopoOf(nodes[s])]) = View(topo)
<1> DEFINE new == [s \in Shards |-> TopoOf(nodes[s])]
<1>1. ASSUME NEW s \in Shards PROVE View(new)[s] = View(topo)[s]
  <2>1. topo[s] \in Seq(TopoNodes) /\ nodes[s] \in Seq(Nodes)
    BY Zenon DEF Topos
  <2>2. /\ Len(topo[s]) = Len(nodes[s])
        /\ \A j \in 1..Len(topo[s]) : /\ topo[s][j].ip = nodes[s][j].ip
                                      /\ topo[s][j].role = nodes[s][j].role
    BY DEF ShouldBump, ChangedSince
  <2>3. Len(new[s]) = Len(nodes[s])
    BY <2>1, TopoOfType, Zenon
  <2>4. \A j \in 1..Len(nodes[s]) : /\ new[s][j].ip = nodes[s][j].ip
                                   /\ new[s][j].role = nodes[s][j].role
    BY Zenon DEF TopoOf
  <2> HIDE DEF new
  <2> QED
    BY ZenonT(60), <2>2, <2>3, <2>4 DEF View
<1> QED
  BY <1>1, Zenon DEF View

\* What the worker writes, if it writes at all.
LEMMA WorkerWrites ==
  ASSUME ClusterInv, WorkerStep, kv' # kv
  PROVE  /\ inst = kv /\ inst.status # "Failed" /\ Shown(inst) /\ kv' \in KVs
         /\ \/ /\ pc' = "idle" /\ kv'.status = "Running" /\ kv.status = "Running"
               /\ kv'.version = kv.version + 1
            \/ /\ pc' = "publish" /\ inst' = kv' /\ kv'.status = "Running"
               /\ kv.status = "Creating"
               /\ kv'.version = kv.version /\ kv'.topo = kv.topo
            \/ /\ pc' = "finalizer" /\ inst' = kv' /\ kv'.status = "Running"
               /\ kv.status = "Running"
               /\ \/ kv'.version = kv.version + 1
                  \/ kv'.version = kv.version /\ View(kv'.topo) = View(kv.topo)
            \/ /\ pc' = "idle" /\ kv'.status = "Running" /\ kv.status = "Running"
               /\ kv'.version = kv.version /\ kv'.topo = kv.topo
<1> USE DEF ClusterInv
<1>1. /\ kv \in KVs /\ inst \in KVs /\ version \in Nat /\ version + 1 \in Nat
      /\ stsNodes \in [Shards -> Seq(Nodes)]
  <2>1. /\ kv \in KVs /\ inst \in KVs /\ version \in Nat
        /\ stsNodes \in [Shards -> Seq(Nodes)]
    BY TypeFacts, ZenonT(60)
  <2> QED
    BY <2>1
<1>2. ASSUME pc # "idle", Accepts(inst)
      PROVE  inst = kv /\ inst.status # "Failed" /\ Shown(inst)
  BY <1>2 DEF Accepts, CopiesInv, IsCopy, StatusInv
<1>3. CASE Reconcile \/ ListPods \/ FixTopo \/ Ping \/ DeletePod \/ EnsureConfig \/ EnsureRoles
           \/ CreateCluster \/ RemoveNodes \/ AddNodes \/ SetNodeID
  BY <1>3, ZenonT(60) DEF Reconcile, ListPods, FixTopo, Ping, DeletePod, EnsureConfig, EnsureRoles,
              CreateCluster, RemoveNodes, AddNodes, SetNodeID, Abort, Panic, ProcessDies,
              OthersUnchanged, clusterVars
<1>4. CASE EndFailover
  <2> DEFINE obj == WithTopo(inst, stsNodes, version + 1)
  <2>1. /\ obj \in KVs /\ obj.rv = inst.rv /\ obj.status = inst.status
        /\ obj.version = version + 1
    BY <1>1, WithTopoType, WithTopoFacts, ZenonT(60)
  <2>2. change /\ EndReconcile /\ kv' = IF Accepts(inst) THEN Stored(obj) ELSE kv
    <3>1. ~OthersUnchanged
      BY DEF OthersUnchanged, clusterVars
    <3> QED
      BY <1>4, <3>1 DEF EndFailover, Abort
  <2> HIDE DEF obj
  <2>3. Accepts(inst) /\ Accepts(obj) /\ kv' = Stored(obj)
    BY <2>1, <2>2, Zenon DEF Accepts
  <2>4. inst.status = "Running" /\ version = inst.version
    BY <1>2, <1>4, <2>2, <2>3, ZenonT(60) DEF EndFailover, MarksInv, Shown, WorkerInv
  <2>5. kv' \in KVs /\ kv'.status = inst.status /\ kv'.version = version + 1
    BY <1>1, <2>1, <2>3, StoredFacts, StoredType, Zenon
  <2> QED
    BY <1>2, <1>4, <2>2, <2>3, <2>4, <2>5, Zenon DEF EndFailover, EndReconcile
<1>5. CASE SetRunning
  <2> DEFINE obj == [inst EXCEPT !.status = "Running"]
  <2>1. /\ obj \in KVs /\ obj.rv = inst.rv /\ obj.version = inst.version
        /\ obj.topo = inst.topo /\ obj.status = "Running"
        /\ inst.status = "Running" => obj = inst
    BY <1>1 DEF KVs
  <2>2. WorkerUpdate(obj, version, "publish")
    BY <1>5 DEF SetRunning
  <2> HIDE DEF obj
  <2>3. Accepts(obj) /\ kv' = Stored(obj) /\ inst' = kv' /\ pc' = "publish"
    BY <2>2 DEF WorkerUpdate
  <2>4. inst = kv /\ inst.status # "Failed" /\ Shown(inst)
    BY <1>2, <1>5, <2>1, <2>3 DEF SetRunning, Accepts
  <2>5. inst.status # "Running"
    BY Zenon, <2>1, <2>3, <2>4 DEF Stored
  <2>6. inst.status = "Creating"
    BY <1>1, <2>4, <2>5, Zenon DEF KVs
  <2>7. /\ kv' \in KVs /\ kv'.status = "Running" /\ kv'.version = kv.version
        /\ kv'.topo = kv.topo
    BY <1>1, <2>1, <2>3, <2>4, StoredFacts, StoredType, Zenon
  <2> QED
    BY <2>3, <2>4, <2>6, <2>7, Zenon
<1>6. CASE Publish
  <2> DEFINE ver == IF ShouldBump(inst.topo, stsNodes) THEN version + 1 ELSE version
             obj == WithTopo(inst, stsNodes, ver)
  <2>1. /\ ver \in Nat
        /\ ver = IF ShouldBump(inst.topo, stsNodes) THEN version + 1 ELSE version
    BY <1>1
  <2>3. WorkerUpdate(obj, ver, "finalizer")
    BY <1>6, Zenon DEF Publish
  <2> HIDE DEF ver
  <2>2. /\ obj \in KVs /\ obj.rv = inst.rv /\ obj.status = inst.status /\ obj.version = ver
        /\ obj.topo = [s \in Shards |-> TopoOf(stsNodes[s])]
    <3>1. obj \in KVs
      BY <1>1, <2>1, WithTopoType, Zenon
    <3>2. /\ obj.rv = inst.rv /\ obj.status = inst.status /\ obj.version = ver
          /\ obj.topo = [s \in Shards |-> TopoOf(stsNodes[s])]
      BY <1>1, <2>1, WithTopoFacts, ZenonT(180)
    <3> QED
      BY <3>1, <3>2, Zenon
  <2> HIDE DEF obj
  <2>4. Accepts(obj) /\ kv' = Stored(obj) /\ inst' = kv' /\ pc' = "finalizer"
    BY <2>3, Zenon DEF WorkerUpdate
  <2>5. inst = kv /\ inst.status # "Failed" /\ Shown(inst)
    BY <1>2, <1>6, <2>2, <2>4, ZenonT(60) DEF Publish, Accepts
  <2>6. inst.status = "Running" /\ version = inst.version
    BY <1>6, Zenon DEF Publish, StatusInv, WorkerInv
  <2>7. /\ kv' \in KVs /\ kv'.status = "Running" /\ kv'.version = ver
        /\ kv'.topo = [s \in Shards |-> TopoOf(stsNodes[s])]
    BY <1>1, <2>2, <2>4, <2>6, StoredFacts, StoredType, ZenonT(60)
  <2>8. ~ShouldBump(inst.topo, stsNodes) => View(kv'.topo) = View(kv.topo)
    BY <1>1, <2>5, <2>7, ViewUnchanged, ZenonT(60) DEF KVs
  <2> QED
    BY <2>1, <2>4, <2>5, <2>6, <2>7, <2>8, ZenonT(60)
<1>7. CASE AddFinalizer
  <2> DEFINE with == WithTopo(inst, stsNodes, version)
             obj == [with EXCEPT !.finalizer = TRUE]
  <2>1. /\ with \in KVs /\ with.rv = inst.rv /\ with.status = inst.status
        /\ with.version = version /\ with.topo = [s \in Shards |-> TopoOf(stsNodes[s])]
    <3>1. with \in KVs
      BY <1>1, WithTopoType, Zenon
    <3>2. /\ with.rv = inst.rv /\ with.status = inst.status /\ with.version = version
          /\ with.topo = [s \in Shards |-> TopoOf(stsNodes[s])]
      BY <1>1, WithTopoFacts, ZenonT(60)
    <3> QED
      BY ZenonT(60), <3>1, <3>2
  <2> HIDE DEF with
  <2>2. /\ obj \in KVs /\ obj.rv = inst.rv /\ obj.status = inst.status
        /\ obj.version = version /\ obj.topo = [s \in Shards |-> TopoOf(stsNodes[s])]
    <3>1. obj \in KVs
      BY <2>1, ZenonT(60) DEF KVs
    <3>2. obj.rv = with.rv /\ obj.status = with.status /\ obj.version = with.version
      BY <2>1 DEF KVs
    <3>3. obj.topo = with.topo
      BY <2>1 DEF KVs
    <3> QED
      BY <2>1, <3>1, <3>2, <3>3
  <2>3. EndReconcile /\ kv' = IF Accepts(inst) THEN Stored(obj) ELSE kv
    BY <1>7 DEF AddFinalizer, with
  <2> HIDE DEF obj
  <2>4. Accepts(inst) /\ Accepts(obj) /\ kv' = Stored(obj)
    BY ZenonT(60), <2>2, <2>3 DEF Accepts
  <2>5. inst = kv /\ inst.status # "Failed" /\ Shown(inst)
    BY Zenon, <1>2, <1>7, <2>4 DEF AddFinalizer
  <2>6. /\ inst.status = "Running" /\ version = inst.version
        /\ inst.topo = [s \in Shards |-> TopoOf(stsNodes[s])]
    BY <1>7, Zenon DEF AddFinalizer, StatusInv, WorkerInv
  <2>7. /\ kv' \in KVs /\ kv'.status = inst.status /\ kv'.version = inst.version
        /\ kv'.topo = inst.topo
    BY <1>1, <2>2, <2>4, <2>6, StoredFacts, StoredType, ZenonT(60)
  <2> QED
    BY <2>3, <2>5, <2>6, <2>7, ZenonT(60) DEF EndReconcile
<1> QED
  BY <1>3, <1>4, <1>5, <1>6, <1>7, ZenonT(60) DEF WorkerStep

\* What the handler writes, if it writes at all: the failed status, or the
\* topology after the failover.
LEMMA HandlerWrites ==
  ASSUME ClusterInv, HandlerNext, kv' # kv
  PROVE  /\ hpc' = "idle" /\ kv.status # "Failed" /\ kv' \in KVs
         /\ \/ kv'.status = "Failed" /\ kv'.version = 0 /\ kv'.topo = NoTopo
            \/ /\ kv.status = "Running" /\ kv'.status = "Running"
               /\ kv'.version = kv.version + 1
<1> USE DEF ClusterInv
<1>1. kv \in KVs /\ hinst \in KVs
  BY TypeFacts, ZenonT(60)
<1>2. CASE (\E m \in msgs : handleFailover(m)) \/ FailoverShard \/ FailoverShardLost
           \/ OperatorKilled \/ GetNodes
  BY <1>2, ZenonT(60) DEF handleFailover, FailoverShard, FailoverShardLost, OperatorKilled, GetNodes,
              clusterVars
<1>3. CASE MarkFailed
  <2> DEFINE obj == [hinst EXCEPT !.status = "Failed", !.version = 0, !.topo = NoTopo]
  <2>1. /\ obj \in KVs /\ obj.rv = hinst.rv
        /\ obj.status = "Failed" /\ obj.version = 0 /\ obj.topo = NoTopo
    <3>1. NoTopo \in Topos
      BY DEF NoTopo, Topos
    <3> QED
      BY <1>1, <3>1, ExceptType, ZenonT(60) DEF KVs
  <2> HIDE DEF obj
  <2>2. Accepts(hinst) /\ kv' = Stored(obj) /\ EndHandler
    BY <1>3 DEF MarkFailed, obj
  <2>3. hinst = kv /\ hinst.status # "Failed"
    BY Zenon, <1>3, <2>2 DEF MarkFailed, Accepts, CopiesInv, IsCopy, StatusInv
  <2> QED
    BY <1>1, <2>1, <2>2, <2>3, StoredFacts, StoredType, Zenon DEF Accepts, EndHandler
<1>4. CASE UpdateTopo
  <2>1. Accepts(hinst) /\ kv' = Stored(hinst) /\ EndHandler
    BY <1>4, Zenon DEF UpdateTopo
  <2>2. /\ hinst.status = "Running" /\ hinst.status = kv.status
        /\ hinst.version = kv.version + 1
    BY <1>4, <2>1, Zenon DEF UpdateTopo, Accepts, CopiesInv, StatusInv
  <2> QED
    BY <1>1, <2>1, <2>2, StoredFacts, StoredType, Zenon DEF EndHandler
<1> QED
  BY <1>2, <1>3, <1>4, Zenon DEF HandlerNext, HandlerStep

\* What the worker knows of its copy after a step.
LEMMA WorkerCopy ==
  ASSUME ClusterInv, WorkerStep
  PROVE  \/ pc' = "idle"
         \/ pc' = "list" /\ inst' = cache /\ cache.status # "Failed"
         \/ pc # "idle" /\ inst' = inst /\ pc' \notin {"publish", "finalizer"}
         \/ inst'.status = "Running"
<1> USE DEF ClusterInv
<1>1. /\ kv \in KVs /\ inst \in KVs /\ version \in Nat
      /\ stsNodes \in [Shards -> Seq(Nodes)]
  BY TypeFacts, ZenonT(60)
<1>2. CASE Reconcile
  BY <1>2, Zenon DEF Reconcile
<1>3. CASE ListPods \/ FixTopo \/ Ping \/ DeletePod \/ EndFailover \/ EnsureConfig \/ EnsureRoles
           \/ CreateCluster \/ RemoveNodes \/ AddNodes \/ SetNodeID \/ AddFinalizer
  BY <1>3, ZenonT(60) DEF ListPods, FixTopo, Ping, DeletePod, EndFailover, EnsureConfig, EnsureRoles,
              CreateCluster, RemoveNodes, AddNodes, SetNodeID, AddFinalizer, Abort, Panic,
              ProcessDies, EndReconcile
<1>4. CASE SetRunning
  <2> DEFINE obj == [inst EXCEPT !.status = "Running"]
  <2>1. obj \in KVs /\ obj.status = "Running"
    BY Zenon, <1>1 DEF KVs
  <2> HIDE DEF obj
  <2> QED
    BY <1>1, <1>4, <2>1, StoredFacts, ZenonT(60) DEF SetRunning, WorkerUpdate, EndReconcile, obj
<1>5. CASE Publish
  <2>1. PICK ver \in Nat : WorkerUpdate(WithTopo(inst, stsNodes, ver), ver, "finalizer")
    BY <1>1, <1>5 DEF Publish
  <2>2. WithTopo(inst, stsNodes, ver) \in KVs /\ WithTopo(inst, stsNodes, ver).status = "Running"
    BY <1>1, <1>5, WithTopoType, WithTopoFacts, ZenonT(60) DEF Publish, StatusInv
  <2> QED
    BY Zenon, <1>1, <2>1, <2>2, StoredFacts DEF WorkerUpdate, EndReconcile
<1> QED
  BY <1>2, <1>3, <1>4, <1>5, Zenon DEF WorkerStep

\* What the handler knows of its copy after a step.
LEMMA HandlerCopy ==
  ASSUME ClusterInv, HandlerNext
  PROVE  \/ hpc' = "idle"
         \/ hpc' = "failover" /\ hinst' = cache /\ cache.status # "Failed"
         \/ hpc # "idle" /\ hpc' = "nodes" /\ hinst' = hinst /\ hinst.topo # NoTopo
         \/ hpc # "idle" /\ hpc' = "fail" /\ hinst' = hinst
         \/ hpc = "nodes" /\ hpc' = "update" /\ hinst'.status = hinst.status
<1> USE DEF ClusterInv
<1>1. hinst \in KVs /\ hmsg.shard \in Shards
  BY TypeFacts, ZenonT(60) DEF Messages
<1>2. CASE (\E m \in msgs : handleFailover(m)) \/ FailoverShardLost \/ OperatorKilled
  BY <1>2, Zenon DEF handleFailover, FailoverShardLost, OperatorKilled, ProcessDies, handlerVars
<1>3. CASE FailoverShard
  BY ZenonT(60), <1>1, <1>3 DEF FailoverShard, ProcessDies, NoTopo
<1>4. CASE MarkFailed \/ UpdateTopo
  BY <1>4, Zenon DEF MarkFailed, UpdateTopo, HandlerError, EndHandler
<1>5. CASE GetNodes
  BY <1>1, <1>5, ZenonT(60) DEF GetNodes, KVs
<1> QED
  BY <1>2, <1>3, <1>4, <1>5, Zenon DEF HandlerNext, HandlerStep

\* A topology is never shown without the status Running.
LEMMA StatusStep ==
  ASSUME ClusterInv, TypeInv', [Next]_vars
  PROVE  StatusInv'
<1> USE DEF ClusterInv
<1>1. CASE Outside
  BY <1>1, OutsideFacts, Zenon DEF StatusInv, Shown, workerVars, handlerVars
<1>2. CASE WorkerStep
  <2>1. UNCHANGED cache /\ (UNCHANGED handlerVars \/ hpc' = "idle")
    BY <1>2, WorkerFacts, Zenon
  <2>2. Shown(kv)' /\ (kv'.status = "Failed" => kv'.version = 0 /\ kv'.topo = NoTopo)
    BY <1>2, WorkerWrites, ZenonT(60) DEF StatusInv, Shown
  <2>3. /\ pc' # "idle" => Shown(inst)' /\ inst'.status # "Failed"
        /\ pc' \in {"publish", "finalizer"} => inst'.status = "Running"
    BY <1>2, WorkerCopy, ZenonT(60) DEF StatusInv, Shown
  <2> QED
    BY Zenon, <2>1, <2>2, <2>3 DEF StatusInv, Shown, handlerVars
<1>3. CASE HandlerNext
  <2>1. UNCHANGED cache /\ (UNCHANGED workerVars \/ pc' = "idle")
    BY <1>3, HandlerFacts, Zenon
  <2>2. Shown(kv)' /\ (kv'.status = "Failed" => kv'.version = 0 /\ kv'.topo = NoTopo)
    BY <1>3, HandlerWrites, ZenonT(60) DEF StatusInv, Shown
  <2>3. /\ hpc' # "idle" => Shown(hinst)' /\ hinst'.status # "Failed"
        /\ hpc' = "nodes" => hinst'.topo # NoTopo
        /\ hpc' = "update" => hinst'.status = "Running"
    BY <1>3, HandlerCopy DEF StatusInv, Shown
  <2> QED
    BY Zenon, <2>1, <2>2, <2>3 DEF StatusInv, Shown, workerVars
<1> QED
  BY <1>1, <1>2, <1>3, NextCases, Zenon

\* The invariant holds initially.
LEMMA InitInv == Init => ClusterInv
<1> SUFFICES ASSUME Init PROVE ClusterInv
  OBVIOUS
<1>1. TypeInv
  BY InitType, Zenon
<1>2. CopiesInv
  BY SMTT(30) DEF Init, NewKV, CopiesInv, IsCopy
<1>3. StatusInv
  BY Zenon DEF Init, NewKV, StatusInv, Shown
<1>4. MarksInv /\ WorkerInv
  BY Zenon DEF Init, NewKV, MarksInv, WorkerInv
<1> QED
  BY <1>1, <1>2, <1>3, <1>4 DEF ClusterInv

\* Every step keeps the invariant.
LEMMA NextInv == ClusterInv /\ [Next]_vars => ClusterInv'
<1> SUFFICES ASSUME ClusterInv, [Next]_vars PROVE ClusterInv'
  OBVIOUS
<1>1. TypeInv'
  BY NextType DEF ClusterInv
<1> QED
  BY Zenon, <1>1, CopiesStep, StatusStep, MarksStep, WorkerInvStep DEF ClusterInv

-----------------------------------------------------------------------------
(* The theorems *)

\* The inductive invariant holds, whatever the number of shards, replicas and
\* faults.
THEOREM ClusterInvariant == Spec => []ClusterInv
BY InitInv, NextInv, PTL DEF Spec

\* The variables keep their types.
THEOREM TypeCorrect == Spec => []TypeOK
<1>1. ClusterInv => TypeOK
  BY Zenon DEF ClusterInv, TypeInv
<1> QED
  BY <1>1, ClusterInvariant, PTL

\* An instance that shows a topology is Running: EndFailover, which does not set
\* the status, publishes only what was published before.
THEOREM NeverCreatingAgain == Spec => []PublishedIsNotCreating
<1>1. ClusterInv => PublishedIsNotCreating
  BY DEF ClusterInv, StatusInv, Shown, PublishedIsNotCreating
<1> QED
  BY <1>1, ClusterInvariant, PTL

\* Nobody writes a failed instance: the worker and the handler leave it alone
\* when they read it, and an Update from an earlier copy is rejected.
THEOREM FailedForGood == Spec => FailedIsFinal
<1>1. ClusterInv /\ [Next]_vars => [kv.status = "Failed" => kv' = kv]_vars
  BY Zenon, NextCases, OutsideFacts, WorkerWrites, HandlerWrites
<1> QED
  BY <1>1, ClusterInvariant, PTL DEF Spec, FailedIsFinal

\* The status of the resource implements PublishedStatus.
THEOREM PublishedInOrder == Spec => PublishesInOrder
<1>1. Init => Published!Init
  BY ViewOfNothing DEF Init, NewKV, Published!Init
<1>2. ClusterInv /\ ClusterInv' /\ [Next]_vars => [Published!Next]_(Published!vars)
  <2> SUFFICES ASSUME ClusterInv, ClusterInv', [Next]_vars, kv' # kv
               PROVE  Published!Next \/ UNCHANGED Published!vars
    BY Zenon DEF Published!vars
  <2>1. View(kv'.topo) \in Views
    BY ViewType, ZenonT(60) DEF ClusterInv, TypeInv, TypeOK, KVs
  <2>2. CASE WorkerStep
    BY <2>1, <2>2, WorkerWrites, Zenon DEF Published!Next, Published!Start, Published!Publish,
       Published!vars
  <2>3. CASE HandlerNext
    BY Zenon, <2>1, <2>3, HandlerWrites, ViewOfNothing DEF Published!Next, Published!Publish,
       Published!Fail
  <2> QED
    BY <2>2, <2>3, NextCases, OutsideFacts, Zenon
<1> QED
  BY <1>1, <1>2, ClusterInvariant, PTL DEF Spec, PublishesInOrder, Published!Spec

-----------------------------------------------------------------------------
(* Failover marks *)

\* A mark in the topology that the worker has read is still ahead of the loop of
\* ensureFailover, unless the loop has found one; behind the loop there is none.
\* No shard lists more pods than it has ordinals.
SeenInv ==
  /\ pc = "topo" => \A s \in Shards : Len(stsNodes[s]) <= Replicas
  /\ pc \in {"ping", "delete"} /\ ~change =>
       \A s \in Shards : \A j \in 1..Len(inst.topo[s]) :
         inst.topo[s][j].failover => <<s, j>> \in todo /\ stsNodes[s][j].failover
  /\ pc \in {"config", "roles", "create", "remove", "add", "setid", "running", "publish"} =>
       \A s \in Shards : \A j \in 1..Len(inst.topo[s]) : ~inst.topo[s][j].failover

\* Nothing is marked when the worker is idle.
LEMMA SeenInit == Init => SeenInv
BY DEF Init, SeenInv

\* Every step of the worker keeps this.
LEMMA SeenStep ==
  ASSUME ClusterInv, SeenInv, [Next]_vars
  PROVE  SeenInv'
<1> USE DEF ClusterInv
<1>1. ASSUME pc' \in {"idle", "list", "finalizer"} PROVE SeenInv'
  BY <1>1, Zenon DEF SeenInv
<1>2. ASSUME UNCHANGED workerVars PROVE SeenInv'
  BY <1>2, Zenon DEF workerVars, SeenInv
<1>3. CASE Outside
  BY <1>2, <1>3, OutsideFacts
<1>4. CASE HandlerNext
  BY <1>1, <1>2, <1>4, HandlerFacts, Zenon
<1>5. CASE Reconcile \/ AddFinalizer
  BY <1>1, <1>5, ZenonT(60) DEF Reconcile, AddFinalizer, EndReconcile
<1>6. CASE ListPods
  <2>1. CASE Abort
    BY <1>1, <2>1, ZenonT(60) DEF Abort, EndReconcile
  <2>2. CASE ~Abort
    <3>1. ASSUME NEW s \in Shards PROVE Len(stsNodes'[s]) <= Replicas
      <4>1. PICK n \in 0..Replicas : \E order \in [1..n -> Ordinals] :
              stsNodes'[s] = [k \in 1..n |-> NewNode(pods[s][order[k]].ip, order[k])]
        BY <1>6, <2>2, ListedNodes, Zenon
      <4>2. PICK order \in [1..n -> Ordinals] :
              stsNodes'[s] = [k \in 1..n |-> NewNode(pods[s][order[k]].ip, order[k])]
        BY <4>1, Zenon
      <4> QED
        BY <4>1, <4>2, ReplicasAssumption, SMTT(30)
    <3>2. pc' = "topo"
      BY <1>6, <2>2, ZenonT(60) DEF ListPods
    <3> QED
      BY <3>1, <3>2, ZenonT(60) DEF SeenInv
  <2> QED
    BY <2>1, <2>2
<1>7. CASE FixTopo
  <2>1. CASE Abort \/ Panic
    BY <1>1, <2>1, ZenonT(60) DEF Abort, Panic, ProcessDies, EndReconcile
  <2>2. CASE ~(Abort \/ Panic)
    <3>1. /\ pc = "topo" /\ pc' = "ping" /\ UNCHANGED inst
          /\ \A s \in Shards : Len(inst.topo[s]) <= Len(stsNodes[s])
          /\ stsNodes' = [s \in Shards |-> FixNodes(stsNodes[s], inst.topo[s])]
          /\ todo' = Positions(stsNodes)
      BY <1>7, <2>2, ZenonT(60) DEF FixTopo
    <3>2. ASSUME NEW s \in Shards, NEW j \in 1..Len(inst.topo[s]), inst.topo[s][j].failover
          PROVE  <<s, j>> \in todo' /\ stsNodes'[s][j].failover
      <4>1. inst \in KVs /\ stsNodes \in [Shards -> Seq(Nodes)]
        BY TypeFacts, ZenonT(60)
      <4>2. inst.topo[s] \in Seq(TopoNodes) /\ stsNodes[s] \in Seq(Nodes)
        BY <4>1, Zenon DEF KVs, Topos
      <4>3. j \in 1..Len(stsNodes[s]) /\ j <= Replicas /\ ~(j > Len(inst.topo[s]))
        BY <3>1, <4>2, ReplicasAssumption, SMTT(30) DEF SeenInv
      <4>4. <<s, j>> \in todo'
        BY <3>1, <4>3, ReplicasAssumption, SMTT(30) DEF Positions, Ordinals
      <4>5. stsNodes'[s][j] = [stsNodes[s][j] EXCEPT !.id = inst.topo[s][j].id,
                                 !.role = inst.topo[s][j].role,
                                 !.master = inst.topo[s][j].master,
                                 !.failover = inst.topo[s][j].failover]
        BY <3>1, <4>3, ZenonT(60) DEF FixNodes
      <4>6. stsNodes[s][j] \in Nodes
        BY <4>2, <4>3, SMTT(30)
      <4>7. stsNodes'[s][j].failover = inst.topo[s][j].failover
        BY <4>5, <4>6, ZenonT(60) DEF Nodes
      <4> QED
        BY <3>2, <4>4, <4>7
    <3> QED
      BY <3>1, <3>2, ZenonT(60) DEF SeenInv
  <2> QED
    BY Zenon, <2>1, <2>2
<1>8. CASE Ping
  <2>1. PICK p \in todo :
          \/ change' = TRUE /\ pc' = "ping"
          \/ pc' = "delete" /\ UNCHANGED <<inst, stsNodes, change, todo>>
          \/ /\ ~stsNodes[p[1]][p[2]].failover /\ todo' = todo \ {p}
             /\ UNCHANGED <<pc, inst, stsNodes, change>>
    BY <1>8, ZenonT(60) DEF Ping
  <2>2. pc = "ping"
    BY <1>8, Zenon DEF Ping
  <2>3. CASE change' = TRUE /\ pc' = "ping"
    BY <2>3, Zenon DEF SeenInv
  <2>4. CASE pc' = "delete" /\ UNCHANGED <<inst, stsNodes, change, todo>>
    BY <2>2, <2>4, Zenon DEF SeenInv
  <2>5. CASE /\ ~stsNodes[p[1]][p[2]].failover /\ todo' = todo \ {p}
             /\ UNCHANGED <<pc, inst, stsNodes, change>>
    <3>1. ASSUME ~change, NEW s \in Shards, NEW j \in 1..Len(inst.topo[s]),
                 inst.topo[s][j].failover
          PROVE  <<s, j>> \in todo' /\ stsNodes'[s][j].failover
      <4>1. <<s, j>> \in todo /\ stsNodes[s][j].failover
        BY <2>2, <3>1, ZenonT(60) DEF SeenInv
      <4>2. <<s, j>>[1] = s /\ <<s, j>>[2] = j
        OBVIOUS
      <4>3. p # <<s, j>>
        BY <2>5, <4>1, <4>2, ZenonT(60)
      <4> QED
        BY <2>5, <4>1, <4>3, ZenonT(60)
    <3> QED
      BY <2>2, <2>5, <3>1, ZenonT(60) DEF SeenInv
  <2> QED
    BY <2>1, <2>3, <2>4, <2>5, ZenonT(60)
<1>9. CASE DeletePod
  <2>1. pc' = "idle" \/ (pc' = "ping" /\ change' = TRUE)
    BY <1>9, ZenonT(60) DEF DeletePod, Panic, ProcessDies, EndReconcile
  <2> QED
    BY <2>1, Zenon DEF SeenInv
<1>10. CASE EndFailover
  <2>1. CASE pc' = "idle"
    BY <1>1, <2>1, Zenon
  <2>2. CASE pc' # "idle"
    <3>1. pc = "ping" /\ todo = {} /\ ~change /\ pc' = "config" /\ UNCHANGED inst
      BY <1>10, <2>2, ZenonT(60) DEF EndFailover, Abort, EndReconcile
    <3> QED
      BY <3>1, ZenonT(60) DEF SeenInv
  <2> QED
    BY <2>1, <2>2
<1>11. CASE EnsureConfig \/ EnsureRoles \/ CreateCluster \/ RemoveNodes \/ AddNodes \/ SetNodeID
  <2>1. \/ pc' = "idle"
        \/ /\ pc \in {"config", "roles", "create", "remove", "add", "setid"}
           /\ pc' \in {"roles", "create", "remove", "add", "setid", "running"}
           /\ UNCHANGED inst
    BY <1>11, ZenonT(60) DEF EnsureConfig, EnsureRoles, CreateCluster, RemoveNodes, AddNodes,
                             SetNodeID, Abort, Panic, ProcessDies, EndReconcile
  <2> QED
    BY <2>1, Zenon DEF SeenInv
<1>12. CASE SetRunning
  <2> DEFINE obj == [inst EXCEPT !.status = "Running"]
  <2>1. kv \in KVs /\ inst \in KVs
    BY TypeFacts, ZenonT(60)
  <2>2. obj \in KVs /\ obj.topo = inst.topo
    BY <2>1 DEF KVs
  <2> HIDE DEF obj
  <2>3. pc' = "idle" \/ (pc' = "publish" /\ inst'.topo = inst.topo)
    BY <1>12, <2>1, <2>2, StoredFacts, ZenonT(60) DEF SetRunning, WorkerUpdate, EndReconcile, obj
  <2>4. pc = "running"
    BY <1>12 DEF SetRunning
  <2> QED
    BY <2>3, <2>4, Zenon DEF SeenInv
<1>13. CASE Publish
  <2>1. pc' \in {"idle", "finalizer"}
    BY <1>13, ZenonT(60) DEF Publish, WorkerUpdate, EndReconcile
  <2> QED
    BY <1>1, <2>1, Zenon
<1> QED
  BY <1>3, <1>4, <1>5, <1>6, <1>7, <1>8, <1>9, <1>10, <1>11, <1>12, <1>13, NextCases,
     ZenonT(60) DEF WorkerStep

\* The worker writes over a mark only after it has read it and its loop has dealt
\* with a marked node: TopoOf drops every mark, but the rest of Handle is reached
\* only when the topology it has read has none, and an Update from an older
\* topology is rejected.
THEOREM MarksDealtWith == Spec => MarkNotLost
<1> DEFINE Lost(s, j) == /\ kv.topo[s][j].failover
                         /\ kv'.status # "Failed"
                         /\ j \in 1..Len(kv'.topo[s])
                         /\ ~kv'.topo[s][j].failover
           Dealt(s, j) == \/ hpc = "update" /\ hpc' = "idle"
                          \/ inst.topo[s][j].failover /\ change
<1>1. ASSUME ClusterInv, SeenInv, [Next]_vars,
             NEW s \in Shards, NEW j \in 1..Len(kv.topo[s]), Lost(s, j)
      PROVE  Dealt(s, j)
  <2>1. kv' # kv
    BY <1>1, Zenon
  <2>2. CASE Outside
    BY <2>1, <2>2, OutsideFacts
  <2>3. CASE HandlerNext
    <3>1. kv \in KVs /\ hinst \in KVs
      BY <1>1, TypeFacts, ZenonT(60) DEF ClusterInv
    <3>2. CASE MarkFailed
      <4> DEFINE obj == [hinst EXCEPT !.status = "Failed", !.version = 0, !.topo = NoTopo]
      <4>1. kv' = Stored(obj)
        BY <2>1, <3>2, ZenonT(60) DEF MarkFailed
      <4>2. obj.status = "Failed"
        BY <3>1 DEF KVs
      <4>3. obj \in KVs /\ Accepts(obj)
        <5>1. NoTopo \in Topos
          BY DEF NoTopo, Topos
        <5>2. obj \in KVs /\ obj.rv = hinst.rv
          BY <3>1, <5>1, ExceptType, ZenonT(60) DEF KVs
        <5> QED
          BY <2>1, <3>2, <5>2, ZenonT(60) DEF MarkFailed, Accepts
      <4> HIDE DEF obj
      <4>4. kv'.status = "Failed"
        BY <3>1, <4>1, <4>2, <4>3, StoredFacts, ZenonT(60)
      <4> QED
        BY <1>1, <4>4
    <3>3. CASE UpdateTopo
      BY <2>1, <3>3, ZenonT(60) DEF UpdateTopo, EndHandler
    <3>4. CASE (\E m \in msgs : handleFailover(m)) \/ FailoverShard \/ FailoverShardLost
               \/ OperatorKilled \/ GetNodes
      BY <2>1, <3>4, ZenonT(60) DEF handleFailover, FailoverShard, FailoverShardLost,
         OperatorKilled, GetNodes, clusterVars
    <3> QED
      BY <2>3, <3>2, <3>3, <3>4, ZenonT(60) DEF HandlerNext, HandlerStep
  <2>4. CASE WorkerStep
    <3>1. inst = kv
      BY <1>1, <2>1, <2>4, WorkerWrites, ZenonT(60)
    <3>2. CASE Reconcile \/ ListPods \/ FixTopo \/ Ping \/ DeletePod \/ EnsureConfig \/ EnsureRoles
               \/ CreateCluster \/ RemoveNodes \/ AddNodes \/ SetNodeID
      BY <2>1, <3>2, ZenonT(60) DEF Reconcile, ListPods, FixTopo, Ping, DeletePod, EnsureConfig,
         EnsureRoles, CreateCluster, RemoveNodes, AddNodes, SetNodeID, Abort, Panic, ProcessDies,
         OthersUnchanged, clusterVars
    <3>3. CASE EndFailover
      <4>1. change
        BY <2>1, <3>3, ZenonT(60) DEF EndFailover, Abort, OthersUnchanged, clusterVars
      <4> QED
        BY <1>1, <3>1, <4>1, ZenonT(60)
    <3>4. CASE SetRunning \/ Publish
      BY <1>1, <3>1, <3>4, ZenonT(60) DEF SetRunning, Publish, SeenInv
    <3>5. CASE AddFinalizer
      <4>1. kv.topo = [r \in Shards |-> TopoOf(stsNodes[r])]
        BY <1>1, <3>1, <3>5, ZenonT(60) DEF AddFinalizer, ClusterInv, WorkerInv
      <4>2. stsNodes[s] \in Seq(Nodes)
        BY <1>1, TypeFacts, ZenonT(60) DEF ClusterInv
      <4>3. Len(kv.topo[s]) = Len(stsNodes[s])
        BY <4>1, <4>2, TopoOfType, Zenon
      <4>4. ~kv.topo[s][j].failover
        BY <4>1, <4>3, SMTT(30) DEF TopoOf
      <4> QED
        BY <1>1, <4>4
    <3> QED
      BY <2>4, <3>2, <3>3, <3>4, <3>5, ZenonT(60) DEF WorkerStep
  <2> QED
    BY <1>1, <2>2, <2>3, <2>4, NextCases, ZenonT(60)
<1>2. ClusterInv /\ SeenInv /\ [Next]_vars
        => [\A s \in Shards : \A j \in 1..Len(kv.topo[s]) : Lost(s, j) => Dealt(s, j)]_vars
  BY <1>1, ZenonT(60)
<1>3. ClusterInv /\ SeenInv /\ [Next]_vars => SeenInv'
  BY SeenStep
<1>4. Spec => []SeenInv
  BY <1>3, SeenInit, ClusterInvariant, PTL DEF Spec
<1> QED
  BY <1>2, <1>4, ClusterInvariant, PTL DEF Spec, MarkNotLost

-----------------------------------------------------------------------------
(* Lists of pods *)

INSTANCE FiniteSetTheorems


\* What a list has.
LEMMA ElementOfSeq ==
  ASSUME NEW S, NEW q \in Seq(S), NEW i \in 1..Len(q)
  PROVE  q[i] \in S
OBVIOUS

\* A set of naturals that is not empty has a least element: induction, as the proofs
\* below use it.
LEMMA LeastNat ==
  ASSUME NEW T, T \subseteq Nat, T # {}
  PROVE  \E n \in T : \A m \in T : n <= m
<1>1. PICK n \in T : \A m \in T : <<m, n>> \notin OpToRel(<, Nat)
  BY NatLessThanWellFounded, WFMin, Zenon
<1>2. OpToRel(<, Nat) = {p \in Nat \X Nat : p[1] < p[2]}
  BY Zenon DEF OpToRel
<1>3. \A m \in T : <<m, n>> \notin {p \in Nat \X Nat : p[1] < p[2]}
  BY <1>1, <1>2, Zenon
<1>4. ASSUME NEW m \in T PROVE n <= m
  <2>1. m \in Nat /\ n \in Nat /\ <<m, n>> \notin {p \in Nat \X Nat : p[1] < p[2]}
    BY <1>3
  <2> QED
    BY <2>1
<1> QED
  BY <1>4

\* A sorted list of as many ordinals as there are has each in its place.
LEMMA SortedIsWhole ==
  ASSUME NEW order \in [1..Replicas -> Ordinals],
         \A j \in 2..Replicas : order[j - 1] < order[j]
  PROVE  \A j \in 1..Replicas : order[j] = j
<1> USE ReplicasAssumption DEF Ordinals
<1> DEFINE Below == {j \in 1..Replicas : order[j] < j}
           Above == {k \in 0..Replicas - 1 : order[Replicas - k] > Replicas - k}
<1>1. Below = {}
  <2>1. SUFFICES ASSUME Below # {} PROVE FALSE
    OBVIOUS
  <2>2. PICK n \in Below : \A m \in Below : n <= m
    <3>1. Below \subseteq Nat
      OBVIOUS
    <3> HIDE DEF Below
    <3> QED
      BY <2>1, <3>1, LeastNat, Zenon
  <2>3. n \in 1..Replicas /\ order[n] < n /\ n # 1
    BY <2>2, SMTT(60)
  <2>4. n - 1 \in 1..Replicas /\ order[n - 1] < order[n]
    BY <2>3, SMTT(60)
  <2>5. n - 1 \in Below
    BY <2>3, <2>4
  <2>6. n <= n - 1
    BY <2>2, <2>5, Zenon
  <2> QED
    BY <2>3, <2>6, SMTT(60)
<1>2. Above = {}
  <2>1. SUFFICES ASSUME Above # {} PROVE FALSE
    BY SMTT(60)
  <2>2. PICK n \in Above : \A m \in Above : n <= m
    <3>1. Above \subseteq Nat
      OBVIOUS
    <3> HIDE DEF Above
    <3> QED
      BY <2>1, <3>1, LeastNat, Zenon
  <2>3. n \in 0..Replicas - 1 /\ order[Replicas - n] > Replicas - n /\ n # 0
    BY <2>2, SMTT(60)
  <2>4. n - 1 \in 0..Replicas - 1 /\ order[Replicas - n] < order[Replicas - (n - 1)]
    <3> DEFINE i == Replicas - (n - 1)
    <3>1. i \in 2..Replicas /\ i - 1 = Replicas - n
      BY <2>3, SMTT(60)
    <3> HIDE DEF i
    <3>2. order[i - 1] < order[i]
      BY <3>1, Zenon
    <3> QED
      BY <2>3, <3>1, <3>2, SMTT(60) DEF i
  <2>5. n - 1 \in Above
    BY <2>3, <2>4
  <2>6. n <= n - 1
    BY <2>2, <2>5, Zenon
  <2> QED
    BY <2>3, <2>6, SMTT(60)
<1>3. ASSUME NEW j \in 1..Replicas PROVE order[j] = j
  <2>1. ~(order[j] < j)
    BY <1>1, Zenon
  <2>2. Replicas - j \notin Above
    BY <1>2, Zenon
  <2>3. Replicas - (Replicas - j) = j /\ Replicas - j \in 0..Replicas - 1 /\ order[j] \in 1..Replicas
    OBVIOUS
  <2> QED
    BY <2>1, <2>2, <2>3, SMTT(60)
<1> QED
  BY <1>3, Zenon

-----------------------------------------------------------------------------
(* Deletions *)

\* The topology has all pods of a shard, or none.
Whole(obj) == \A s \in Shards : Len(obj.topo[s]) \in {0, Replicas}

\* What the worker has read is whole.
ReadWhole == Whole(cache) /\ (pc # "idle" => Whole(inst))

\* A mark that is ahead of the loop of ensureFailover is in a shard whose pods are
\* all in the list, so that a position is an ordinal.
MarkedInv ==
  pc \in {"ping", "delete"} =>
    \A p \in todo : stsNodes[p[1]][p[2]].failover => Len(stsNodes[p[1]]) = Replicas

\* The worker has still to visit this position.
Ahead(p) == pc = "topo" \/ (pc \in {"ping", "delete"} /\ p \in todo)

\* The pod at this position has failed, or is not any more the one in the list.
Changed(p) == \/ pods[p[1]][p[2]].phase # "up"
              \/ pods[p[1]][p[2]].ip # stsNodes[p[1]][p[2]].ip

\* A fault of a pod that the worker may still answer with a deletion: the pod is
\* down or terminating, it has failed since it was listed, or the worker is about
\* to delete it.
Charged(p) == \/ pods[p[1]][p[2]].phase \in {"down", "terminating"}
              \/ Ahead(p) /\ Len(stsNodes[p[1]]) = Replicas /\ Changed(p)
              \/ pc = "delete" /\ IsNext(p)

Failing == {p \in Shards \X Ordinals : Charged(p)}

\* Each deletion, and each one that may still come, has a fault of its own.
PaidInv == deletions + Cardinality(Failing) <= podFaults

\* The copies the worker reads are as whole as what is published.
LEMMA ReadStep ==
  ASSUME TypeInv, ReadWhole, Whole(kv), Whole(kv'), [Next]_vars
  PROVE  ReadWhole'
<1>1. CASE Outside
  BY <1>1, OutsideFacts, ZenonT(60) DEF ReadWhole, workerVars
<1>2. CASE WorkerStep
  BY <1>2, WorkerFacts, WorkerMoves, ZenonT(60) DEF ReadWhole
<1>3. CASE HandlerNext
  BY <1>3, HandlerFacts, ZenonT(60) DEF ReadWhole, workerVars
<1> QED
  BY <1>1, <1>2, <1>3, NextCases, ZenonT(60)

\* The position that the loop is at is one of the list.
LEMMA TodoFacts ==
  ASSUME TypeInv, pc \in {"ping", "delete"}, NEW p \in todo
  PROVE  /\ p[1] \in Shards /\ p[2] \in Ordinals /\ p = <<p[1], p[2]>>
         /\ p[2] \in 1..Len(stsNodes[p[1]])
         /\ stsNodes[p[1]] \in Seq(Nodes)
<1>1. p \in Positions(stsNodes) /\ stsNodes \in [Shards -> Seq(Nodes)]
  BY ZenonT(60) DEF TypeInv, TypeOK, TodoListed
<1> QED
  BY <1>1 DEF Positions, Ordinals

\* Clearing a mark changes nothing else.
LEMMA ClearMarkFacts ==
  ASSUME TypeInv, pc \in {"ping", "delete"}, NEW p \in todo, ClearMark(p)
  PROVE  /\ \A s \in Shards : Len(stsNodes'[s]) = Len(stsNodes[s])
         /\ \A q \in todo : /\ stsNodes'[q[1]][q[2]].ip = stsNodes[q[1]][q[2]].ip
                            /\ q # p => stsNodes'[q[1]][q[2]] = stsNodes[q[1]][q[2]]
<1>1. stsNodes \in [Shards -> Seq(Nodes)]
  BY TypeFacts, ZenonT(60)
<1> DEFINE s == p[1]
           j == p[2]
           new == [stsNodes[s][j] EXCEPT !.failover = FALSE]
<1>2. s \in Shards /\ j \in 1..Len(stsNodes[s]) /\ stsNodes[s] \in Seq(Nodes) /\ p = <<s, j>>
  BY TodoFacts, ZenonT(60)
<1>3. stsNodes[s][j] \in Nodes
  BY <1>2, ElementOfSeq, Zenon
<1>4. new \in Nodes /\ new.ip = stsNodes[s][j].ip
  BY <1>3, ZenonT(60) DEF Nodes
<1>5. stsNodes' = [stsNodes EXCEPT ![s] = [stsNodes[s] EXCEPT ![j] = new]]
  BY ZenonT(60) DEF ClearMark
<1>6. \A r \in Shards : stsNodes'[r] = IF r = s THEN [stsNodes[s] EXCEPT ![j] = new] ELSE stsNodes[r]
  BY <1>1, <1>5, Zenon
<1> HIDE DEF new
<1>7. /\ Len([stsNodes[s] EXCEPT ![j] = new]) = Len(stsNodes[s])
      /\ \A k \in 1..Len(stsNodes[s]) :
           [stsNodes[s] EXCEPT ![j] = new][k] = IF k = j THEN new ELSE stsNodes[s][k]
  BY <1>2, <1>4, SMTT(30)
<1>8. \A r \in Shards : Len(stsNodes'[r]) = Len(stsNodes[r])
  BY <1>6, <1>7, Zenon
<1>9. ASSUME NEW q \in todo
      PROVE  /\ stsNodes'[q[1]][q[2]].ip = stsNodes[q[1]][q[2]].ip
             /\ q # p => stsNodes'[q[1]][q[2]] = stsNodes[q[1]][q[2]]
  <2>1. q[1] \in Shards /\ q[2] \in 1..Len(stsNodes[q[1]]) /\ q = <<q[1], q[2]>>
    BY TodoFacts, ZenonT(60)
  <2>2. CASE q[1] # s
    BY <1>6, <2>1, <2>2, Zenon
  <2>3. CASE q[1] = s /\ q[2] # j
    BY <1>6, <1>7, <2>1, <2>3, Zenon
  <2>4. CASE q[1] = s /\ q[2] = j
    <3>1. q = p
      BY <1>2, <2>1, <2>4, Zenon
    <3>2. stsNodes'[s][j] = new
      BY <1>2, <1>6, <1>7, Zenon
    <3> QED
      BY <1>4, <2>4, <3>1, <3>2, Zenon
  <2> QED
    BY <2>2, <2>3, <2>4, Zenon
<1> QED
  BY <1>8, <1>9, Zenon

\* ensureFailover comes to a mark only in a shard whose topology is whole, and
\* ensureKubernetes has compared its length with the list's.
LEMMA MarkedStep ==
  ASSUME ClusterInv, SeenInv, ReadWhole, MarkedInv, [Next]_vars
  PROVE  MarkedInv'
<1> USE DEF ClusterInv
<1>1. ASSUME pc' \notin {"ping", "delete"} PROVE MarkedInv'
  BY <1>1 DEF MarkedInv
<1>2. ASSUME UNCHANGED workerVars PROVE MarkedInv'
  BY <1>2, ZenonT(60) DEF workerVars, MarkedInv
<1>3. CASE Outside
  BY <1>2, <1>3, OutsideFacts, Zenon
<1>4. CASE HandlerNext
  <2>1. UNCHANGED workerVars \/ pc' = "idle"
    BY <1>4, HandlerFacts, Zenon
  <2> QED
    BY <1>1, <1>2, <2>1, Zenon
<1>5. CASE FixTopo
  <2>1. CASE Abort \/ Panic
    BY <1>1, <2>1 DEF Abort, Panic, ProcessDies, EndReconcile
  <2>2. CASE ~(Abort \/ Panic)
    <3>1. /\ pc = "topo" /\ pc' = "ping"
          /\ \A s \in Shards : Len(inst.topo[s]) <= Len(stsNodes[s])
          /\ stsNodes' = [s \in Shards |-> FixNodes(stsNodes[s], inst.topo[s])]
          /\ todo' = Positions(stsNodes)
      BY <1>5, <2>2, ZenonT(60) DEF FixTopo
    <3>2. inst \in KVs /\ stsNodes \in [Shards -> Seq(Nodes)]
      BY TypeFacts, ZenonT(60)
    <3>3. ASSUME NEW p \in todo', stsNodes'[p[1]][p[2]].failover
          PROVE  Len(stsNodes'[p[1]]) = Replicas
      <4> DEFINE s == p[1]
                 j == p[2]
      <4>1. s \in Shards /\ j \in 1..Len(stsNodes[s])
        BY <3>1, <3>2, SMTT(60) DEF Positions, Ordinals
      <4>2. inst.topo[s] \in Seq(TopoNodes) /\ stsNodes[s] \in Seq(Nodes)
        BY <3>2, <4>1, SMTT(60) DEF KVs, Topos
      <4>3. stsNodes'[s] = FixNodes(stsNodes[s], inst.topo[s])
        BY <3>1, <4>1, Zenon
      <4>4. j <= Len(inst.topo[s])
        <5>1. SUFFICES ASSUME j > Len(inst.topo[s]) PROVE FALSE
          BY <4>1, <4>2, SMTT(60)
        <5>2. stsNodes'[s][j] = stsNodes[s][j]
          BY <4>1, <4>3, <5>1, Zenon DEF FixNodes
        <5> QED
          BY <3>1, <3>3, <4>1, <5>2, Zenon DEF MarksInv
      <4>5. Whole(inst) /\ Len(stsNodes[s]) <= Replicas /\ Len(inst.topo[s]) <= Len(stsNodes[s])
        BY <3>1, <4>1, ZenonT(60) DEF ReadWhole, SeenInv
      <4>6. Len(stsNodes[s]) = Replicas
        BY <4>1, <4>2, <4>4, <4>5, ReplicasAssumption, SMTT(60) DEF Whole
      <4> QED
        BY <4>2, <4>3, <4>6, FixNodesType, ZenonT(60)
    <3> QED
      BY <3>1, <3>3, Zenon DEF MarkedInv
  <2> QED
    BY <2>1, <2>2, Zenon
<1>6. ASSUME pc \in {"ping", "delete"}, NEW p \in todo, ClearMark(p), todo' = todo \ {p}
      PROVE  MarkedInv'
  <2>1. ASSUME NEW q \in todo', stsNodes'[q[1]][q[2]].failover
        PROVE  Len(stsNodes'[q[1]]) = Replicas
    <3>1. q \in todo /\ q # p
      BY <1>6
    <3>2. q[1] \in Shards
      BY <1>6, <3>1, TodoFacts, ZenonT(60)
    <3>3. /\ Len(stsNodes'[q[1]]) = Len(stsNodes[q[1]])
          /\ stsNodes'[q[1]][q[2]] = stsNodes[q[1]][q[2]]
      BY <1>6, <3>1, <3>2, ClearMarkFacts, ZenonT(60)
    <3> QED
      BY <1>6, <2>1, <3>1, <3>3, Zenon DEF MarkedInv
  <2> QED
    BY <2>1, Zenon DEF MarkedInv
<1>7. CASE Ping
  <2>1. PICK p \in todo : \/ ClearMark(p) /\ todo' = todo \ {p}
                          \/ UNCHANGED <<stsNodes, todo>>
                          \/ todo' = todo \ {p} /\ UNCHANGED stsNodes
    BY <1>7, ZenonT(60) DEF Ping
  <2>2. pc = "ping"
    BY <1>7, Zenon DEF Ping
  <2>3. CASE UNCHANGED stsNodes /\ todo' \subseteq todo
    BY <2>2, <2>3, Zenon DEF MarkedInv
  <2> QED
    BY <1>6, <2>1, <2>2, <2>3, Zenon
<1>8. CASE DeletePod
  <2>1. \/ pc' = "idle"
        \/ \E p \in todo : ClearMark(p) /\ todo' = todo \ {p}
    BY <1>8, ZenonT(60) DEF DeletePod, Panic, ProcessDies, EndReconcile
  <2>2. pc = "delete"
    BY <1>8, Zenon DEF DeletePod
  <2> QED
    BY <1>1, <1>6, <2>1, <2>2, Zenon
<1>9. CASE Reconcile \/ ListPods \/ EndFailover \/ EnsureConfig \/ EnsureRoles \/ CreateCluster
           \/ RemoveNodes \/ AddNodes \/ SetNodeID \/ SetRunning \/ Publish \/ AddFinalizer
  <2>1. pc' \notin {"ping", "delete"}
    BY <1>9, ZenonT(60) DEF Reconcile, ListPods, EndFailover, EnsureConfig, EnsureRoles,
       CreateCluster, RemoveNodes, AddNodes, SetNodeID, SetRunning, Publish, AddFinalizer,
       WorkerUpdate, Abort, Panic, ProcessDies, EndReconcile
  <2> QED
    BY <1>1, <2>1, Zenon
<1> QED
  BY <1>3, <1>4, <1>5, <1>7, <1>8, <1>9, NextCases, ZenonT(60) DEF WorkerStep

\* A label says nothing about the state of a pod.
LEMMA LabelledFacts ==
  ASSUME TypeInv, NEW nodes, NEW s \in Shards, NEW o \in Ordinals
  PROVE  Labelled(nodes)[s][o].phase = pods[s][o].phase
<1>1. pods[s][o] \in Pods
  BY ZenonT(60) DEF TypeInv, TypeOK
<1>2. PICK label : Labelled(nodes)[s][o] \in {pods[s][o], [pods[s][o] EXCEPT !.label = label]}
  BY ZenonT(60) DEF Labelled
<1>3. [pods[s][o] EXCEPT !.label = label].phase = pods[s][o].phase
  BY <1>1, SMTT(60) DEF Pods
<1> QED
  BY <1>2, <1>3, Zenon

\* A list that has all pods of a shard has, at each position, the pod with that
\* ordinal, and none that is terminating.
LEMMA ListedFacts ==
  ASSUME TypeInv, ListPods, ~Abort, NEW s \in Shards, Len(stsNodes'[s]) = Replicas,
         NEW j \in Ordinals
  PROVE  /\ stsNodes'[s][j].ip = pods[s][j].ip
         /\ pods[s][j].phase \notin {"gone", "terminating"}
<1>1. PICK n \in 0..Replicas : \E order \in [1..n -> Ordinals] :
        /\ Len(order) = n
        /\ IsListing(order, s)
        /\ stsNodes'[s] = [k \in 1..n |-> NewNode(pods[s][order[k]].ip, order[k])]
  BY ListedNodes, Zenon
<1>2. PICK order \in [1..n -> Ordinals] :
        /\ Len(order) = n
        /\ IsListing(order, s)
        /\ stsNodes'[s] = [k \in 1..n |-> NewNode(pods[s][order[k]].ip, order[k])]
  BY <1>1, ZenonT(60)
<1>3. n = Replicas
  BY <1>2, ReplicasAssumption, SMTT(30)
<1>4. \A k \in 2..Replicas : order[k - 1] < order[k]
  BY <1>2, <1>3, Zenon DEF IsListing
<1>5. order[j] = j
  <2>1. order \in [1..Replicas -> Ordinals]
    BY <1>2, <1>3, Zenon
  <2> QED
    BY <1>4, <2>1, SortedIsWhole, Zenon DEF Ordinals
<1>6. stsNodes'[s][j] = NewNode(pods[s][j].ip, j)
  BY <1>2, <1>3, <1>5, Zenon DEF Ordinals
<1>7. pods[s][j].phase # "gone"
  <2>1. j \in {order[k] : k \in 1..Len(order)}
    BY <1>2, <1>3, <1>5, Zenon DEF Ordinals
  <2> QED
    BY <1>2, <2>1, Zenon DEF IsListing, Exists
<1>8. pods[s][j].phase # "terminating"
  BY ZenonT(60) DEF ListPods
<1> QED
  BY <1>6, <1>7, <1>8, SMTT(60) DEF NewNode

\* A fault, a restart or a new pod changes what is charged at its own position.
LEMMA PodChange ==
  ASSUME TypeInv, NEW s \in Shards, NEW o \in Ordinals, NEW pod,
         pods' = [pods EXCEPT ![s][o] = pod], UNCHANGED <<pc, stsNodes, todo>>
  PROVE  /\ Failing' \subseteq Failing \cup {<<s, o>>}
         /\ pods'[s][o] = pod
<1>1. pods \in [Shards -> [Ordinals -> Pods]]
  BY ZenonT(60) DEF TypeInv, TypeOK
<1>2. pods'[s][o] = pod
  BY <1>1, Zenon
<1>3. ASSUME NEW q \in Failing', q # <<s, o>> PROVE q \in Failing
  <2>1. q \in Shards \X Ordinals /\ Charged(q)'
    BY <1>3, SMTT(60) DEF Failing
  <2>2. q[1] \in Shards /\ q[2] \in Ordinals /\ ~(q[1] = s /\ q[2] = o)
    BY <1>3, <2>1, SMTT(60)
  <2>3. pods'[q[1]][q[2]] = pods[q[1]][q[2]]
    BY <1>1, <2>2, Zenon
  <2>4. Charged(q)
    BY <2>1, <2>3, Zenon DEF Charged, Ahead, Changed, IsNext
  <2> QED
    BY <2>1, <2>4, Zenon DEF Failing
<1> QED
  BY <1>2, <1>3, Zenon

\* A step of the worker that is not in ensureKubernetes or ensureFailover
\* afterwards charges nothing new.
LEMMA NothingAhead ==
  ASSUME pc' \notin {"topo", "ping", "delete"},
         \A s \in Shards, o \in Ordinals : pods'[s][o].phase = pods[s][o].phase
  PROVE  Failing' \subseteq Failing
<1>1. ASSUME NEW q \in Failing' PROVE q \in Failing
  <2>1. q \in Shards \X Ordinals /\ q[1] \in Shards /\ q[2] \in Ordinals /\ Charged(q)'
    BY <1>1 DEF Failing
  <2>2. Charged(q)
    BY <2>1, ZenonT(60) DEF Charged, Ahead
  <2> QED
    BY <2>1, <2>2, Zenon DEF Failing
<1> QED
  BY <1>1, Zenon

\* Nothing new is charged, a fault charges one more, a deletion takes one off.
NothingNew == Failing' \subseteq Failing /\ UNCHANGED <<podFaults, deletions>>

OneMore == /\ \E p : Failing' \subseteq Failing \cup {p}
           /\ podFaults' = podFaults + 1 /\ UNCHANGED deletions

OneLess == /\ \E p \in Failing : Failing' \subseteq Failing \ {p}
           /\ deletions' = deletions + 1 /\ UNCHANGED podFaults

\* The steps of the pods.
LEMMA PodsCharge ==
  ASSUME TypeInv, NEW s \in Shards, NEW o \in Ordinals,
         PodCrash(s, o) \/ PodEvict(s, o) \/ PodStep(s, o)
  PROVE  NothingNew \/ OneMore
<1>1. pods \in [Shards -> [Ordinals -> Pods]] /\ pods[s][o] \in Pods
  BY ZenonT(60) DEF TypeInv, TypeOK
<1>2. <<s, o>> \in Shards \X Ordinals /\ <<s, o>>[1] = s /\ <<s, o>>[2] = o
  OBVIOUS
<1>3. ASSUME NEW phase, SetPhase(s, o, phase), UNCHANGED <<pc, stsNodes, todo>>
      PROVE  Failing' \subseteq Failing \cup {<<s, o>>}
  <2>1. pods' = [pods EXCEPT ![s][o] = [pods[s][o] EXCEPT !.phase = phase]]
    BY <1>3, Zenon DEF SetPhase
  <2> QED
    BY <1>3, <2>1, PodChange, Zenon
<1>4. ASSUME pods[s][o].phase \in {"down", "terminating"} PROVE <<s, o>> \in Failing
  BY <1>2, <1>4, Zenon DEF Failing, Charged
<1>5. CASE PodCrash(s, o) \/ PodEvict(s, o)
  <2>1. Failing' \subseteq Failing \cup {<<s, o>>}
    BY <1>3, <1>5, ZenonT(60) DEF PodCrash, PodEvict, workerVars
  <2>2. podFaults' = podFaults + 1 /\ UNCHANGED deletions
    BY <1>5, ZenonT(60) DEF PodCrash, PodEvict, PodFault
  <2> QED
    BY <2>1, <2>2, Zenon DEF OneMore
<1>6. CASE ContainerRestart(s, o) \/ PodGone(s, o)
  <2>1. Failing' \subseteq Failing \cup {<<s, o>>}
    BY <1>3, <1>6, ZenonT(60) DEF ContainerRestart, PodGone, workerVars
  <2>2. <<s, o>> \in Failing
    BY <1>4, <1>6, ZenonT(60) DEF ContainerRestart, PodGone
  <2>3. UNCHANGED <<podFaults, deletions>>
    BY <1>6, ZenonT(60) DEF ContainerRestart, PodGone, faultVars
  <2> QED
    BY <2>1, <2>2, <2>3, Zenon DEF NothingNew
<1>7. CASE PodCreate(s, o)
  <2> DEFINE pod == [phase |-> "up", ip |-> nextIP, label |-> "none"]
  <2>1. /\ pods[s][o].phase = "gone"
        /\ pods' = [pods EXCEPT ![s][o] = pod]
        /\ UNCHANGED <<pc, stsNodes, todo, podFaults, deletions>>
    BY <1>7, ZenonT(60) DEF PodCreate, workerVars, faultVars
  <2>2. pod.phase \notin {"down", "terminating"}
    OBVIOUS
  <2> HIDE DEF pod
  <2>3. Failing' \subseteq Failing \cup {<<s, o>>} /\ pods'[s][o] = pod
    BY <2>1, PodChange, Zenon
  <2>4. ASSUME <<s, o>> \in Failing' PROVE <<s, o>> \in Failing
    <3>1. Charged(<<s, o>>)'
      BY <2>4, Zenon DEF Failing
    <3>2. \/ Ahead(<<s, o>>)' /\ Len(stsNodes'[s]) = Replicas
          \/ pc' = "delete" /\ IsNext(<<s, o>>)'
      BY <1>2, <2>2, <2>3, <3>1, Zenon DEF Charged
    <3>3. \/ Ahead(<<s, o>>) /\ Len(stsNodes[s]) = Replicas
          \/ pc = "delete" /\ IsNext(<<s, o>>)
      BY <2>1, <3>2, Zenon DEF Ahead, IsNext
    <3>4. Changed(<<s, o>>)
      BY <1>2, <2>1, Zenon DEF Changed
    <3> QED
      BY <1>2, <3>3, <3>4, Zenon DEF Failing, Charged
  <2> QED
    BY <2>1, <2>3, <2>4, Zenon DEF NothingNew
<1> QED
  BY <1>5, <1>6, <1>7, Zenon DEF PodStep

\* The loop of ensureFailover goes on with a list that has the same pods: no other
\* position is charged.
LEMMA LoopCharge ==
  ASSUME TypeInv, pc \in {"ping", "delete"}, NEW p \in todo,
         \/ ClearMark(p)
         \/ UNCHANGED stsNodes,
         pc' = "ping", todo' = todo \ {p},
         NEW q \in Shards \X Ordinals, pods'[q[1]][q[2]] = pods[q[1]][q[2]], q \in Failing'
  PROVE  q \in Failing
<1>1. q[1] \in Shards /\ Charged(q)'
  BY DEF Failing
<1>2. CASE pods'[q[1]][q[2]].phase \in {"down", "terminating"}
  BY <1>2, Zenon DEF Failing, Charged
<1>3. CASE Ahead(q)' /\ Len(stsNodes'[q[1]]) = Replicas /\ Changed(q)'
  <2>1. q \in todo
    BY <1>3 DEF Ahead
  <2>2. /\ Len(stsNodes'[q[1]]) = Len(stsNodes[q[1]])
        /\ stsNodes'[q[1]][q[2]].ip = stsNodes[q[1]][q[2]].ip
    <3>1. CASE ClearMark(p)
      BY <1>1, <2>1, <3>1, ClearMarkFacts, ZenonT(60)
    <3> QED
      BY <3>1, Zenon
  <2>3. Ahead(q) /\ Len(stsNodes[q[1]]) = Replicas /\ Changed(q)
    BY <1>3, <2>1, <2>2, Zenon DEF Ahead, Changed
  <2> QED
    BY <2>3, Zenon DEF Failing, Charged
<1> QED
  BY <1>1, <1>2, <1>3, Zenon DEF Charged

\* The steps of the worker up to the end of ensureFailover.
LEMMA WorkerCharge ==
  ASSUME ClusterInv, MarkedInv, Reconcile \/ ListPods \/ FixTopo \/ Ping \/ DeletePod
  PROVE  NothingNew \/ OneLess
<1> USE DEF ClusterInv
<1>1. pods \in [Shards -> [Ordinals -> Pods]] /\ stsNodes \in [Shards -> Seq(Nodes)]
  BY ZenonT(60) DEF TypeInv, TypeOK
<1>2. CASE Abort \/ Panic \/ Reconcile
  <2>1. pc' \notin {"topo", "ping", "delete"} /\ UNCHANGED <<pods, podFaults, deletions>>
    BY <1>2, ZenonT(60) DEF Reconcile, Abort, Panic, ProcessDies, EndReconcile, OthersUnchanged,
       clusterVars, faultVars
  <2> QED
    BY <2>1, NothingAhead, Zenon DEF NothingNew
<1>3. CASE ListPods /\ ~Abort
  <2>1. pc' = "topo" /\ UNCHANGED <<pods, podFaults, deletions>>
    BY <1>3, ZenonT(60) DEF ListPods, OthersUnchanged, clusterVars, faultVars
  <2>2. ASSUME NEW q \in Failing' PROVE q \in Failing
    <3>1. q \in Shards \X Ordinals /\ q[1] \in Shards /\ q[2] \in Ordinals /\ Charged(q)'
      BY <2>2, Zenon DEF Failing
    <3>2. pods[q[1]][q[2]].phase \in {"up", "down", "terminating", "gone"}
      <4>1. pods[q[1]][q[2]] \in Pods
        BY <1>1, <3>1, Zenon
      <4> QED
        BY <4>1 DEF Pods
    <3>3. pods[q[1]][q[2]].phase \in {"down", "terminating"}
      BY <1>3, <2>1, <3>1, <3>2, ListedFacts, ZenonT(60) DEF Charged, Changed
    <3> QED
      BY <3>1, <3>3, Zenon DEF Failing, Charged
  <2> QED
    BY <2>1, <2>2, Zenon DEF NothingNew
<1>4. CASE FixTopo /\ ~Abort /\ ~Panic
  <2>1. /\ pc = "topo" /\ pc' = "ping" /\ UNCHANGED <<pods, podFaults, deletions>>
        /\ stsNodes' = [s \in Shards |-> FixNodes(stsNodes[s], inst.topo[s])]
        /\ todo' = Positions(stsNodes)
    BY <1>4, ZenonT(60) DEF FixTopo, OthersUnchanged, clusterVars, faultVars
  <2>2. ASSUME NEW q \in Failing' PROVE q \in Failing
    <3>1. q \in Shards \X Ordinals /\ q[1] \in Shards /\ q[2] \in Ordinals /\ Charged(q)'
      BY <2>2 DEF Failing
    <3>2. CASE Ahead(q)' /\ Len(stsNodes'[q[1]]) = Replicas /\ Changed(q)'
      <4> DEFINE s == q[1]
                 j == q[2]
      <4>1. stsNodes[s] \in Seq(Nodes) /\ inst.topo[s] \in Seq(TopoNodes)
        <5>1. inst \in KVs
          BY TypeFacts, ZenonT(60)
        <5> QED
          BY <1>1, <3>1, <5>1, Zenon DEF KVs, Topos
      <4>2. stsNodes'[s] = FixNodes(stsNodes[s], inst.topo[s])
        BY <2>1, <3>1, Zenon
      <4>3. Len(stsNodes'[s]) = Len(stsNodes[s])
        BY <4>1, <4>2, FixNodesType, Zenon
      <4>4. j \in 1..Len(stsNodes[s])
        BY <3>1, <3>2, <4>3, Zenon DEF Ordinals
      <4>5. stsNodes[s][j] \in Nodes
        BY <4>1, <4>4, ElementOfSeq, Zenon
      <4>6. stsNodes'[s][j].ip = stsNodes[s][j].ip
        BY <4>2, <4>4, <4>5, ZenonT(60) DEF FixNodes, Nodes
      <4>7. Ahead(q) /\ Len(stsNodes[s]) = Replicas /\ Changed(q)
        BY <2>1, <3>2, <4>3, <4>6, Zenon DEF Ahead, Changed
      <4> QED
        BY <3>1, <4>7, Zenon DEF Failing, Charged
    <3> QED
      BY <2>1, <3>1, <3>2, Zenon DEF Failing, Charged
  <2> QED
    BY <2>1, <2>2, Zenon DEF NothingNew
<1>5. CASE Ping
  <2>1. PICK p \in todo :
          /\ IsNext(p)
          /\ \/ /\ ClearMark(p) \/ UNCHANGED stsNodes
                /\ todo' = todo \ {p}
                /\ UNCHANGED pc
             \/ /\ stsNodes[p[1]][p[2]].failover
                /\ ~Revived(stsNodes[p[1]][p[2]])
                /\ pc' = "delete"
                /\ UNCHANGED <<stsNodes, todo>>
    BY <1>5, ZenonT(60) DEF Ping
  <2>2. pc = "ping" /\ UNCHANGED <<pods, podFaults, deletions>>
    BY <1>5, ZenonT(60) DEF Ping, OthersUnchanged, clusterVars, faultVars
  <2>3. CASE /\ ClearMark(p) \/ UNCHANGED stsNodes
             /\ todo' = todo \ {p}
             /\ UNCHANGED pc
    <3>1. ASSUME NEW q \in Failing' PROVE q \in Failing
      <4>1. q \in Shards \X Ordinals
        BY <3>1, Zenon DEF Failing
      <4> QED
        BY <2>2, <2>3, <3>1, <4>1, LoopCharge, ZenonT(60)
    <3> QED
      BY <2>2, <3>1, Zenon DEF NothingNew
  <2>4. CASE /\ stsNodes[p[1]][p[2]].failover
             /\ ~Revived(stsNodes[p[1]][p[2]])
             /\ pc' = "delete"
             /\ UNCHANGED <<stsNodes, todo>>
    <3>1. p \in Failing
      <4>1. p[1] \in Shards /\ p[2] \in Ordinals /\ p = <<p[1], p[2]>>
        BY <2>2, TodoFacts, ZenonT(60)
      <4>2. p \in Shards \X Ordinals
        BY <4>1
      <4>3. Ahead(p) /\ Len(stsNodes[p[1]]) = Replicas
        BY <2>2, <2>4, Zenon DEF Ahead, MarkedInv
      <4>4. Changed(p)
        BY <2>4, <4>1, Zenon DEF Changed, Revived, Serving
      <4> QED
        BY <4>2, <4>3, <4>4, Zenon DEF Failing, Charged
    <3>2. ASSUME NEW q \in Failing' PROVE q \in Failing
      <4>1. q \in Shards \X Ordinals /\ Charged(q)'
        BY <3>2 DEF Failing
      <4>2. CASE IsNext(q)'
        <5>1. q \in todo /\ UpTo(p, q) /\ UpTo(q, p)
          BY <2>1, <2>4, <4>2, Zenon DEF IsNext
        <5>2. /\ p[1] \in Shards /\ p[2] \in Ordinals /\ p = <<p[1], p[2]>>
              /\ q[1] \in Shards /\ q[2] \in Ordinals /\ q = <<q[1], q[2]>>
          BY <2>2, <5>1, TodoFacts, ZenonT(60)
        <5>3. p[1] = q[1] /\ p[2] = q[2]
          BY <5>1, <5>2, SMTT(30) DEF UpTo, Shards, Ordinals
        <5> QED
          BY <3>1, <5>2, <5>3, Zenon
      <4>3. CASE ~IsNext(q)'
        BY <2>2, <2>4, <4>1, <4>3, ZenonT(60) DEF Failing, Charged, Ahead, Changed
      <4> QED
        BY <4>2, <4>3, Zenon
    <3> QED
      BY <2>2, <3>2, Zenon DEF NothingNew
  <2> QED
    BY <2>1, <2>3, <2>4, Zenon
<1>6. CASE DeletePod /\ ~Panic
  <2>1. PICK p \in todo : /\ IsNext(p)
                          /\ SetPhase(p[1], p[2], "gone")
                          /\ ClearMark(p)
                          /\ todo' = todo \ {p}
    BY <1>6, ZenonT(60) DEF DeletePod
  <2>2. /\ pc = "delete" /\ pc' = "ping"
        /\ deletions' = deletions + 1 /\ UNCHANGED podFaults
    BY <1>6, ZenonT(60) DEF DeletePod, faultVars
  <2>3. p[1] \in Shards /\ p[2] \in Ordinals /\ p = <<p[1], p[2]>> /\ p \in Shards \X Ordinals
    <3>1. p[1] \in Shards /\ p[2] \in Ordinals /\ p = <<p[1], p[2]>>
      BY <2>2, TodoFacts, ZenonT(60)
    <3> QED
      BY <3>1, SMT
  <2>4. p \in Failing
    BY <2>1, <2>2, <2>3, Zenon DEF Failing, Charged
  <2>5. pods' = [pods EXCEPT ![p[1]][p[2]] = [pods[p[1]][p[2]] EXCEPT !.phase = "gone"]]
    BY <2>1, ZenonT(60) DEF SetPhase
  <2>6. p \notin Failing'
    <3>1. pods'[p[1]][p[2]].phase = "gone"
      <4>1. pods[p[1]][p[2]] \in Pods
        BY <1>1, <2>3, Zenon
      <4>2. [pods[p[1]][p[2]] EXCEPT !.phase = "gone"].phase = "gone"
        BY <4>1 DEF Pods
      <4> QED
        BY <1>1, <2>3, <2>5, <4>2, Zenon
    <3>2. ~Ahead(p)'
      BY <2>1, <2>2, Zenon DEF Ahead
    <3> QED
      BY <2>2, <3>1, <3>2, Zenon DEF Failing, Charged
  <2>7. ASSUME NEW q \in Failing' PROVE q \in Failing
    <3>1. q \in Shards \X Ordinals /\ q[1] \in Shards /\ q[2] \in Ordinals /\ q = <<q[1], q[2]>>
      BY <2>7 DEF Failing
    <3>2. ~(q[1] = p[1] /\ q[2] = p[2])
      BY <2>3, <2>6, <2>7, <3>1, Zenon
    <3>3. pods'[q[1]][q[2]] = pods[q[1]][q[2]]
      BY <1>1, <2>3, <2>5, <3>1, <3>2, Zenon
    <3> QED
      BY <2>1, <2>2, <2>7, <3>1, <3>3, LoopCharge, ZenonT(60)
  <2> QED
    BY <2>2, <2>4, <2>6, <2>7, Zenon DEF OneLess
<1> QED
  BY <1>2, <1>3, <1>4, <1>5, <1>6, Zenon

\* Every step charges as many faults as happen, and deletes a pod only where one
\* is charged.
LEMMA StepCharge ==
  ASSUME ClusterInv, MarkedInv, [Next]_vars
  PROVE  NothingNew \/ OneMore \/ OneLess
<1> USE DEF ClusterInv
<1>1. ASSUME \A s \in Shards, o \in Ordinals : pods'[s][o].phase = pods[s][o].phase,
             pc' \notin {"topo", "ping", "delete"}, UNCHANGED <<podFaults, deletions>>
      PROVE  NothingNew
  BY <1>1, NothingAhead, Zenon DEF NothingNew
<1>2. ASSUME UNCHANGED <<pods, pc, stsNodes, todo, podFaults, deletions>> PROVE NothingNew
  <2>1. ASSUME NEW q \in Failing' PROVE q \in Failing
    BY <1>2, <2>1, ZenonT(60) DEF Failing, Charged, Ahead, Changed, IsNext
  <2> QED
    BY <1>2, <2>1, Zenon DEF NothingNew
<1>3. CASE Outside
  <2>1. CASE \E s \in Shards, o \in Ordinals : PodCrash(s, o) \/ PodEvict(s, o) \/ PodStep(s, o)
    BY <2>1, PodsCharge, Zenon
  <2>2. CASE CacheSync \/ (\E s \in Shards : StatusSync(s) \/ Odown(s) \/ EnsureMonitor(s))
             \/ UNCHANGED vars
    <3>1. UNCHANGED <<pods, pc, stsNodes, todo, podFaults, deletions>>
      BY <2>2, ZenonT(60) DEF CacheSync, StatusSync, Odown, EnsureMonitor, vars, clusterVars,
         workerVars, faultVars
    <3> QED
      BY <1>2, <3>1, Zenon
  <2> QED
    BY <1>3, <2>1, <2>2, Zenon DEF Outside
<1>4. CASE HandlerNext
  <2>1. UNCHANGED <<pods, podFaults, deletions>>
    BY <1>4, ZenonT(60) DEF HandlerNext, HandlerStep, handleFailover, FailoverShard, MarkFailed,
       GetNodes, UpdateTopo, FailoverShardLost, OperatorKilled, Fault, clusterVars, faultVars
  <2>2. UNCHANGED workerVars \/ pc' = "idle"
    BY <1>4, HandlerFacts, Zenon
  <2> QED
    BY <1>1, <1>2, <2>1, <2>2, ZenonT(60) DEF workerVars
<1>5. CASE Reconcile \/ ListPods \/ FixTopo \/ Ping \/ DeletePod
  BY <1>5, WorkerCharge, Zenon
<1>6. CASE EnsureRoles \/ SetNodeID
  <2>1. /\ pc' \notin {"topo", "ping", "delete"} /\ UNCHANGED <<podFaults, deletions>>
        /\ UNCHANGED pods \/ \E nodes : pods' = Labelled(nodes)
    BY <1>6, ZenonT(60) DEF EnsureRoles, SetNodeID, Abort, Panic, ProcessDies, EndReconcile,
       OthersUnchanged, clusterVars, faultVars
  <2>2. \A s \in Shards, o \in Ordinals : pods'[s][o].phase = pods[s][o].phase
    BY <2>1, LabelledFacts, ZenonT(180)
  <2> QED
    BY <1>1, <2>1, <2>2, Zenon
<1>7. CASE EndFailover \/ EnsureConfig \/ CreateCluster \/ RemoveNodes \/ AddNodes \/ SetRunning
           \/ Publish \/ AddFinalizer
  <2>1. pc' \notin {"topo", "ping", "delete"} /\ UNCHANGED <<pods, podFaults, deletions>>
    BY <1>7, ZenonT(60) DEF EndFailover, EnsureConfig, CreateCluster, RemoveNodes, AddNodes,
       SetRunning, Publish, AddFinalizer, WorkerUpdate, Abort, EndReconcile, OthersUnchanged,
       clusterVars, faultVars
  <2> QED
    BY <1>1, <2>1, Zenon
<1> QED
  BY <1>3, <1>4, <1>5, <1>6, <1>7, NextCases, ZenonT(60) DEF WorkerStep

\* There are finitely many positions.
LEMMA FailingFinite == IsFiniteSet(Failing) /\ Cardinality(Failing) \in Nat
<1>1. IsFiniteSet(Shards) /\ IsFiniteSet(Ordinals)
  BY FS_Interval, ShardsAssumption, ReplicasAssumption DEF Shards, Ordinals
<1>2. IsFiniteSet(Shards \X Ordinals)
  BY <1>1, FS_Product, Zenon
<1>3. Failing \in SUBSET (Shards \X Ordinals)
  BY DEF Failing
<1>4. IsFiniteSet(Failing)
  BY <1>2, <1>3, FS_Subset, Zenon
<1> QED
  BY <1>4, FS_CardinalityType, Zenon

\* The same after a step.
LEMMA FailingFiniteNext == IsFiniteSet(Failing') /\ Cardinality(Failing') \in Nat
<1>1. IsFiniteSet(Shards) /\ IsFiniteSet(Ordinals)
  BY FS_Interval, ShardsAssumption, ReplicasAssumption DEF Shards, Ordinals
<1>2. IsFiniteSet(Shards \X Ordinals)
  BY <1>1, FS_Product, Zenon
<1>3. Failing' \in SUBSET (Shards \X Ordinals)
  BY DEF Failing
<1>4. IsFiniteSet(Failing')
  BY <1>2, <1>3, FS_Subset, Zenon
<1> QED
  BY <1>4, FS_CardinalityType, Zenon

\* Faults and deletions keep pace.
LEMMA PaidStep ==
  ASSUME ClusterInv, MarkedInv, PaidInv, [Next]_vars
  PROVE  PaidInv'
<1>1. deletions \in Nat /\ podFaults \in Nat
  BY FaultsAssumption, SMTT(60) DEF ClusterInv, TypeInv, TypeOK
<1>2. CASE NothingNew
  <2>1. Cardinality(Failing') <= Cardinality(Failing)
    BY <1>2, FailingFinite, FS_Subset, Zenon DEF NothingNew
  <2> QED
    BY <1>1, <1>2, <2>1, FailingFinite, FailingFiniteNext, SMTT(60) DEF NothingNew, PaidInv
<1>3. CASE OneMore
  <2>1. PICK p : Failing' \subseteq Failing \cup {p}
    BY <1>3, Zenon DEF OneMore
  <2>2. IsFiniteSet(Failing \cup {p}) /\ Cardinality(Failing \cup {p}) <= Cardinality(Failing) + 1
    <3>1. /\ IsFiniteSet(Failing \cup {p})
          /\ Cardinality(Failing \cup {p}) = IF p \in Failing THEN Cardinality(Failing)
                                             ELSE Cardinality(Failing) + 1
      BY FailingFinite, FS_AddElement, Zenon
    <3> QED
      BY <3>1, FailingFinite, SMTT(60)
  <2>3. Cardinality(Failing') <= Cardinality(Failing \cup {p}) /\ Cardinality(Failing \cup {p}) \in Nat
    BY <2>1, <2>2, FS_Subset, FS_CardinalityType, Zenon
  <2> QED
    BY <1>1, <1>3, <2>2, <2>3, FailingFinite, FailingFiniteNext, SMTT(60) DEF OneMore, PaidInv
<1>4. CASE OneLess
  <2>1. PICK p \in Failing : Failing' \subseteq Failing \ {p}
    BY <1>4, Zenon DEF OneLess
  <2>2. IsFiniteSet(Failing \ {p}) /\ Cardinality(Failing \ {p}) = Cardinality(Failing) - 1
    BY FailingFinite, FS_RemoveElement, Zenon
  <2>3. Cardinality(Failing') <= Cardinality(Failing \ {p})
    BY <2>1, <2>2, FS_Subset, Zenon
  <2> QED
    BY <1>1, <1>4, <2>2, <2>3, FailingFinite, FailingFiniteNext, SMTT(60) DEF OneLess, PaidInv
<1> QED
  BY <1>2, <1>3, <1>4, StepCharge, Zenon

\* As long as every topology that is published is whole, the operator deletes no
\* more pods than have failed, however the worker, the handler, kills and conflicts
\* interleave.
THEOREM DeletionsPaidFor == Spec /\ []Whole(kv) => []NoExtraDeletion
<1>1. Init => ReadWhole /\ MarkedInv /\ PaidInv
  <2> SUFFICES ASSUME Init PROVE ReadWhole /\ MarkedInv /\ PaidInv
    BY SMTT(60)
  <2>1. ReadWhole
    BY DEF Init, ReadWhole, Whole, NewKV, NoTopo
  <2>2. Failing = {}
    <3>1. ASSUME NEW p \in Shards \X Ordinals PROVE pods[p[1]][p[2]].phase = "up"
      BY <3>1, Zenon DEF Init
    <3> QED
      BY <3>1, ZenonT(60) DEF Init, Failing, Charged, Ahead
  <2>3. PaidInv
    BY <2>2, FS_EmptySet, FaultsAssumption, SMTT(60) DEF Init, PaidInv
  <2> QED
    BY <2>1, <2>3, Zenon DEF Init, MarkedInv
<1>2. /\ ClusterInv /\ SeenInv /\ Whole(kv) /\ Whole(kv)' /\ [Next]_vars
      /\ ReadWhole /\ MarkedInv /\ PaidInv
      => (ReadWhole /\ MarkedInv /\ PaidInv)'
  BY ReadStep, MarkedStep, PaidStep, Zenon DEF ClusterInv
<1>3. ClusterInv /\ PaidInv => NoExtraDeletion
  <2> SUFFICES ASSUME ClusterInv, PaidInv PROVE NoExtraDeletion
    OBVIOUS
  <2>1. deletions \in Nat /\ podFaults \in 0..MaxPodFaults
    BY ZenonT(60) DEF ClusterInv, TypeInv, TypeOK
  <2>2. podFaults \in Nat
    BY <2>1, FaultsAssumption, SMTT(60)
  <2> QED
    BY <2>1, <2>2, FailingFinite, SMTT(60) DEF PaidInv, NoExtraDeletion
<1>4. ClusterInv /\ SeenInv /\ [Next]_vars => SeenInv'
  BY SeenStep
<1>5. Spec => []SeenInv
  BY <1>4, SeenInit, ClusterInvariant, PTL DEF Spec
<1> QED
  BY <1>1, <1>2, <1>3, <1>5, ClusterInvariant, PTL DEF Spec

-----------------------------------------------------------------------------
(* Whole topologies *)

\* The list of pods that ensureKubernetes starts from misses none, which holds
\* when no StatefulSet is shown as ready while one of its pods is missing.
ListsAll == pc = "topo" => \A s \in Shards : Len(stsNodes[s]) = Replicas

\* The object and its copies are whole, and so is the list the worker works on.
WholeInv ==
  /\ Whole(kv) /\ ReadWhole
  /\ hpc # "idle" => Whole(hinst)
  /\ pc \notin {"idle", "list"} => \A s \in Shards : Len(stsNodes[s]) = Replicas

\* What the worker publishes from a whole list is whole.
LEMMA WholeWithTopo ==
  ASSUME NEW obj \in KVs, NEW ver \in Nat, stsNodes \in [Shards -> Seq(Nodes)],
         \A s \in Shards : Len(stsNodes[s]) = Replicas
  PROVE  Whole(WithTopo(obj, stsNodes, ver))
<1>1. WithTopo(obj, stsNodes, ver).topo = [s \in Shards |-> TopoOf(stsNodes[s])]
  BY WithTopoFacts, Zenon
<1>2. ASSUME NEW s \in Shards PROVE Len(WithTopo(obj, stsNodes, ver).topo[s]) = Replicas
  <2>1. stsNodes[s] \in Seq(Nodes)
    OBVIOUS
  <2> QED
    BY <1>1, <2>1, TopoOfType, Zenon
<1> QED
  BY <1>2, Zenon DEF Whole

\* An Update stores the topology it carries.
LEMMA WholeStored ==
  ASSUME kv \in KVs, NEW obj \in KVs, Accepts(obj), Whole(obj)
  PROVE  Whole(Stored(obj))
BY StoredFacts, Zenon DEF Whole

\* Roles and ids leave a list as long as it is.
LEMMA SameLength ==
  ASSUME NEW nodes \in Seq(Nodes), NEW roles
  PROVE  /\ Len(InitRoles(nodes)) = Len(nodes)
         /\ Len(Replicated(nodes)) = Len(nodes)
         /\ Len(Identified(nodes, roles)) = Len(nodes)
<1>1. ASSUME NEW f, f = [j \in 1..Len(nodes) |-> f[j]] PROVE Len(f) = Len(nodes)
  <2>1. Len(nodes) \in Nat
    OBVIOUS
  <2>2. f \in [1..Len(nodes) -> {f[j] : j \in 1..Len(nodes)}]
    BY <1>1, Zenon
  <2> QED
    BY <2>1, <2>2, IsSequence, Zenon
<1>2. InitRoles(nodes) = [j \in 1..Len(nodes) |-> InitRoles(nodes)[j]]
  BY Zenon DEF InitRoles
<1>3. Replicated(nodes) = [j \in 1..Len(nodes) |-> Replicated(nodes)[j]]
  BY SMTT(20) DEF Replicated
<1>4. Identified(nodes, roles) = [j \in 1..Len(nodes) |-> Identified(nodes, roles)[j]]
  BY SMTT(20) DEF Identified
<1> QED
  BY <1>1, <1>2, <1>3, <1>4, Zenon

\* The worker's list stays whole until Handle returns.
LEMMA WholeList ==
  ASSUME ClusterInv, WholeInv, ListsAll', WorkerStep, pc' \notin {"idle", "list"},
         NEW s \in Shards
  PROVE  Len(stsNodes'[s]) = Replicas
<1> USE DEF ClusterInv
<1>1. stsNodes \in [Shards -> Seq(Nodes)] /\ inst \in KVs
  BY TypeFacts, ZenonT(60)
<1>2. stsNodes[s] \in Seq(Nodes) /\ inst.topo[s] \in Seq(TopoNodes)
  BY <1>1 DEF KVs, Topos
<1>3. CASE Reconcile \/ ListPods
  <2>1. pc' = "topo"
    BY <1>3, ZenonT(60) DEF Reconcile, ListPods, Abort, EndReconcile
  <2> QED
    BY <2>1, Zenon DEF ListsAll
<1>4. pc \notin {"idle", "list"} => Len(stsNodes[s]) = Replicas
  BY Zenon DEF WholeInv
<1>5. CASE FixTopo
  <2>1. pc = "topo" /\ stsNodes' = [r \in Shards |-> FixNodes(stsNodes[r], inst.topo[r])]
    BY <1>5, ZenonT(60) DEF FixTopo, Abort, Panic, ProcessDies, EndReconcile
  <2> QED
    BY <1>2, <1>4, <2>1, FixNodesType, Zenon
<1>6. CASE Ping \/ DeletePod
  <2>1. pc \in {"ping", "delete"} /\ (UNCHANGED stsNodes \/ \E p \in todo : ClearMark(p))
    BY <1>6, ZenonT(60) DEF Ping, DeletePod, Panic, ProcessDies, EndReconcile
  <2> QED
    BY <1>4, <2>1, ClearMarkFacts, ZenonT(60)
<1>7. CASE EnsureRoles
  <2>1. /\ pc = "roles"
        /\ stsNodes' = [r \in Shards |-> IF inst.status = "Creating" THEN InitRoles(stsNodes[r])
                                         ELSE Replicated(stsNodes[r])]
        /\ \A r \in Shards : stsNodes[r] # <<>>
    BY <1>7, ZenonT(60) DEF EnsureRoles, Panic, ProcessDies, EndReconcile
  <2>2. stsNodes'[s] \in {InitRoles(stsNodes[s]), Replicated(stsNodes[s])}
    BY <2>1, Zenon
  <2> QED
    BY <1>2, <1>4, <2>1, <2>2, SameLength, Zenon
<1>8. CASE SetNodeID
  <2>1. pc = "setid" /\ \A r \in Shards : Masters(r) # {}
    BY <1>8, ZenonT(60) DEF SetNodeID, Abort, Panic, ProcessDies, EndReconcile
  <2>2. stsNodes' = [r \in Shards |-> Identified(stsNodes[r], ctl[r])]
    BY <1>8, ZenonT(60) DEF SetNodeID, Abort, Panic, ProcessDies, EndReconcile
  <2>3. Len(stsNodes'[s]) = Len(stsNodes[s])
    <3>1. stsNodes'[s] = Identified(stsNodes[s], ctl[s])
      BY <2>2, Zenon
    <3> QED
      BY <1>2, <3>1, SameLength, Zenon
  <2> QED
    BY <1>4, <2>1, <2>3, Zenon
<1>9. CASE EndFailover \/ EnsureConfig \/ CreateCluster \/ RemoveNodes \/ AddNodes \/ SetRunning
           \/ Publish \/ AddFinalizer
  <2>1. pc \notin {"idle", "list"} /\ UNCHANGED stsNodes
    BY <1>9, ZenonT(60) DEF EndFailover, EnsureConfig, CreateCluster, RemoveNodes, AddNodes,
       SetRunning, Publish, AddFinalizer, WorkerUpdate, Abort, EndReconcile
  <2> QED
    BY <1>4, <2>1, Zenon
<1> QED
  BY <1>3, <1>5, <1>6, <1>7, <1>8, <1>9, ZenonT(60) DEF WorkerStep

\* Whoever publishes a topology has taken it from a whole list or a whole copy.
LEMMA WholeStep ==
  ASSUME ClusterInv, WholeInv, ListsAll', [Next]_vars
  PROVE  WholeInv'
<1> USE DEF ClusterInv
<1>1. /\ kv \in KVs /\ inst \in KVs /\ hinst \in KVs
      /\ version \in Nat /\ version + 1 \in Nat /\ stsNodes \in [Shards -> Seq(Nodes)]
  BY TypeFacts
<1>2. CASE Outside
  BY <1>2, OutsideFacts, ZenonT(60) DEF WholeInv, ReadWhole, workerVars, handlerVars
<1>3. CASE WorkerStep
  <2>1. Whole(kv')
    <3>1. CASE Reconcile \/ ListPods \/ FixTopo \/ Ping \/ DeletePod \/ EnsureConfig \/ EnsureRoles
               \/ CreateCluster \/ RemoveNodes \/ AddNodes \/ SetNodeID
      <4>1. kv' = kv
        BY <3>1, ZenonT(60) DEF Reconcile, ListPods, FixTopo, Ping, DeletePod, EnsureConfig,
           EnsureRoles, CreateCluster, RemoveNodes, AddNodes, SetNodeID, Abort, Panic,
           ProcessDies, OthersUnchanged, clusterVars
      <4> QED
        BY <4>1, Zenon DEF WholeInv
    <3>2. ASSUME NEW obj \in KVs, Whole(obj), obj.rv = inst.rv,
                 kv' = kv \/ (Accepts(inst) /\ kv' = Stored(obj))
          PROVE  Whole(kv')
      <4>1. Accepts(inst) => Accepts(obj)
        BY <3>2 DEF Accepts
      <4> QED
        BY <1>1, <3>2, <4>1, WholeStored, ZenonT(60) DEF WholeInv
    <3>3. CASE EndFailover
      <4> DEFINE obj == WithTopo(inst, stsNodes, version + 1)
      <4>1. obj \in KVs /\ obj.rv = inst.rv
        BY <1>1, WithTopoType, WithTopoFacts, ZenonT(60)
      <4>2. Whole(obj)
        <5>1. \A s \in Shards : Len(stsNodes[s]) = Replicas
          BY <3>3, ZenonT(60) DEF EndFailover, WholeInv
        <5> QED
          BY <1>1, <5>1, WholeWithTopo, Zenon
      <4>3. kv' = kv \/ (Accepts(inst) /\ kv' = Stored(obj))
        BY <3>3, ZenonT(60) DEF EndFailover, Abort, OthersUnchanged, clusterVars
      <4> HIDE DEF obj
      <4> QED
        BY <3>2, <4>1, <4>2, <4>3, Zenon
    <3>4. CASE SetRunning
      <4> DEFINE obj == [inst EXCEPT !.status = "Running"]
      <4>1. obj \in KVs /\ obj.rv = inst.rv /\ obj.topo = inst.topo
        BY <1>1 DEF KVs
      <4>2. kv' = kv \/ (Accepts(obj) /\ kv' = Stored(obj))
        BY <3>4, ZenonT(60) DEF SetRunning, WorkerUpdate
      <4>3. Whole(inst)
        BY <3>4, Zenon DEF SetRunning, WholeInv, ReadWhole
      <4> HIDE DEF obj
      <4>4. Whole(obj)
        BY <4>1, <4>3, Zenon DEF Whole
      <4> QED
        BY <1>1, <4>1, <4>2, <4>4, WholeStored, Zenon DEF WholeInv
    <3>5. CASE Publish
      <4>1. PICK ver \in Nat : WorkerUpdate(WithTopo(inst, stsNodes, ver), ver, "finalizer")
        BY <1>1, <3>5, Zenon DEF Publish
      <4> DEFINE obj == WithTopo(inst, stsNodes, ver)
      <4>2. obj \in KVs
        BY <1>1, WithTopoType, Zenon
      <4>3. Whole(obj)
        <5>1. \A s \in Shards : Len(stsNodes[s]) = Replicas
          BY <3>5, Zenon DEF Publish, WholeInv
        <5> QED
          BY <1>1, <5>1, WholeWithTopo, Zenon
      <4>4. kv' = kv \/ (Accepts(obj) /\ kv' = Stored(obj))
        BY <4>1, ZenonT(60) DEF WorkerUpdate
      <4> HIDE DEF obj
      <4> QED
        BY <1>1, <4>2, <4>3, <4>4, WholeStored, ZenonT(60) DEF WholeInv
    <3>6. CASE AddFinalizer
      <4> DEFINE topo == WithTopo(inst, stsNodes, version)
                 obj == [topo EXCEPT !.finalizer = TRUE]
      <4>1. topo \in KVs /\ topo.rv = inst.rv
        BY <1>1, WithTopoType, WithTopoFacts, ZenonT(60)
      <4>2. Whole(topo)
        <5>1. \A s \in Shards : Len(stsNodes[s]) = Replicas
          BY <3>6, Zenon DEF AddFinalizer, WholeInv
        <5> QED
          BY <1>1, <5>1, WholeWithTopo, Zenon
      <4>3. kv' = kv \/ (Accepts(inst) /\ kv' = Stored(obj))
        BY <3>6, ZenonT(60) DEF AddFinalizer
      <4> HIDE DEF topo
      <4>4. obj \in KVs /\ obj.rv = inst.rv /\ obj.topo = topo.topo
        BY <4>1, ZenonT(60) DEF KVs
      <4> HIDE DEF obj
      <4>5. Whole(obj)
        BY <4>2, <4>4, Zenon DEF Whole
      <4> QED
        BY <3>2, <4>3, <4>4, <4>5, Zenon
    <3> QED
      BY <1>3, <3>1, <3>3, <3>4, <3>5, <3>6, ZenonT(60) DEF WorkerStep
  <2>2. ReadWhole'
    BY <2>1, ReadStep, Zenon DEF WholeInv
  <2>3. hpc' # "idle" => Whole(hinst')
    BY <1>3, WorkerFacts, Zenon DEF WholeInv, handlerVars
  <2>4. pc' \notin {"idle", "list"} => \A s \in Shards : Len(stsNodes'[s]) = Replicas
    BY <1>3, WholeList, Zenon
  <2> QED
    BY <2>1, <2>2, <2>3, <2>4, Zenon DEF WholeInv
<1>4. CASE HandlerNext
  <2>1. Whole(kv')
    <3>1. CASE MarkFailed
      <4> DEFINE obj == [hinst EXCEPT !.status = "Failed", !.version = 0, !.topo = NoTopo]
      <4>1. NoTopo \in Topos
        BY DEF NoTopo, Topos
      <4>2. obj \in KVs /\ obj.rv = hinst.rv /\ obj.topo = NoTopo
        BY <1>1, <4>1, ExceptType, ZenonT(60) DEF KVs
      <4>3. kv' = kv \/ (Accepts(hinst) /\ kv' = Stored(obj))
        BY <3>1, ZenonT(60) DEF MarkFailed
      <4> HIDE DEF obj
      <4>4. Whole(obj)
        BY <4>2, SMTT(60) DEF Whole, NoTopo
      <4>5. Accepts(hinst) => Accepts(obj)
        BY <4>2 DEF Accepts
      <4> QED
        BY <1>1, <4>2, <4>3, <4>4, <4>5, WholeStored, Zenon DEF WholeInv
    <3>2. CASE UpdateTopo
      <4>1. kv' = kv \/ (Accepts(hinst) /\ kv' = Stored(hinst))
        BY <3>2, ZenonT(60) DEF UpdateTopo
      <4>2. Whole(hinst)
        BY <3>2, Zenon DEF UpdateTopo, WholeInv
      <4> QED
        BY <1>1, <4>1, <4>2, WholeStored, Zenon DEF WholeInv
    <3>3. CASE (\E m \in msgs : handleFailover(m)) \/ FailoverShard \/ FailoverShardLost
               \/ OperatorKilled \/ GetNodes
      <4>1. kv' = kv
        BY <3>3, ZenonT(60) DEF handleFailover, FailoverShard, FailoverShardLost, OperatorKilled,
           GetNodes, clusterVars
      <4> QED
        BY <4>1, Zenon DEF WholeInv
    <3> QED
      BY <1>4, <3>1, <3>2, <3>3, ZenonT(60) DEF HandlerNext, HandlerStep
  <2>2. ReadWhole'
    BY <2>1, ReadStep, Zenon DEF WholeInv
  <2>3. hpc' # "idle" => Whole(hinst')
    <3>1. CASE GetNodes /\ hpc' = "update"
      <4> DEFINE s == hmsg.shard
                 topo(m) == AfterFailover(hinst.topo[s], hmsg.ip, ctl[s], m)
      <4>1. PICK master \in Masters(s) :
              hinst' = [hinst EXCEPT !.version = @ + 1, !.topo[s] = topo(master)]
        BY <3>1, ZenonT(60) DEF GetNodes
      <4>2. s \in Shards /\ hinst.topo \in [Shards -> Seq(TopoNodes)]
        <5>1. hmsg \in Messages
          BY TypeFacts, ZenonT(60)
        <5> QED
          BY <1>1, <5>1, SMTT(60) DEF Messages, KVs, Topos
      <4>3. Len(topo(master)) = Len(hinst.topo[s])
        <5>1. /\ DOMAIN ctl[s] \subseteq Nat
              /\ \A ip \in DOMAIN ctl[s] : ctl[s][ip] \in {"master", "slave"}
          BY <4>2, ZenonT(60) DEF TypeInv, TypeOK
        <5>2. master \in Nat
          BY <4>1, <5>1, ZenonT(60) DEF Masters, MastersIn
        <5>3. hinst.topo[s] \in Seq(TopoNodes)
          BY <4>2
        <5> QED
          BY <5>1, <5>2, <5>3, AfterFailoverType, Zenon
      <4> HIDE DEF topo
      <4>4. hinst'.topo = [hinst.topo EXCEPT ![s] = topo(master)]
        BY <1>1, <4>1, ZenonT(60) DEF KVs
      <4>5. ASSUME NEW r \in Shards PROVE Len(hinst'.topo[r]) = Len(hinst.topo[r])
        BY <4>2, <4>3, <4>4, Zenon
      <4>6. Whole(hinst)
        BY <3>1, Zenon DEF GetNodes, WholeInv
      <4> QED
        BY <4>5, <4>6, Zenon DEF Whole
    <3>2. CASE ~(GetNodes /\ hpc' = "update")
      <4>1. \/ hpc' = "idle"
            \/ hinst' = cache
            \/ hpc # "idle" /\ hinst' = hinst
        BY <1>4, <3>2, ZenonT(60) DEF HandlerNext, HandlerStep, handleFailover, FailoverShard,
           FailoverShardLost, OperatorKilled, ProcessDies, MarkFailed, HandlerError, EndHandler,
           UpdateTopo, GetNodes, handlerVars
      <4> QED
        BY <4>1, Zenon DEF WholeInv, ReadWhole
    <3> QED
      BY <3>1, <3>2, Zenon
  <2>4. pc' \notin {"idle", "list"} => \A s \in Shards : Len(stsNodes'[s]) = Replicas
    BY <1>4, HandlerFacts, Zenon DEF WholeInv, workerVars
  <2> QED
    BY <2>1, <2>2, <2>3, <2>4, Zenon DEF WholeInv
<1> QED
  BY <1>2, <1>3, <1>4, NextCases, ZenonT(60)

\* As long as no list of pods misses one, every topology that is published is
\* whole, so that a position of the topology is the ordinal of a pod.
THEOREM TopologiesWhole == Spec /\ []ListsAll => []Whole(kv)
<1>1. Init => WholeInv
  BY DEF Init, WholeInv, ReadWhole, Whole, NewKV, NoTopo
<1>2. ClusterInv /\ WholeInv /\ ListsAll' /\ [Next]_vars => WholeInv'
  BY WholeStep
<1>3. WholeInv => Whole(kv)
  BY DEF WholeInv
<1> QED
  BY <1>1, <1>2, <1>3, ClusterInvariant, PTL DEF Spec

\* The same, with the condition on what the worker is told by Kubernetes.
THEOREM NoMoreDeletions == Spec /\ []ListsAll => []NoExtraDeletion
BY TopologiesWhole, DeletionsPaidFor, PTL
=============================================================================
