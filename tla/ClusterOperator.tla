--------------------------- MODULE ClusterOperator ---------------------------
(***************************************************************************)
(* A KVRocks resource of type cluster, with a fixed number of shards and   *)
(* replicas, and the two threads of the operator that read and write it:   *)
(*                                                                         *)
(*  - the reconcile worker: Reconcile and KVRocksClusterHandler.Handle     *)
(*    (pkg/controllers/kvrocks_controller.go, pkg/controllers/cluster);    *)
(*  - the failover handler: handleFailover (pkg/controllers/events).       *)
(*    e.lock admits one handler at a time (FailoverQueue), so the queue is *)
(*    the set msgs of the messages that are not done with.                 *)
(*                                                                         *)
(* Around them: the API server, which rejects an Update that carries an    *)
(* old resourceVersion; the informer cache, from which every Get is        *)
(* answered and which lags behind; the pods, their StatefulSet status and  *)
(* the kubelet; sentinel; and kvrocks-controller, which keeps the role of  *)
(* every node of a shard.  A step is one call to one of them, or a loop of *)
(* such calls where the loop's own interleaving is immaterial.             *)
(*                                                                         *)
(* What the worker and the handler compute about a shard is in Topology.   *)
(* Positions and ordinals count from 1, and 0 is the empty id.             *)
(***************************************************************************)
EXTENDS Topology, FiniteSets

CONSTANTS
  NumShards,    \* spec.master
  Replicas,     \* spec.replicas
  FaultKinds,   \* the faults that happen: of "crash", "evict", "kill", "lost"
  MaxPodFaults, \* bound on the number of faults of pods ("crash", "evict")
  MaxFaults,    \* bound on the number of other faults
  MaxRetries    \* bound on the retries of messages before their timeout

ASSUME ShardsAssumption == NumShards \in Nat \ {0}
ASSUME ReplicasAssumption == Replicas \in Nat \ {0}
ASSUME FaultsAssumption ==
  /\ FaultKinds \subseteq {"crash", "evict", "kill", "lost"}
  /\ MaxPodFaults \in Nat
  /\ MaxFaults \in Nat
ASSUME RetriesAssumption == MaxRetries \in Nat

Shards == 1..NumShards
Ordinals == 1..Replicas

VARIABLES
  (* cluster state *)
  kv,          \* the KVRocks object stored by the API server
  cache,       \* the copy of it in the operator's informer cache
  pods,        \* pods[s][o]: the pod with ordinal o of shard s's StatefulSet
  ready,       \* ready[s]: sts.Status.ReadyReplicas = *sts.Spec.Replicas
  ctl,         \* ctl[s]: the role of each node kvrocks-controller has in shard s
  monitor,     \* monitor[s]: the ip whose +odown sentinel has still to report, or 0
  (* the reconcile worker: KVRocksClusterHandler *)
  pc,
  inst,        \* h.instance
  stsNodes,    \* h.stsNodes
  version,     \* h.version
  requeue,     \* h.requeue
  change,      \* the local of ensureFailover
  todo,        \* positions ensureFailover has still to visit
  (* the failover queue and handler *)
  msgs,
  hpc,
  hmsg,        \* msg
  hinst,       \* instance
  retries,     \* retries so far
  (* bookkeeping *)
  nextIP,      \* the next pod ip the network hands out
  podFaults,   \* pods that crashed or were evicted so far
  faults,      \* other faults so far
  deletions    \* pods the operator has deleted

clusterVars == <<kv, cache, pods, ready, ctl, monitor>>
workerVars == <<pc, inst, stsNodes, version, requeue, change, todo>>
handlerVars == <<hpc, hmsg, hinst, retries>>
faultVars == <<faults, podFaults>>
vars == <<clusterVars, workerVars, msgs, handlerVars, nextIP, faultVars, deletions>>

NoTopo == [s \in Shards |-> <<>>]

NewKV == [rv |-> 1, status |-> "Creating", version |-> 0, topo |-> NoTopo,
          finalizer |-> FALSE]

NoMsg == [ip |-> 0, shard |-> 1]

\* The network gives the pods that exist from the start the first ips.
Init ==
  /\ kv = NewKV
  /\ cache = NewKV
  /\ pods = [s \in Shards |-> [o \in Ordinals |->
              [phase |-> "up", ip |-> (s - 1) * Replicas + o, label |-> "none"]]]
  /\ ready = [s \in Shards |-> TRUE]
  /\ ctl = NoTopo
  /\ monitor = [s \in Shards |-> 0]
  /\ pc = "idle"
  /\ inst = NewKV
  /\ stsNodes = NoTopo
  /\ version = 0
  /\ requeue = FALSE
  /\ change = FALSE
  /\ todo = {}
  /\ msgs = {}
  /\ hpc = "idle"
  /\ hmsg = NoMsg
  /\ hinst = NewKV
  /\ retries = 0
  /\ nextIP = NumShards * Replicas + 1
  /\ faults = 0
  /\ podFaults = 0
  /\ deletions = 0

-----------------------------------------------------------------------------
(* The API server *)

\* Mutant: an Update that overwrites whatever is stored.
AcceptsAlways(obj) == obj.rv <= kv.rv

\* UpdateKVRocks(obj) succeeds.  A write that changes nothing keeps the
\* resourceVersion.
Accepts(obj) == obj.rv = kv.rv
Stored(obj) == IF obj = kv THEN kv ELSE [obj EXCEPT !.rv = @ + 1]

\* The watch delivers the current object to the informer cache.
CacheSync ==
  /\ cache # kv
  /\ cache' = kv
  /\ UNCHANGED <<kv, pods, ready, ctl, monitor, workerVars, msgs, handlerVars, nextIP,
                 faultVars, deletions>>

-----------------------------------------------------------------------------
(* Pods, kubelet and the StatefulSet controller *)

Serving(ip) == \E s \in Shards, o \in Ordinals :
                 pods[s][o].phase = "up" /\ pods[s][o].ip = ip

Exists(s, o) == pods[s][o].phase # "gone"

SetPhase(s, o, phase) == pods' = [pods EXCEPT ![s][o].phase = phase]

Fault(kind) ==
  /\ kind \in FaultKinds
  /\ faults < MaxFaults
  /\ faults' = faults + 1
  /\ UNCHANGED podFaults

PodFault(kind) ==
  /\ kind \in FaultKinds
  /\ podFaults < MaxPodFaults
  /\ podFaults' = podFaults + 1
  /\ UNCHANGED faults

\* The kvrocks process stops answering.
PodCrash(s, o) ==
  /\ pods[s][o].phase = "up"
  /\ PodFault("crash")
  /\ SetPhase(s, o, "down")
  /\ UNCHANGED <<kv, cache, ready, ctl, monitor, workerVars, msgs, handlerVars, nextIP,
                 deletions>>

\* Somebody deletes the pod; it stops serving and terminates.
PodEvict(s, o) ==
  /\ pods[s][o].phase \in {"up", "down"}
  /\ PodFault("evict")
  /\ SetPhase(s, o, "terminating")
  /\ UNCHANGED <<kv, cache, ready, ctl, monitor, workerVars, msgs, handlerVars, nextIP,
                 deletions>>

\* The liveness probe restarts the container in place.
ContainerRestart(s, o) ==
  /\ pods[s][o].phase = "down"
  /\ SetPhase(s, o, "up")
  /\ UNCHANGED <<kv, cache, ready, ctl, monitor, workerVars, msgs, handlerVars, nextIP,
                 faultVars, deletions>>

PodGone(s, o) ==
  /\ pods[s][o].phase = "terminating"
  /\ SetPhase(s, o, "gone")
  /\ UNCHANGED <<kv, cache, ready, ctl, monitor, workerVars, msgs, handlerVars, nextIP,
                 faultVars, deletions>>

\* The StatefulSet controller creates the missing pod, with a new ip.
PodCreate(s, o) ==
  /\ pods[s][o].phase = "gone"
  /\ pods' = [pods EXCEPT ![s][o] =
                [phase |-> "up", ip |-> nextIP, label |-> "none"]]
  /\ nextIP' = nextIP + 1
  /\ UNCHANGED <<kv, cache, ready, ctl, monitor, workerVars, msgs, handlerVars, faultVars,
                 deletions>>

\* The StatefulSet status catches up with the pods.
StatusSync(s) ==
  LET allUp == \A o \in Ordinals : pods[s][o].phase = "up" IN
  /\ ready[s] # allUp
  /\ ready' = [ready EXCEPT ![s] = allUp]
  /\ UNCHANGED <<kv, cache, pods, ctl, monitor, workerVars, msgs, handlerVars, nextIP,
                 faultVars, deletions>>

\* Sentinel reports +odown for the master it monitors, and listen adds the
\* message.  It reports a master once.
Odown(s) ==
  /\ monitor[s] # 0
  /\ ~Serving(monitor[s])
  /\ msgs' = msgs \cup {[ip |-> monitor[s], shard |-> s]}
  /\ monitor' = [monitor EXCEPT ![s] = 0]
  /\ UNCHANGED <<kv, cache, pods, ready, ctl, workerVars, handlerVars, nextIP,
                 faultVars, deletions>>

-----------------------------------------------------------------------------
(* The reconcile worker *)

\* Reconcile returns; it is called again after a requeue, a retry or an event.
EndReconcile ==
  /\ pc' = "idle"
  /\ inst' = NewKV
  /\ stsNodes' = NoTopo
  /\ version' = 0
  /\ requeue' = FALSE
  /\ change' = FALSE
  /\ todo' = {}

\* The process dies: a kill or a panic.  The queue is in memory.
ProcessDies ==
  /\ EndReconcile
  /\ msgs' = {}
  /\ hpc' = "idle"
  /\ hmsg' = NoMsg
  /\ hinst' = NewKV
  /\ UNCHANGED retries

OperatorKilled ==
  /\ pc # "idle" \/ hpc # "idle" \/ msgs # {}
  /\ Fault("kill")
  /\ ProcessDies
  /\ UNCHANGED <<clusterVars, nextIP, deletions>>

\* A runtime panic (index out of range, nil pointer) is not recovered.
Panic ==
  /\ ProcessDies
  /\ UNCHANGED <<clusterVars, nextIP, faultVars, deletions>>

\* Everything but the worker's own variables.
OthersUnchanged == UNCHANGED <<clusterVars, msgs, handlerVars, nextIP, faultVars,
                               deletions>>

\* The worker returns early and leaves everything else alone.
Abort == EndReconcile /\ OthersUnchanged

\* Get the instance; a failed one is left alone.
Reconcile ==
  /\ pc = "idle"
  /\ cache.status # "Failed"
  /\ pc' = "list"
  /\ inst' = cache
  /\ UNCHANGED <<stsNodes, version, requeue, change, todo>>
  /\ OthersUnchanged

\* ListStatefulSetPods returns the pods of shard s in this order of ordinals.
IsListing(order, s) ==
  /\ {order[j] : j \in 1..Len(order)} = {o \in Ordinals : Exists(s, o)}
  /\ \A j \in 2..Len(order) : order[j - 1] < order[j]

Listings == UNION {[1..n -> Ordinals] : n \in 0..Replicas}

\* ensureKubernetes, up to the list of pods: wait for the StatefulSets to be
\* ready and for deleting pods to go.
ListPods ==
  /\ pc = "list"
  /\ \/ /\ \E s \in Shards : \/ ~ready[s]
                             \/ \E o \in Ordinals : pods[s][o].phase = "terminating"
        /\ Abort
     \/ /\ \A s \in Shards : /\ ready[s]
                             /\ \A o \in Ordinals : pods[s][o].phase # "terminating"
        /\ pc' = "topo"
        /\ \E order \in [Shards -> Listings] :
             /\ \A s \in Shards : IsListing(order[s], s)
             /\ stsNodes' = [s \in Shards |-> [j \in 1..Len(order[s]) |->
                               NewNode(pods[s][order[s][j]].ip, order[s][j])]]
        /\ UNCHANGED <<inst, version, requeue, change, todo>>
        /\ OthersUnchanged

\* All positions <<shard, index>> of nodes, and the order in which nested range
\* loops come to them.
Positions(nodes) == {p \in Shards \X Ordinals : p[2] <= Len(nodes[p[1]])}

UpTo(p, q) == p[1] < q[1] \/ (p[1] = q[1] /\ p[2] <= q[2])

\* The position at which the loop of ensureFailover is.
IsNext(p) == p \in todo /\ \A q \in todo : UpTo(p, q)

\* The rest of ensureKubernetes: compare with the cached instance, then merge
\* Status.Topo into the list of pods, position by position.
FixTopo ==
  /\ pc = "topo"
  /\ \/ /\ cache.rv # inst.rv
        /\ Abort
     \/ /\ cache.rv = inst.rv
        /\ \E s \in Shards : Len(inst.topo[s]) > Len(stsNodes[s])
        /\ Panic
     \/ /\ cache.rv = inst.rv
        /\ \A s \in Shards : Len(inst.topo[s]) <= Len(stsNodes[s])
        /\ pc' = "ping"
        /\ stsNodes' = [s \in Shards |-> FixNodes(stsNodes[s], inst.topo[s])]
        /\ version' = inst.version
        /\ todo' = Positions(stsNodes)
        /\ UNCHANGED <<inst, requeue, change>>
        /\ OthersUnchanged

\* Mutant: a marked node is deleted without asking it first.
NeverRevived(node) == FALSE

\* A node that is marked for failover answers again.
Revived(node) == Serving(node.ip)

ClearMark(p) == stsNodes' = [stsNodes EXCEPT ![p[1]][p[2]].failover = FALSE]

\* One iteration of ensureFailover: ping the node at the next position.
Ping ==
  /\ pc = "ping"
  /\ \E p \in todo :
       LET node == stsNodes[p[1]][p[2]] IN
       /\ IsNext(p)
       /\ \/ /\ node.failover
             /\ Revived(node)
             /\ ClearMark(p)
             /\ requeue' = TRUE
             /\ change' = TRUE
             /\ todo' = todo \ {p}
             /\ UNCHANGED <<pc, inst, version>>
             /\ OthersUnchanged
          \/ /\ node.failover
             /\ ~Revived(node)
             /\ requeue' = TRUE
             /\ pc' = "delete"
             /\ UNCHANGED <<inst, stsNodes, version, change, todo>>
             /\ OthersUnchanged
          \/ /\ ~node.failover
             /\ requeue' = (requeue \/ ~Serving(node.ip))
             /\ msgs' = IF Serving(node.ip) THEN msgs
                        ELSE msgs \cup {[ip |-> node.ip, shard |-> p[1]]}
             /\ todo' = todo \ {p}
             /\ UNCHANGED <<pc, inst, stsNodes, version, change, clusterVars,
                            handlerVars, nextIP, faultVars, deletions>>

\* Delete the volume and the pod at this position; the pod's name is built from
\* the position.  DeletePodImmediately dereferences the pod even when there is
\* none.
DeletePod ==
  /\ pc = "delete"
  /\ \E p \in todo :
       /\ IsNext(p)
       /\ \/ /\ ~Exists(p[1], p[2])
             /\ Panic
          \/ /\ Exists(p[1], p[2])
             /\ SetPhase(p[1], p[2], "gone")
             /\ deletions' = deletions + 1
             /\ ClearMark(p)
             /\ change' = TRUE
             /\ todo' = todo \ {p}
             /\ pc' = "ping"
             /\ UNCHANGED <<kv, cache, ready, ctl, monitor, inst, version, requeue, msgs,
                            handlerVars, nextIP, faultVars>>

\* The instance ensureStatusTopoMsg sends.
WithTopo(obj, nodes, ver) ==
  [obj EXCEPT !.topo = [s \in Shards |-> TopoOf(nodes[s])], !.version = ver]

\* The end of ensureFailover: publish a change, and go on only if every node
\* answered.
EndFailover ==
  /\ pc = "ping"
  /\ todo = {}
  /\ \/ /\ change
        /\ kv' = IF Accepts(inst)
                 THEN Stored(WithTopo(inst, stsNodes, version + 1)) ELSE kv
        /\ EndReconcile
        /\ UNCHANGED <<cache, pods, ready, ctl, monitor, msgs, handlerVars, nextIP,
                       faultVars, deletions>>
     \/ /\ ~change /\ requeue
        /\ Abort
     \/ /\ ~change /\ ~requeue
        /\ pc' = "config"
        /\ UNCHANGED <<inst, stsNodes, version, requeue, change, todo>>
        /\ OthersUnchanged

\* ensureKVRocksConfig talks to every node.
EnsureConfig ==
  /\ pc = "config"
  /\ \/ /\ \E s \in Shards : \E j \in 1..Len(stsNodes[s]) :
             ~Serving(stsNodes[s][j].ip)
        /\ Abort
     \/ /\ \A s \in Shards : \A j \in 1..Len(stsNodes[s]) :
             Serving(stsNodes[s][j].ip)
        /\ pc' = "roles"
        /\ UNCHANGED <<inst, stsNodes, version, requeue, change, todo>>
        /\ OthersUnchanged

\* updatePodLabels for every node in order, up to the first pod that is gone.
Labelled(nodes) ==
  LET node(p) == nodes[p[1]][p[2]]
      fine(p) == \A q \in Positions(nodes) : UpTo(q, p) => Exists(q[1], node(q).idx)
      role(s, o) == {node(p).role : p \in {q \in Positions(nodes) :
                                            q[1] = s /\ node(q).idx = o /\ fine(q)}}
  IN [s \in Shards |-> [o \in Ordinals |->
       IF role(s, o) = {} THEN pods[s][o]
       ELSE [pods[s][o] EXCEPT !.label = CHOOSE r \in role(s, o) : TRUE]]]

AllPodsExist(nodes) ==
  \A s \in Shards : \A j \in 1..Len(nodes[s]) : Exists(s, nodes[s][j].idx)

\* initCluster or ensureReplication.
EnsureRoles ==
  /\ pc = "roles"
  /\ \/ /\ \E s \in Shards : stsNodes[s] = <<>>
        /\ Panic
     \/ /\ \A s \in Shards : stsNodes[s] # <<>>
        /\ LET nodes == [s \in Shards |-> IF inst.status = "Creating"
                                          THEN InitRoles(stsNodes[s])
                                          ELSE Replicated(stsNodes[s])]
           IN /\ pods' = Labelled(nodes)
              /\ \/ /\ ~AllPodsExist(nodes)
                    /\ EndReconcile
                 \/ /\ AllPodsExist(nodes)
                    /\ stsNodes' = nodes
                    /\ pc' = IF inst.status = "Creating" THEN "create" ELSE "remove"
                    /\ UNCHANGED <<inst, version, requeue, change, todo>>
        /\ UNCHANGED <<kv, cache, ready, ctl, monitor, msgs, handlerVars, nextIP, faultVars,
                       deletions>>

\* Mutant: the client reports that the cluster exists, which ends the reconcile.
CreateClusterOnce ==
  /\ pc = "create"
  /\ \/ /\ ctl # NoTopo
        /\ Abort
     \/ /\ ctl = NoTopo
        /\ ctl' = [s \in Shards |->
                     [ip \in {stsNodes[s][j].ip : j \in Ordinals} |->
                        IF ip = stsNodes[s][1].ip THEN "master" ELSE "slave"]]
        /\ pc' = "setid"
        /\ UNCHANGED <<kv, cache, pods, ready, monitor, inst, stsNodes, version,
                       requeue, change, todo, msgs, handlerVars, nextIP,
                       faultVars, deletions>>

\* CreateCluster.  kvrocks-controller makes the first node of each group of
\* Replicas nodes a master.  It refuses a cluster that exists and a list it
\* cannot divide; the client reports neither.
CreateCluster ==
  /\ pc = "create"
  /\ ctl' = IF ctl = NoTopo /\ \A s \in Shards : Len(stsNodes[s]) = Replicas
            THEN [s \in Shards |->
                    [ip \in {stsNodes[s][j].ip : j \in Ordinals} |->
                       IF ip = stsNodes[s][1].ip THEN "master" ELSE "slave"]]
            ELSE ctl
  /\ pc' = "setid"
  /\ UNCHANGED <<kv, cache, pods, ready, monitor, inst, stsNodes, version, requeue,
                 change, todo, msgs, handlerVars, nextIP, faultVars, deletions>>

\* updateCluster, first loop: forget the nodes whose pod is not there.
RemoveNodes ==
  /\ pc = "remove"
  /\ ctl' = [s \in Shards |-> Kept(ctl[s], stsNodes[s])]
  /\ pc' = "add"
  /\ UNCHANGED <<kv, cache, pods, ready, monitor, inst, stsNodes, version, requeue,
                 change, todo, msgs, handlerVars, nextIP, faultVars, deletions>>

\* updateCluster, second loop: a refusal ends the reconcile; earlier additions
\* stay.
AddNodes ==
  /\ pc = "add"
  /\ LET refused(s) == Refused(ctl[s], stsNodes[s]) # {}
         stop == \E s \in Shards : refused(s)
     IN /\ ctl' = [s \in Shards |-> IF \E r \in 1..(s - 1) : refused(r) THEN ctl[s]
                                    ELSE Extended(ctl[s], stsNodes[s])]
        /\ \/ /\ stop
              /\ EndReconcile
           \/ /\ ~stop
              /\ pc' = "setid"
              /\ UNCHANGED <<inst, stsNodes, version, requeue, change, todo>>
  /\ UNCHANGED <<kv, cache, pods, ready, monitor, msgs, handlerVars, nextIP,
                 faultVars, deletions>>

Masters(s) == MastersIn(ctl[s])

\* ensureSetNodeID.
SetNodeID ==
  /\ pc = "setid"
  /\ \/ /\ \E s \in Shards : DOMAIN ctl[s] = {}
        /\ Panic
     \/ /\ \A s \in Shards : DOMAIN ctl[s] # {}
        /\ \E s \in Shards : Masters(s) = {}
        /\ Abort
     \/ /\ \A s \in Shards : Masters(s) # {}
        /\ LET nodes == [s \in Shards |-> Identified(stsNodes[s], ctl[s])]
           IN /\ pods' = Labelled(nodes)
              /\ \/ /\ ~AllPodsExist(nodes)
                    /\ EndReconcile
                 \/ /\ AllPodsExist(nodes)
                    /\ stsNodes' = nodes
                    /\ pc' = "running"
                    /\ UNCHANGED <<inst, version, requeue, change, todo>>
        /\ UNCHANGED <<kv, cache, ready, ctl, monitor, msgs, handlerVars, nextIP, faultVars,
                       deletions>>

\* An Update of the worker in the middle of Handle: continue with what the API
\* server stored, or return on a conflict.
WorkerUpdate(obj, ver, next) ==
  /\ \/ /\ Accepts(obj)
        /\ kv' = Stored(obj)
        /\ inst' = Stored(obj)
        /\ version' = ver
        /\ pc' = next
        /\ UNCHANGED <<stsNodes, requeue, change, todo>>
     \/ /\ ~Accepts(obj)
        /\ EndReconcile
        /\ UNCHANGED kv
  /\ UNCHANGED <<cache, pods, ready, ctl, monitor, msgs, handlerVars, nextIP, faultVars,
                 deletions>>

\* Mutant: the status is not set.
SetRunningForgotten ==
  /\ pc = "running"
  /\ WorkerUpdate(inst, version, "publish")

\* The end of ensureCluster.
SetRunning ==
  /\ pc = "running"
  /\ WorkerUpdate([inst EXCEPT !.status = "Running"], version, "publish")

\* ensureVersion: has the topology changed since it was last published?
ShouldBump(topo, nodes) ==
  topo = NoTopo \/ \E s \in Shards : ChangedSince(topo[s], nodes[s])

\* ensureVersion and ensureStatusTopoMsg at the end of ensureKVRocksStatus.
Publish ==
  /\ pc = "publish"
  /\ LET ver == IF ShouldBump(inst.topo, stsNodes) THEN version + 1 ELSE version
     IN WorkerUpdate(WithTopo(inst, stsNodes, ver), ver, "finalizer")

\* ensureMigrate publishes the same topology again, ensureSentinel adds the
\* finalizer; nothing is left to shrink or to clean.
AddFinalizer ==
  /\ pc = "finalizer"
  /\ kv' = IF Accepts(inst)
           THEN Stored([WithTopo(inst, stsNodes, version) EXCEPT !.finalizer = TRUE])
           ELSE kv
  /\ EndReconcile
  /\ UNCHANGED <<cache, pods, ready, ctl, monitor, msgs, handlerVars, nextIP, faultVars,
                 deletions>>

\* The sentinel instance is reconciled by the same worker, between two
\* reconciles of this one: ensureMonitor lets sentinel watch the node of the
\* shard that says it is the master.
EnsureMonitor(s) ==
  /\ pc = "idle"
  /\ cache.status = "Running"
  /\ \E o \in Ordinals :
       /\ pods[s][o].ip \in Masters(s)
       /\ \A p \in 1..o : pods[s][p].phase = "up"
       /\ monitor[s] # pods[s][o].ip
       /\ monitor' = [monitor EXCEPT ![s] = pods[s][o].ip]
  /\ UNCHANGED <<kv, cache, pods, ready, ctl, workerVars, msgs, handlerVars,
                 nextIP, faultVars, deletions>>

WorkerStep ==
  \/ Reconcile \/ ListPods \/ FixTopo \/ Ping \/ DeletePod \/ EndFailover
  \/ EnsureConfig \/ EnsureRoles \/ CreateCluster \/ RemoveNodes \/ AddNodes
  \/ SetNodeID \/ SetRunning \/ Publish \/ AddFinalizer

-----------------------------------------------------------------------------
(* The failover handler *)

EndHandler ==
  /\ hpc' = "idle"
  /\ hmsg' = NoMsg
  /\ hinst' = NewKV

\* Mutant: the timeout of the message is not looked at.
HandlerErrorForever ==
  /\ EndHandler
  /\ retries' = retries + 1
  /\ UNCHANGED msgs

\* handleFailover returns an error: the message is sent again, or given up when
\* it is older than its timeout.
HandlerError ==
  /\ EndHandler
  /\ \/ /\ retries < MaxRetries
        /\ retries' = retries + 1
        /\ UNCHANGED msgs
     \/ /\ msgs' = msgs \ {hmsg}
        /\ UNCHANGED retries

\* Lock, and get the instance; a failed one needs no failover.
handleFailover(m) ==
  /\ hpc = "idle"
  /\ m \in msgs
  /\ \/ /\ cache.status = "Failed"
        /\ msgs' = msgs \ {m}
        /\ UNCHANGED handlerVars
     \/ /\ cache.status # "Failed"
        /\ hpc' = "failover"
        /\ hmsg' = m
        /\ hinst' = cache
        /\ UNCHANGED <<msgs, retries>>
  /\ UNCHANGED <<clusterVars, workerVars, nextIP, faultVars, deletions>>

\* The nodes kvrocks-controller can promote in shard s.
Promotable(s) == {ip \in DOMAIN ctl[s] : ctl[s][ip] # "master" /\ Serving(ip)}

Promote(s, new) == ctl' = [ctl EXCEPT ![s] = Promoted(@, new)]

\* FailoverShard is answered.  With no node to promote the answer is an error;
\* otherwise sentinel stops watching the old master.
FailoverShard ==
  /\ hpc = "failover"
  /\ LET s == hmsg.shard IN
     \/ \E new \in Promotable(s) :
          /\ Promote(s, new)
          /\ \/ /\ hinst.topo[s] = <<>>
                /\ ProcessDies
                /\ UNCHANGED monitor
             \/ /\ hinst.topo[s] # <<>>
                /\ hpc' = "nodes"
                /\ monitor' = IF IsMasterFailover(hinst.topo[s], hmsg.ip)
                              THEN [monitor EXCEPT ![s] = 0] ELSE monitor
                /\ UNCHANGED <<workerVars, msgs, hmsg, hinst, retries>>
     \/ /\ Promotable(s) = {}
        /\ hpc' = "fail"
        /\ UNCHANGED <<ctl, monitor, workerVars, msgs, hmsg, hinst, retries>>
  /\ UNCHANGED <<kv, cache, pods, ready, nextIP, faultVars, deletions>>

\* The request or its answer is lost: the failover may have been done, the
\* client returns an error.
FailoverShardLost ==
  /\ hpc = "failover"
  /\ Fault("lost")
  /\ \/ \E new \in Promotable(hmsg.shard) : Promote(hmsg.shard, new)
     \/ UNCHANGED ctl
  /\ hpc' = "fail"
  /\ UNCHANGED <<kv, cache, pods, ready, monitor, workerVars, msgs, hmsg, hinst,
                 retries, nextIP, deletions>>

\* FailoverShard failed, or the shard has no master: the whole status is
\* replaced by a failed one.
MarkFailed ==
  /\ hpc = "fail"
  /\ \/ /\ Accepts(hinst)
        /\ kv' = Stored([hinst EXCEPT !.status = "Failed", !.version = 0,
                                      !.topo = NoTopo])
        /\ EndHandler
        /\ msgs' = msgs \ {hmsg}
        /\ UNCHANGED retries
     \/ /\ ~Accepts(hinst)
        /\ HandlerError
        /\ UNCHANGED kv
  /\ UNCHANGED <<cache, pods, ready, ctl, monitor, workerVars, nextIP, faultVars, deletions>>

\* GetNodes, and the new topology.
GetNodes ==
  /\ hpc = "nodes"
  /\ LET s == hmsg.shard
     IN \/ /\ Masters(s) = {}
           /\ hpc' = "fail"
           /\ UNCHANGED hinst
        \/ \E master \in Masters(s) :
             /\ hinst' = [hinst EXCEPT
                  !.version = @ + 1,
                  !.topo[s] = AfterFailover(@, hmsg.ip, ctl[s], master)]
             /\ hpc' = "update"
  /\ UNCHANGED <<clusterVars, workerVars, msgs, hmsg, retries, nextIP, faultVars,
                 deletions>>

UpdateTopo ==
  /\ hpc = "update"
  /\ \/ /\ Accepts(hinst)
        /\ kv' = Stored(hinst)
        /\ EndHandler
        /\ msgs' = msgs \ {hmsg}
        /\ UNCHANGED retries
     \/ /\ ~Accepts(hinst)
        /\ HandlerError
        /\ UNCHANGED kv
  /\ UNCHANGED <<cache, pods, ready, ctl, monitor, workerVars, nextIP, faultVars, deletions>>

HandlerStep == FailoverShard \/ MarkFailed \/ GetNodes \/ UpdateTopo

-----------------------------------------------------------------------------
PodStep(s, o) == ContainerRestart(s, o) \/ PodGone(s, o) \/ PodCreate(s, o)

Next ==
  \/ CacheSync
  \/ \E s \in Shards, o \in Ordinals : PodCrash(s, o) \/ PodEvict(s, o)
  \/ \E s \in Shards, o \in Ordinals : PodStep(s, o)
  \/ \E s \in Shards : StatusSync(s) \/ Odown(s) \/ EnsureMonitor(s)
  \/ WorkerStep
  \/ \E m \in msgs : handleFailover(m)
  \/ HandlerStep
  \/ FailoverShardLost
  \/ OperatorKilled

Spec == Init /\ [][Next]_vars

\* The watch delivers updates, the kubelet and the StatefulSet controller do
\* their work, and the two goroutines run.  Reconcile is called again after a
\* requeue, an error or a change of the instance or of a StatefulSet.
Fairness ==
  /\ WF_vars(CacheSync)
  /\ \A s \in Shards : /\ WF_vars(StatusSync(s))
                       /\ \A o \in Ordinals : WF_vars(PodStep(s, o))
  /\ WF_vars(WorkerStep)
  /\ WF_vars(HandlerStep \/ \E m \in msgs : handleFailover(m))

FairSpec == Spec /\ Fairness

-----------------------------------------------------------------------------
(* Properties *)

Roles == {"none", "master", "slave"}

TopoNodes == [ip : Nat, id : Nat, role : Roles, master : Nat, failover : BOOLEAN]

Nodes == [ip : Nat, idx : Ordinals, id : Nat, role : Roles, master : Nat,
          failover : BOOLEAN]

Topos == [Shards -> Seq(TopoNodes)]

KVs == [rv : Nat, status : {"Creating", "Running", "Failed"}, version : Nat,
        topo : Topos, finalizer : BOOLEAN]

Pods == [phase : {"up", "down", "terminating", "gone"}, ip : Nat, label : Roles]

Messages == [ip : Nat, shard : Shards]

\* The values the variables range over.
TypeOK ==
  /\ kv \in KVs
  /\ cache \in KVs
  /\ pods \in [Shards -> [Ordinals -> Pods]]
  /\ ready \in [Shards -> BOOLEAN]
  /\ \A s \in Shards : /\ DOMAIN ctl[s] \subseteq Nat
                       /\ \A ip \in DOMAIN ctl[s] : ctl[s][ip] \in {"master", "slave"}
  /\ monitor \in [Shards -> Nat]
  /\ pc \in {"idle", "list", "topo", "ping", "delete", "config", "roles",
             "create", "remove", "add", "setid", "running", "publish",
             "finalizer"}
  /\ inst \in KVs
  /\ stsNodes \in [Shards -> Seq(Nodes)]
  /\ version \in Nat
  /\ requeue \in BOOLEAN
  /\ change \in BOOLEAN
  /\ todo \subseteq Shards \X Ordinals
  /\ msgs \subseteq Messages
  /\ hpc \in {"idle", "failover", "nodes", "update", "fail"}
  /\ hmsg \in Messages
  /\ hinst \in KVs
  /\ retries \in 0..MaxRetries
  /\ nextIP \in Nat
  /\ faults \in 0..MaxFaults
  /\ podFaults \in 0..MaxPodFaults
  /\ deletions \in Nat

\* What a client of the cluster sees of a topology: addresses and roles.
View(topo) ==
  [s \in Shards |-> [j \in 1..Len(topo[s]) |-> <<topo[s][j].ip, topo[s][j].role>>]]

Views == [Shards -> Seq(Nat \X Roles)]

Published == INSTANCE PublishedStatus WITH status <- kv.status, version <- kv.version,
                                           view <- View(kv.topo), Unpublished <- NoTopo

\* The status of the resource implements PublishedStatus: every change of the
\* addresses or roles is published under the next version, whoever publishes
\* it, until the cluster is declared failed.  Two topologies never share a
\* version and none is skipped, although the worker and the handler each
\* compute the next version from a copy they read earlier.
PublishesInOrder == Published!Spec

\* A failed instance is final: neither a reconcile that started before the
\* failure nor another handler brings it back.
FailedIsFinal == [][kv.status = "Failed" => kv' = kv]_vars

\* The instance never goes back to Creating, so CreateCluster is never repeated
\* for a cluster that has published its topology.
PublishedIsNotCreating == kv.topo # NoTopo => kv.status = "Running"

\* A failover mark leaves the status only in a handler's update, or in the
\* update of a worker that has read the mark and dealt with the node: found it
\* alive again or deleted its pod.  ensureStatusTopoMsg drops every mark, so
\* this rests on the resourceVersion check alone.
MarkNotLost ==
  [][ \A s \in Shards : \A j \in 1..Len(kv.topo[s]) :
        /\ kv.topo[s][j].failover
        /\ kv'.status # "Failed"
        /\ j \in 1..Len(kv'.topo[s])
        /\ ~kv'.topo[s][j].failover
        => \/ hpc = "update" /\ hpc' = "idle"
           \/ inst.topo[s][j].failover /\ change ]_vars

\* The operator deletes no more pods than have failed: a pod is not deleted
\* again because the worker crashed, or lost the race to publish, after it
\* deleted it the first time.  In general this takes published topologies that
\* list all pods: ensureFailover names a pod by its position, which is not its
\* ordinal when the list it came from missed a pod.
NoExtraDeletion == deletions <= podFaults

\* The resource describes the cluster: every pod serves, and the status has its
\* address, and the role kvrocks-controller gives it, as the pod's label does.
Converged ==
  /\ kv.status = "Running"
  /\ kv.finalizer
  /\ msgs = {}
  /\ \A s \in Shards :
       /\ Len(kv.topo[s]) = Replicas
       /\ DOMAIN ctl[s] = {pods[s][o].ip : o \in Ordinals}
       /\ Cardinality(Masters(s)) = 1
       /\ \A o \in Ordinals :
            LET pod == pods[s][o]
                t == kv.topo[s][o]
            IN /\ pod.phase = "up"
               /\ t.ip = pod.ip
               /\ t.id = pod.ip
               /\ t.role = ctl[s][pod.ip]
               /\ t.master = IF t.role = "master" THEN 0
                             ELSE CHOOSE m \in Masters(s) : TRUE
               /\ ~t.failover
               /\ pod.label = t.role

\* After the last fault the operator brings the cluster and its resource into
\* agreement for good: whatever the point at which the operator is killed, the
\* next one completes the bootstrap (CreateCluster is sent again for a cluster
\* that exists, labels are written again, versions are not skipped).
Recovers == <>[]Converged

\* The end-to-end tests "test recover when slave down" and "test recover when
\* master down": after a pod of a cluster that is up has been deleted, the
\* cluster is up again.
RecoversFromPodLoss == [](Converged => []<>Converged)
=============================================================================
