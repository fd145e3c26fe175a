---------------------------- MODULE ClusterScaling ----------------------------
(***************************************************************************)
(* Changing spec.replicas of a running cluster, seen at one of its shards. *)
(*                                                                         *)
(* Scaling up is a write to the StatefulSet.  Scaling down takes two       *)
(* reconciles: the first publishes the topology without the nodes that go, *)
(* and Status.Shrink, the ordinals to reserve (ensureShrink); the next one *)
(* resizes the StatefulSet and clears Status.Shrink (cleanStatefulSet).    *)
(* Status.Topo is matched with the pods by position, reserved ordinals and *)
(* volume claims by ordinal.                                               *)
(*                                                                         *)
(* The steps in between that ClusterOperator takes one by one are taken    *)
(* together here, and a failover is one step that the API server accepts.  *)
(* Pods fail only as far as a master may be unreachable for sentinel for a *)
(* while.  Ordinals count from 0, positions from 1; an ip stands for the id*)
(* kvrocks-controller gives the node.                                      *)
(***************************************************************************)
EXTENDS Topology, ReserveOrdinals

CONSTANTS
  Sizes,        \* the values the user gives to spec.replicas
  InitialSize,  \* its first value
  Patient,      \* the user waits for one edit to take effect before the next
  MaxEdits,     \* bound on the number of edits of spec.replicas
  MaxOutages,   \* bound on the number of outages of a master
  MaxKills,     \* bound on the number of times the operator is killed
  MaxUpdates,   \* bound on the updates of the instance when a reconcile starts
  MaxStale      \* bound on the number of reconciles that read an old instance

ASSUME SizesAssumption == /\ Sizes \subseteq Nat \ {0} /\ InitialSize \in Sizes
                          /\ \E n \in Sizes : \A m \in Sizes : m <= n
ASSUME PatientAssumption == Patient \in BOOLEAN
ASSUME BoundsAssumption == /\ MaxEdits \in Nat /\ MaxOutages \in Nat
                           /\ MaxKills \in Nat /\ MaxUpdates \in Nat
                           /\ MaxStale \in Nat

VARIABLES
  kv,            \* the KVRocks object stored by the API server
  cache,         \* the copy of it in the informer cache
  sts,           \* the StatefulSet: replicas and reserved ordinals
  readyReplicas, \* sts.Status.ReadyReplicas
  pods,          \* the pods that exist, by ordinal
  pvcs,          \* the ordinals of the volume claims that exist
  doomed,        \* those of them that go when the pod that uses them goes
  ctl,           \* the role of each node kvrocks-controller has in the shard
  msgs,          \* the ips in the failover queue
  (* the worker: KVRocksClusterHandler *)
  pc,
  inst,          \* h.instance
  stsNodes,      \* h.stsNodes[0]
  pos,           \* the node ensureFailover comes to next
  requeue,       \* h.requeue
  change,        \* the local of ensureFailover
  (* bookkeeping *)
  nextIP,
  edits,
  outages,
  kills,
  stale

claimVars == <<pvcs, doomed>>
podVars == <<readyReplicas, pods, claimVars>>
workerVars == <<pc, inst, stsNodes, pos, requeue, change>>
countVars == <<edits, outages, kills, stale>>
vars == <<kv, cache, sts, podVars, ctl, msgs, workerVars, nextIP, countVars>>

\* Status.Shrink; reserve is the shard's ReserveMsg.
NoShrink == [on |-> FALSE, reserve |-> <<>>]

\* The cluster runs, and an earlier failover has left its master at ordinal m.
Init ==
  /\ \E m \in 0..(InitialSize - 1) :
       LET role(ip) == IF ip = m + 1 THEN "master" ELSE "slave" IN
       /\ ctl = [ip \in 1..InitialSize |-> role(ip)]
       /\ kv = [rv |-> 1, status |-> "Running", replicas |-> InitialSize,
                version |-> 1, shrink |-> NoShrink,
                topo |-> [ip \in 1..InitialSize |->
                  [ip |-> ip, id |-> ip, role |-> role(ip), failover |-> FALSE,
                   master |-> IF ip = m + 1 THEN 0 ELSE m + 1]]]
  /\ cache = kv
  /\ sts = [replicas |-> InitialSize, reserve |-> <<>>]
  /\ readyReplicas = InitialSize
  /\ pods = [o \in 0..(InitialSize - 1) |-> [ip |-> o + 1, up |-> TRUE]]
  /\ pvcs = 0..(InitialSize - 1)
  /\ doomed = {}
  /\ msgs = {}
  /\ pc = "idle"
  /\ inst = kv
  /\ stsNodes = <<>>
  /\ pos = 1
  /\ requeue = FALSE
  /\ change = FALSE
  /\ nextIP = InitialSize + 1
  /\ edits = 0
  /\ outages = 0
  /\ kills = 0
  /\ stale = 0

-----------------------------------------------------------------------------
(* The API server and the user *)

\* Mutant: updates are not compared with the stored version.
AcceptsAny(obj) == TRUE

Accepts(obj) == obj.rv = kv.rv
Stored(obj) == IF obj = kv THEN kv ELSE [obj EXCEPT !.rv = @ + 1]

CacheSync ==
  /\ cache # kv
  /\ cache' = kv
  /\ UNCHANGED <<kv, sts, podVars, ctl, msgs, workerVars, nextIP, countVars>>

UpPods == {o \in DOMAIN pods : pods[o].up}

\* The ordinals of the masters that serve.
Masters == {o \in UpPods : pods[o].ip \in MastersIn(ctl)}

\* The instance runs with spec.replicas nodes, the status and
\* kvrocks-controller know just these, and there is a claim for each.
Resized ==
  /\ kv.status = "Running"
  /\ ~kv.shrink.on
  /\ DOMAIN pods = UpPods
  /\ Cardinality(UpPods) = kv.replicas
  /\ Len(kv.topo) = kv.replicas
  /\ DOMAIN ctl = {pods[o].ip : o \in UpPods}
  /\ Cardinality(Masters) = 1
  /\ \A j \in 1..Len(kv.topo) :
       /\ kv.topo[j].ip \in DOMAIN ctl
       /\ kv.topo[j].id = kv.topo[j].ip
       /\ kv.topo[j].role = ctl[kv.topo[j].ip]
  /\ pvcs = UpPods

EditReplicas(n) ==
  /\ edits < MaxEdits
  /\ Patient => Resized
  /\ n # kv.replicas
  /\ kv' = Stored([kv EXCEPT !.replicas = n])
  /\ edits' = edits + 1
  /\ UNCHANGED <<cache, sts, podVars, ctl, msgs, workerVars, nextIP, outages, kills,
                 stale>>

-----------------------------------------------------------------------------
(* The StatefulSet controller and its pods *)

Serving(ip) == \E o \in UpPods : pods[o].ip = ip

PodCreate(o) ==
  /\ o \in Desired(sts) \ DOMAIN pods
  /\ pods' = [p \in DOMAIN pods \cup {o} |->
                IF p = o THEN [ip |-> nextIP, up |-> TRUE] ELSE pods[p]]
  /\ pvcs' = pvcs \cup {o}
  /\ nextIP' = nextIP + 1
  /\ UNCHANGED <<kv, cache, sts, readyReplicas, doomed, ctl, msgs, workerVars, countVars>>

PodScaleDown(o) ==
  /\ o \in UpPods \ Desired(sts)
  /\ pods' = [pods EXCEPT ![o].up = FALSE]
  /\ UNCHANGED <<kv, cache, sts, readyReplicas, claimVars, ctl, msgs, workerVars,
                 nextIP, countVars>>

\* The pod goes, and with it its claim if that has been deleted.
Removed(o) ==
  /\ pods' = [p \in DOMAIN pods \ {o} |-> pods[p]]
  /\ doomed' = doomed \ {o}

PodGone(o) ==
  /\ o \in DOMAIN pods \ UpPods
  /\ Removed(o)
  /\ pvcs' = pvcs \ (doomed \cap {o})
  /\ UNCHANGED <<kv, cache, sts, readyReplicas, ctl, msgs, workerVars, nextIP, countVars>>

StatusSync ==
  /\ readyReplicas # Cardinality(UpPods)
  /\ readyReplicas' = Cardinality(UpPods)
  /\ UNCHANGED <<kv, cache, sts, pods, claimVars, ctl, msgs, workerVars, nextIP,
                 countVars>>

-----------------------------------------------------------------------------
(* Failover *)

\* Sentinel cannot reach the master for a while and reports it.
Odown(ip) ==
  /\ outages < MaxOutages
  /\ ip \in MastersIn(ctl)
  /\ msgs' = msgs \cup {ip}
  /\ outages' = outages + 1
  /\ UNCHANGED <<kv, cache, sts, podVars, ctl, workerVars, nextIP, edits, kills, stale>>

\* handleFailover, once it has read the current instance.
handleFailover(ip) ==
  /\ ip \in msgs
  /\ cache = kv
  /\ msgs' = msgs \ {ip}
  /\ LET slaves == {n \in DOMAIN ctl \ MastersIn(ctl) : Serving(n)}
     IN \/ /\ kv.status = "Failed"
           /\ UNCHANGED <<kv, ctl>>
        \/ /\ kv.status # "Failed"
           /\ slaves = {}
           /\ kv' = Stored([kv EXCEPT !.status = "Failed", !.version = 0,
                                      !.topo = <<>>, !.shrink = NoShrink])
           /\ UNCHANGED ctl
        \/ /\ kv.status # "Failed"
           /\ \E new \in slaves :
                /\ ctl' = Promoted(ctl, new)
                /\ kv' = Stored([kv EXCEPT !.version = @ + 1,
                                  !.topo = AfterFailover(@, ip, ctl', new)])
  /\ UNCHANGED <<cache, sts, podVars, workerVars, nextIP, countVars>>

-----------------------------------------------------------------------------
(* The reconcile worker *)

\* Mutant: the handler is used again for the next reconcile.
HandlerReused ==
  /\ pc' = "idle"
  /\ inst' = cache
  /\ UNCHANGED <<stsNodes, pos, requeue, change>>

EndReconcile ==
  /\ pc' = "idle"
  /\ inst' = cache
  /\ stsNodes' = <<>>
  /\ pos' = 1
  /\ requeue' = FALSE
  /\ change' = FALSE

Abort == EndReconcile /\ UNCHANGED <<kv, cache, sts, podVars, ctl, msgs, nextIP, countVars>>

\* A panic ends the process, and the queue with it.
Panic ==
  /\ EndReconcile
  /\ msgs' = {}
  /\ UNCHANGED <<kv, cache, sts, podVars, ctl, nextIP, countVars>>

OperatorKilled ==
  /\ kills < MaxKills
  /\ pc # "idle"
  /\ EndReconcile
  /\ msgs' = {}
  /\ kills' = kills + 1
  /\ UNCHANGED <<kv, cache, sts, podVars, ctl, nextIP, edits, outages, stale>>

Goto(label) ==
  /\ pc' = label
  /\ UNCHANGED <<inst, stsNodes, pos, requeue, change>>

Reconcile ==
  /\ pc = "idle"
  /\ cache.status # "Failed"
  /\ kv.rv <= MaxUpdates
  /\ \/ cache = kv /\ UNCHANGED stale
     \/ cache # kv /\ stale < MaxStale /\ stale' = stale + 1
  /\ inst' = cache
  /\ pc' = IF cache.shrink.on THEN "clean" ELSE "scale"
  /\ UNCHANGED <<kv, cache, sts, podVars, ctl, msgs, stsNodes, pos, requeue, change,
                 nextIP, edits, outages, kills>>

\* cleanStatefulSet: the StatefulSet gets the size of the specification and
\* more reserved ordinals ...
cleanStatefulSet ==
  /\ pc = "clean"
  /\ sts' = [replicas |-> inst.replicas, reserve |-> sts.reserve \o inst.shrink.reserve]
  /\ Goto("unshrink")
  /\ UNCHANGED <<kv, cache, podVars, ctl, msgs, nextIP, countVars>>

\* An Update of the worker: go on with what is stored, or return on a conflict.
WorkerUpdate(obj, label) ==
  /\ \/ /\ Accepts(obj)
        /\ kv' = Stored(obj)
        /\ inst' = Stored(obj)
        /\ pc' = label
        /\ UNCHANGED <<stsNodes, pos, requeue, change>>
     \/ /\ ~Accepts(obj)
        /\ EndReconcile
        /\ UNCHANGED kv
  /\ UNCHANGED <<cache, sts, podVars, ctl, msgs, nextIP, countVars>>

\* ... and Status.Shrink is cleared.
ClearShrink ==
  /\ pc = "unshrink"
  /\ WorkerUpdate([inst EXCEPT !.shrink = NoShrink, !.version = @ + 1], "scale")

\* ensureKubernetes: scale up, and wait for the StatefulSet to be ready.
ScaleUp ==
  /\ pc = "scale"
  /\ sts' = IF inst.replicas > sts.replicas
            THEN [replicas |-> inst.replicas,
                  reserve |-> Unreserved(sts.reserve, inst.replicas - sts.replicas)]
            ELSE sts
  /\ IF readyReplicas # sts'.replicas THEN EndReconcile ELSE Goto("list")
  /\ UNCHANGED <<kv, cache, podVars, ctl, msgs, nextIP, countVars>>

\* List the pods in the order of their ordinals, unless one is being deleted.
ListPods ==
  /\ pc = "list"
  /\ \/ /\ UpPods # DOMAIN pods
        /\ Abort
     \/ /\ UpPods = DOMAIN pods
        /\ LET order == Ascending(DOMAIN pods)
           IN stsNodes' = [j \in 1..Len(order) |-> NewNode(pods[order[j]].ip, order[j])]
        /\ pc' = "topo"
        /\ UNCHANGED <<kv, cache, sts, podVars, ctl, msgs, inst, pos, requeue, change,
                       nextIP, countVars>>

\* The rest of ensureKubernetes.
FixTopo ==
  /\ pc = "topo"
  /\ \/ cache.rv # inst.rv /\ Abort
     \/ cache.rv = inst.rv /\ Len(inst.topo) > Len(stsNodes) /\ Panic
     \/ /\ cache.rv = inst.rv /\ Len(inst.topo) <= Len(stsNodes)
        /\ stsNodes' = FixNodes(stsNodes, inst.topo)
        /\ pc' = "ping"
        /\ UNCHANGED <<kv, cache, sts, podVars, ctl, msgs, inst, pos, requeue, change,
                       nextIP, countVars>>

\* One iteration of ensureFailover.  The pod of a marked node that does not
\* answer is deleted, with its claim; its name is built from the position.
Ping ==
  /\ pc = "ping"
  /\ pos <= Len(stsNodes)
  /\ LET node == stsNodes[pos]
         unmarked == /\ stsNodes' = [stsNodes EXCEPT ![pos].failover = FALSE]
                     /\ requeue' = TRUE
                     /\ change' = TRUE
     IN \/ /\ node.failover /\ Serving(node.ip)
           /\ unmarked
           /\ pos' = pos + 1
           /\ UNCHANGED <<pods, claimVars, msgs, pc, inst>>
        \/ /\ node.failover /\ ~Serving(node.ip) /\ (pos - 1) \in DOMAIN pods
           /\ unmarked
           /\ Removed(pos - 1)
           /\ pvcs' = pvcs \ {pos - 1}
           /\ pos' = pos + 1
           /\ UNCHANGED <<msgs, pc, inst>>
        \/ /\ node.failover /\ ~Serving(node.ip) /\ (pos - 1) \notin DOMAIN pods
           /\ pvcs' = pvcs \ {pos - 1}
           /\ msgs' = {}
           /\ EndReconcile
           /\ UNCHANGED <<pods, doomed>>
        \/ /\ ~node.failover
           /\ msgs' = IF Serving(node.ip) THEN msgs ELSE msgs \cup {node.ip}
           /\ requeue' = (requeue \/ ~Serving(node.ip))
           /\ pos' = pos + 1
           /\ UNCHANGED <<pods, claimVars, pc, inst, stsNodes, change>>
  /\ UNCHANGED <<kv, cache, sts, readyReplicas, ctl, nextIP, countVars>>

\* The instance ensureStatusTopoMsg sends.
WithTopo(obj, nodes, ver) == [obj EXCEPT !.topo = TopoOf(nodes), !.version = ver]

\* The end of ensureFailover.
EndFailover ==
  /\ pc = "ping"
  /\ pos > Len(stsNodes)
  /\ \/ /\ change
        /\ kv' = IF Accepts(inst)
                 THEN Stored(WithTopo(inst, stsNodes, inst.version + 1)) ELSE kv
        /\ EndReconcile
        /\ UNCHANGED <<cache, sts, podVars, ctl, msgs, nextIP, countVars>>
     \/ ~change /\ requeue /\ Abort
     \/ /\ ~change /\ ~requeue
        /\ Goto("update")
        /\ UNCHANGED <<kv, cache, sts, podVars, ctl, msgs, nextIP, countVars>>

\* ensureKVRocksConfig, ensureReplication and updateCluster.  kvrocks-controller
\* refuses a second master, which ends the reconcile.
updateCluster ==
  /\ pc = "update"
  /\ LET nodes == Replicated(stsNodes)
         kept == Kept(ctl, nodes)
     IN \/ /\ \E j \in 1..Len(nodes) : ~Serving(nodes[j].ip)
           /\ Abort
        \/ /\ \A j \in 1..Len(nodes) : Serving(nodes[j].ip)
           /\ ctl' = Extended(kept, nodes)
           /\ \/ Refused(kept, nodes) # {} /\ EndReconcile
              \/ /\ Refused(kept, nodes) = {}
                 /\ stsNodes' = nodes
                 /\ pc' = "setid"
                 /\ UNCHANGED <<inst, pos, requeue, change>>
           /\ UNCHANGED <<kv, cache, sts, podVars, msgs, nextIP, countVars>>

\* ensureSetNodeID.
SetNodeID ==
  /\ pc = "setid"
  /\ \/ MastersIn(ctl) = {} /\ Abort
     \/ /\ MastersIn(ctl) # {}
        /\ stsNodes' = Identified(stsNodes, ctl)
        /\ pc' = "publish"
        /\ UNCHANGED <<kv, cache, sts, podVars, ctl, msgs, inst, pos, requeue, change,
                       nextIP, countVars>>

\* ensureVersion and ensureStatusTopoMsg.
Publish ==
  /\ pc = "publish"
  /\ LET bump == inst.topo = <<>> \/ ChangedSince(inst.topo, stsNodes)
     IN WorkerUpdate(WithTopo(inst, stsNodes, inst.version + (IF bump THEN 1 ELSE 0)),
                     "shrink")

\* Mutant: the topology keeps the nodes that go.
NothingRemoved(nodes, delta) == nodes

\* getReserveIndex removes the node at the position of each victim's ordinal.
Remaining(nodes, delta) ==
  LET stays == Ascending({j \in 1..Len(nodes) : (j - 1) \notin Victims(nodes, delta)})
  IN [k \in 1..Len(stays) |-> nodes[stays[k]]]

\* ensureShrink: with too many nodes, publish those that remain and what to
\* reserve.  An ordinal beyond the list of nodes is an index out of range.
ensureShrink ==
  /\ pc = "shrink"
  /\ LET delta == Len(stsNodes) - inst.replicas
         obj == [WithTopo(inst, Remaining(stsNodes, delta), inst.version) EXCEPT
                   !.shrink = [on |-> TRUE, reserve |-> Reserve(stsNodes, delta)]]
     IN \/ /\ Len(stsNodes) <= inst.replicas
           /\ Goto("pvc")
           /\ UNCHANGED <<kv, cache, sts, podVars, ctl, msgs, nextIP, countVars>>
        \/ /\ Len(stsNodes) > inst.replicas
           /\ \E o \in Victims(stsNodes, delta) : o >= Len(stsNodes)
           /\ Panic
        \/ /\ Len(stsNodes) > inst.replicas
           /\ \A o \in Victims(stsNodes, delta) : o < Len(stsNodes)
           /\ kv' = IF Accepts(obj) THEN Stored(obj) ELSE kv
           /\ EndReconcile
           /\ UNCHANGED <<cache, sts, podVars, ctl, msgs, nextIP, countVars>>

\* Mutant: the claims of pods that are gone stay.
ClaimsStay == pc = "pvc" /\ Abort

\* Mutant: the claims are matched with the nodes by position.
ClaimsByPosition ==
  /\ pc = "pvc"
  /\ LET unused == pvcs \ 0..(Len(stsNodes) - 1)
     IN /\ pvcs' = pvcs \ (unused \ DOMAIN pods)
        /\ doomed' = doomed \cup (unused \cap DOMAIN pods)
  /\ EndReconcile
  /\ UNCHANGED <<kv, cache, sts, readyReplicas, pods, ctl, msgs, nextIP, countVars>>

\* Delete the claims of pods that are not in the list; one in use goes with its
\* pod.
cleanPersistentVolumeClaim ==
  /\ pc = "pvc"
  /\ LET unused == pvcs \ {stsNodes[j].idx : j \in 1..Len(stsNodes)}
     IN /\ pvcs' = pvcs \ (unused \ DOMAIN pods)
        /\ doomed' = doomed \cup (unused \cap DOMAIN pods)
  /\ EndReconcile
  /\ UNCHANGED <<kv, cache, sts, readyReplicas, pods, ctl, msgs, nextIP, countVars>>

WorkerStep ==
  \/ Reconcile \/ cleanStatefulSet \/ ClearShrink \/ ScaleUp \/ ListPods \/ FixTopo
  \/ Ping \/ EndFailover \/ updateCluster \/ SetNodeID \/ Publish \/ ensureShrink
  \/ cleanPersistentVolumeClaim

-----------------------------------------------------------------------------
\* Enough for the ordinals of any StatefulSet of these sizes.
MaxSize == CHOOSE n \in Sizes : \A m \in Sizes : m <= n
Ordinals == 0..((2 + MaxEdits) * MaxSize)

PodStep(o) == PodCreate(o) \/ PodScaleDown(o) \/ PodGone(o)

Next ==
  \/ CacheSync
  \/ \E n \in Sizes : EditReplicas(n)
  \/ \E o \in Ordinals : PodStep(o)
  \/ StatusSync
  \/ \E ip \in DOMAIN ctl : Odown(ip)
  \/ \E ip \in msgs : handleFailover(ip)
  \/ WorkerStep
  \/ OperatorKilled

Spec == Init /\ [][Next]_vars

\* The watch delivers updates, the StatefulSet controller does its work, and
\* reconciles and handlers run.
Fairness ==
  /\ WF_vars(CacheSync)
  /\ WF_vars(StatusSync)
  /\ \A o \in Ordinals : WF_vars(PodStep(o))
  /\ WF_vars(\E ip \in msgs : handleFailover(ip))
  /\ WF_vars(WorkerStep)

FairSpec == Spec /\ Fairness

-----------------------------------------------------------------------------
(* Properties *)

Roles == {"none", "master", "slave"}

Pods == [ip : Nat, up : BOOLEAN]
Entries == [ip : Nat, id : Nat, role : Roles, master : Nat, failover : BOOLEAN]
Nodes == [ip : Nat, idx : Ordinals, id : Nat, role : Roles, master : Nat,
          failover : BOOLEAN]
KVs == [rv : Nat, status : {"Running", "Failed"}, replicas : Sizes, version : Nat,
        shrink : [on : BOOLEAN, reserve : Seq(Ordinals)], topo : Seq(Entries)]

\* The values the variables range over.
TypeOK ==
  /\ {kv, cache, inst} \subseteq KVs
  /\ sts \in [replicas : Sizes, reserve : Seq(Ordinals)]
  /\ readyReplicas \in Nat
  /\ DOMAIN pods \subseteq Ordinals
  /\ \A o \in DOMAIN pods : pods[o] \in Pods
  /\ pvcs \subseteq Ordinals
  /\ doomed \subseteq pvcs \cap DOMAIN pods
  /\ DOMAIN ctl \subseteq 1..(nextIP - 1)
  /\ \A ip \in DOMAIN ctl : ctl[ip] \in {"master", "slave"}
  /\ msgs \subseteq 1..(nextIP - 1)
  /\ pc \in {"idle", "clean", "unshrink", "scale", "list", "topo", "ping", "update",
             "setid", "publish", "shrink", "pvc"}
  /\ stsNodes \in Seq(Nodes)
  /\ pos \in 1..(Len(stsNodes) + 1)
  /\ {requeue, change} \subseteq BOOLEAN
  /\ {nextIP, edits, outages, kills, stale} \subseteq Nat

\* The user has edited spec.replicas at most once.
FirstEdit == edits <= 1

\* A step never takes the pod of a serving master because the StatefulSet does
\* not want its ordinal: getReserveIndex passes over the master, and the
\* ordinals below it are reserved before the StatefulSet shrinks.
MasterSurvivesShrink ==
  [][\A o \in Masters : o \notin Desired(sts) => o \in UpPods']_vars

\* During a first edit cleanPersistentVolumeClaim and ensureFailover never delete
\* the claim of an ordinal the StatefulSet wants, although they work with the
\* pods listed before.
KeepsVolumes ==
  [][FirstEdit => (pvcs \ doomed) \cap Desired(sts) \subseteq pvcs' \ doomed']_vars

\* During a first edit an entry of Status.Topo never pairs the ip of one node
\* with the id of another, although ensureKubernetes copies the ids by position.
TopoPairs ==
  FirstEdit => \A j \in 1..Len(kv.topo) : kv.topo[j].id \in {0, kv.topo[j].ip}

\* The two places that index the nodes of a shard with something else than their
\* position stay within the list: the loop over Status.Topo in ensureKubernetes,
\* and nodes[id] = nil in getReserveIndex, where id is the ordinal of a pod.
IndexInRange ==
  /\ pc = "topo" /\ cache.rv = inst.rv => Len(inst.topo) <= Len(stsNodes)
  /\ pc = "shrink" /\ Len(stsNodes) > inst.replicas =>
       \A o \in Victims(stsNodes, Len(stsNodes) - inst.replicas) : o < Len(stsNodes)

\* The worker sends the whole object, spec included, with every update of the
\* status: still only the user changes spec.replicas.
UserOwnsReplicas == [][kv'.replicas # kv.replicas => edits' # edits]_vars

\* Status.Version never goes back, except to 0 when the instance fails: the
\* worker computes it from its own copy, and handleFailover from another.
VersionNeverFalls == [][kv'.version < kv.version => kv'.status = "Failed"]_vars

\* An edit of spec.replicas takes effect: in the end there are that many nodes,
\* with one master, and the status, kvrocks-controller and the volume claims
\* agree with the pods.
Settles == <>[]Resized
=============================================================================
