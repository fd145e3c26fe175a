-------------------------- MODULE StandardOperator --------------------------
(***************************************************************************)
(* A KVRocks resource of type standard: one master and its slaves in one   *)
(* StatefulSet, watched by sentinel.                                       *)
(*                                                                         *)
(*  - the reconcile worker: KVRocksStandardHandler.Handle                  *)
(*    (pkg/controllers/standard), one step per call or loop of calls;      *)
(*  - the sentinel handler's ensureSentinel (pkg/controllers/sentinel),    *)
(*    which the same worker runs between two reconciles of this instance;  *)
(*  - around them, the API server with its informer cache, the StatefulSet *)
(*    controller of OpenKruise, sentinel, and the user who edits           *)
(*    spec.replicas.                                                       *)
(*                                                                         *)
(* A pod starts with "slaveof 127.0.0.1" in its configuration, which is    *)
(* master |-> 0 here.  An ip is never reused.                              *)
(***************************************************************************)
EXTENDS ReserveOrdinals

CONSTANTS
  Sizes,        \* the values the user gives to spec.replicas
  InitialSize,  \* its first value
  Budgets       \* bounds on the edits, evictions and kills of a behaviour

ASSUME SizesAssumption == /\ Sizes \subseteq Nat \ {0} /\ InitialSize \in Sizes
                          /\ \E n \in Sizes : \A m \in Sizes : m <= n
ASSUME BudgetsAssumption == Budgets \subseteq [edit : Nat, evict : Nat, kill : Nat]

VARIABLES
  kv,            \* the KVRocks object stored by the API server
  cache,         \* the copy of it in the informer cache
  sts,           \* the StatefulSet: replicas and reserved ordinals
  readyReplicas, \* sts.Status.ReadyReplicas
  pods,          \* the pods that exist, by ordinal
  pvcs,          \* the ordinals of the volume claims that exist
  doomed,        \* those of them that go when the pod that uses them goes
  watched,       \* the ip sentinel takes for the master, or 0
  (* the worker: KVRocksStandardHandler *)
  pc,
  inst,          \* h.instance
  stsNodes,      \* h.stsNodes
  masterIP,      \* the local of ensureKVRocksReplication
  pos,           \* the node its loop comes to next
  (* bookkeeping *)
  nextIP,
  budget,        \* the edits, evictions and kills that may still happen
  evicted        \* a pod has been evicted

workerVars == <<pc, inst, stsNodes, masterIP, pos>>
claimVars == <<pvcs, doomed>>
envVars == <<sts, readyReplicas, pods, claimVars, watched>>
vars == <<kv, cache, envVars, workerVars, nextIP, budget, evicted>>

KV(status, finalizer) ==
  [rv |-> 1, replicas |-> InitialSize, status |-> status, finalizer |-> finalizer]

Pod(ip, role, master, label) ==
  [ip |-> ip, up |-> TRUE, role |-> role, master |-> master, label |-> label]

\* The instance has just been created, or it runs and earlier failovers have
\* left its master at the ordinal m.
Init ==
  /\ \/ /\ kv = KV("Creating", FALSE)
        /\ pods = [o \in 0..(InitialSize - 1) |-> Pod(o + 1, "slave", 0, "none")]
        /\ watched = 0
     \/ \E m \in 0..(InitialSize - 1) :
          /\ kv = KV("Running", TRUE)
          /\ pods = [o \in 0..(InitialSize - 1) |->
                       IF o = m THEN Pod(o + 1, "master", 0, "master")
                       ELSE Pod(o + 1, "slave", m + 1, "slave")]
          /\ watched = m + 1
  /\ cache = kv
  /\ sts = [replicas |-> InitialSize, reserve |-> <<>>]
  /\ readyReplicas = InitialSize
  /\ pvcs = 0..(InitialSize - 1)
  /\ doomed = {}
  /\ pc = "idle"
  /\ inst = kv
  /\ stsNodes = <<>>
  /\ masterIP = 0
  /\ pos = 1
  /\ nextIP = InitialSize + 1
  /\ budget \in Budgets
  /\ evicted = FALSE

-----------------------------------------------------------------------------
(* The API server and the user *)

Accepts(obj) == obj.rv = kv.rv
Stored(obj) == IF obj = kv THEN kv ELSE [obj EXCEPT !.rv = @ + 1]

CacheSync ==
  /\ cache # kv
  /\ cache' = kv
  /\ UNCHANGED <<kv, envVars, workerVars, nextIP, budget, evicted>>

Spend(event) == budget[event] > 0 /\ budget' = [budget EXCEPT ![event] = @ - 1]

EditReplicas(n) ==
  /\ Spend("edit")
  /\ n # kv.replicas
  /\ kv' = Stored([kv EXCEPT !.replicas = n])
  /\ UNCHANGED <<cache, envVars, workerVars, nextIP, evicted>>

-----------------------------------------------------------------------------
(* The StatefulSet controller, its pods, and sentinel *)

Exists(o) == o \in DOMAIN pods

Serves(o, ip) == Exists(o) /\ pods[o].up /\ pods[o].ip = ip

UpPods == {o \in DOMAIN pods : pods[o].up}

Stop(o) == pods' = [pods EXCEPT ![o].up = FALSE]

\* Create a missing pod and, where there is none, its volume claim.
PodCreate(o) ==
  /\ o \in Desired(sts) \ DOMAIN pods
  /\ pods' = [p \in DOMAIN pods \cup {o} |->
                IF p = o THEN Pod(nextIP, "slave", 0, "none") ELSE pods[p]]
  /\ pvcs' = pvcs \cup {o}
  /\ nextIP' = nextIP + 1
  /\ UNCHANGED <<kv, cache, sts, readyReplicas, doomed, watched, workerVars, budget, evicted>>

\* Stop a pod that is not wanted any more; the claim stays.
PodScaleDown(o) ==
  /\ o \in UpPods \ Desired(sts)
  /\ Stop(o)
  /\ UNCHANGED <<kv, cache, sts, readyReplicas, claimVars, watched, workerVars, nextIP,
                 budget, evicted>>

\* Somebody deletes the pod.
PodEvict(o) ==
  /\ Spend("evict")
  /\ evicted' = TRUE
  /\ o \in UpPods
  /\ Stop(o)
  /\ UNCHANGED <<kv, cache, sts, readyReplicas, claimVars, watched, workerVars, nextIP>>

PodGone(o) ==
  /\ o \in DOMAIN pods \ UpPods
  /\ pods' = [p \in DOMAIN pods \ {o} |-> pods[p]]
  /\ pvcs' = pvcs \ (doomed \cap {o})
  /\ doomed' = doomed \ {o}
  /\ UNCHANGED <<kv, cache, sts, readyReplicas, watched, workerVars, nextIP,
                 budget, evicted>>

StatusSync ==
  /\ readyReplicas # Cardinality(UpPods)
  /\ readyReplicas' = Cardinality(UpPods)
  /\ UNCHANGED <<kv, cache, sts, pods, claimVars, watched, workerVars, nextIP, budget, evicted>>

\* External: the master sentinel watches is down, or says it is a slave: sentinel
\* promotes one of the slaves it knows and points the others to it.
SentinelFailover(o) ==
  /\ watched # 0
  /\ ~\E p \in UpPods : pods[p].ip = watched /\ pods[p].role = "master"
  /\ o \in UpPods
  /\ pods[o].master = watched
  /\ pods' = [p \in DOMAIN pods |->
                IF p = o THEN [pods[p] EXCEPT !.role = "master", !.master = 0]
                ELSE IF pods[p].up /\ pods[p].master = watched
                     THEN [pods[p] EXCEPT !.master = pods[o].ip]
                ELSE pods[p]]
  /\ watched' = pods[o].ip
  /\ UNCHANGED <<kv, cache, sts, readyReplicas, claimVars, workerVars, nextIP, budget, evicted>>

\* The sentinel handler's ensureSentinel: the first pod that says it is the
\* master, if every pod before it answers, is the one to watch.
EnsureMonitor ==
  /\ pc = "idle"
  /\ cache.status = "Running"
  /\ \E o \in UpPods :
       /\ pods[o].role = "master"
       /\ \A p \in DOMAIN pods : p < o => pods[p].up /\ pods[p].role # "master"
       /\ watched # pods[o].ip
       /\ watched' = pods[o].ip
  /\ UNCHANGED <<kv, cache, sts, readyReplicas, pods, claimVars, workerVars, nextIP,
                 budget, evicted>>

-----------------------------------------------------------------------------
(* The reconcile worker *)

\* Mutant: a handler that is used again without its loop starting over.
EndReconcileKeepsPos ==
  /\ pc' = "idle"
  /\ inst' = cache
  /\ stsNodes' = <<>>
  /\ masterIP' = 0
  /\ UNCHANGED pos

EndReconcile ==
  /\ pc' = "idle"
  /\ inst' = cache
  /\ stsNodes' = <<>>
  /\ masterIP' = 0
  /\ pos' = 1

Abort == EndReconcile /\ UNCHANGED <<kv, cache, envVars, nextIP, budget, evicted>>

OperatorKilled ==
  /\ Spend("kill")
  /\ pc # "idle"
  /\ EndReconcile
  /\ UNCHANGED <<kv, cache, envVars, nextIP, evicted>>

Reconcile ==
  /\ pc = "idle"
  /\ pc' = "scale"
  /\ inst' = cache
  /\ UNCHANGED <<kv, cache, envVars, stsNodes, masterIP, pos, nextIP, budget, evicted>>

\* The first part of ensureKubernetes: scale up, and wait for the pods.
ScaleUp ==
  /\ pc = "scale"
  /\ sts' = IF inst.replicas > sts.replicas
            THEN [replicas |-> inst.replicas,
                  reserve |-> Unreserved(sts.reserve, inst.replicas - sts.replicas)]
            ELSE sts
  /\ \/ /\ readyReplicas # sts'.replicas
        /\ EndReconcile
     \/ /\ readyReplicas = sts'.replicas
        /\ pc' = "list"
        /\ UNCHANGED <<inst, stsNodes, masterIP, pos>>
  /\ UNCHANGED <<kv, cache, readyReplicas, pods, claimVars, watched, nextIP, budget, evicted>>

\* The rest of ensureKubernetes: list the pods and ask each for its role.
ListPods ==
  /\ pc = "list"
  /\ \/ /\ UpPods # DOMAIN pods
        /\ Abort
     \/ /\ UpPods = DOMAIN pods
        /\ LET order == Ascending(DOMAIN pods)
           IN stsNodes' = [j \in 1..Len(order) |->
                LET pod == pods[order[j]]
                IN [ip |-> pod.ip, idx |-> order[j], role |-> pod.role]]
        /\ pc' = "master"
        /\ UNCHANGED <<kv, cache, envVars, inst, masterIP, pos, nextIP, budget, evicted>>

MastersOf(nodes) == {nodes[j].ip : j \in {k \in 1..Len(nodes) : IsMaster(nodes[k])}}

\* Mutant: an instance without a master gets its first pod as master.
FindMasterOrFirst ==
  /\ pc = "master"
  /\ stsNodes # <<>>
  /\ masterIP' = IF MastersOf(stsNodes) = {} THEN stsNodes[1].ip
                 ELSE CHOOSE ip \in MastersOf(stsNodes) : TRUE
  /\ stsNodes' = IF MastersOf(stsNodes) = {}
                 THEN [stsNodes EXCEPT ![1].role = "master"] ELSE stsNodes
  /\ pods' = IF MastersOf(stsNodes) = {} /\ Serves(stsNodes[1].idx, stsNodes[1].ip)
             THEN [pods EXCEPT ![stsNodes[1].idx].role = "master",
                               ![stsNodes[1].idx].master = 0]
             ELSE pods
  /\ pc' = "roles"
  /\ UNCHANGED <<kv, cache, sts, readyReplicas, claimVars, watched, inst, pos, nextIP,
                 budget, evicted>>

\* ensureKVRocksReplication decides on the master: while the instance is being
\* created the first pod, afterwards the one that says so.  With none, or more
\* than one, the reconcile ends.
FindMaster ==
  /\ pc = "master"
  /\ LET masters == IF inst.status # "Creating" THEN MastersOf(stsNodes)
                    ELSE {stsNodes[j].ip : j \in {1} \cap 1..Len(stsNodes)}
     IN \/ /\ \E ip \in masters : masters = {ip} /\ masterIP' = ip
           /\ pc' = "roles"
           /\ UNCHANGED <<kv, cache, envVars, inst, stsNodes, pos, nextIP, budget,
                          evicted>>
        \/ /\ Cardinality(masters) # 1
           /\ Abort

\* One iteration of its loop.  The master is only labelled, or made the master
\* while the instance is being created; another node follows the master unless
\* it does already.  Labels go to the pod of that ordinal, whatever its ip.
EnsureRole ==
  /\ pc = "roles"
  /\ pos <= Len(stsNodes)
  /\ LET node == stsNodes[pos]
         isMaster == node.ip = masterIP
         role == IF isMaster THEN "master" ELSE "slave"
         asked == ~isMaster \/ inst.status = "Creating"
         told(pod) == IF ~asked \/ (~isMaster /\ pod.master = masterIP) THEN pod
                      ELSE [pod EXCEPT !.role = role,
                                       !.master = IF isMaster THEN 0 ELSE masterIP]
     IN \/ /\ (asked /\ ~Serves(node.idx, node.ip)) \/ ~Exists(node.idx)
           /\ Abort
        \/ /\ asked => Serves(node.idx, node.ip)
           /\ Exists(node.idx)
           /\ pods' = [pods EXCEPT ![node.idx] = [told(@) EXCEPT !.label = role]]
           /\ stsNodes' = [stsNodes EXCEPT ![pos].role = role]
           /\ pos' = pos + 1
           /\ UNCHANGED <<kv, cache, sts, readyReplicas, claimVars, watched, pc, inst,
                          masterIP, nextIP, budget, evicted>>

\* The end of ensureKVRocksReplication: the instance runs, or has its finalizer.
UpdateInstance ==
  /\ pc = "roles"
  /\ pos > Len(stsNodes)
  /\ LET obj == IF inst.status = "Creating" THEN [inst EXCEPT !.status = "Running"]
                ELSE [inst EXCEPT !.finalizer = TRUE]
     IN \/ /\ obj # inst /\ ~Accepts(obj)
           /\ Abort
        \/ /\ obj = inst \/ Accepts(obj)
           /\ kv' = IF obj = inst THEN kv ELSE Stored(obj)
           /\ inst' = IF obj = inst THEN inst ELSE Stored(obj)
           /\ pc' = "resize"
           /\ UNCHANGED <<cache, envVars, stsNodes, masterIP, pos, nextIP, budget,
                          evicted>>

\* Mutant: scaling down by one is overlooked.
ResizeByMoreThanOne ==
  /\ pc = "resize"
  /\ \/ /\ Len(stsNodes) <= inst.replicas + 1
        /\ pc' = "pvc"
        /\ UNCHANGED <<kv, cache, envVars, inst, stsNodes, masterIP, pos, nextIP,
                       budget, evicted>>
     \/ /\ Len(stsNodes) > inst.replicas + 1
        /\ sts' = [replicas |-> inst.replicas,
                   reserve |-> Reserve(stsNodes, Len(stsNodes) - inst.replicas)]
        /\ EndReconcile
        /\ UNCHANGED <<kv, cache, readyReplicas, pods, claimVars, watched, nextIP, budget,
                       evicted>>

\* Scale down: the StatefulSet is written anew, its reserved ordinals included.
resizeStatefulSet ==
  /\ pc = "resize"
  /\ \/ /\ Len(stsNodes) <= inst.replicas
        /\ pc' = "pvc"
        /\ UNCHANGED <<kv, cache, envVars, inst, stsNodes, masterIP, pos, nextIP,
                       budget, evicted>>
     \/ /\ Len(stsNodes) > inst.replicas
        /\ sts' = [replicas |-> inst.replicas,
                   reserve |-> Reserve(stsNodes, Len(stsNodes) - inst.replicas)]
        /\ EndReconcile
        /\ UNCHANGED <<kv, cache, readyReplicas, pods, claimVars, watched, nextIP, budget,
                       evicted>>

\* Delete the claims of a set of ordinals; one in use goes with its pod.
DeleteClaims(S) ==
  /\ pvcs' = pvcs \ (S \ DOMAIN pods)
  /\ doomed' = doomed \cup (S \cap pvcs \cap DOMAIN pods)

\* Mutant: positions in the list are taken for ordinals.
CleanByPosition ==
  /\ pc = "pvc"
  /\ DeleteClaims({o \in pvcs : o >= Len(stsNodes)})
  /\ EndReconcile
  /\ UNCHANGED <<kv, cache, sts, readyReplicas, pods, watched, nextIP, budget, evicted>>

\* Delete the claims of pods that are not in the list.
cleanPersistentVolumeClaim ==
  /\ pc = "pvc"
  /\ DeleteClaims(pvcs \ {stsNodes[j].idx : j \in 1..Len(stsNodes)})
  /\ EndReconcile
  /\ UNCHANGED <<kv, cache, sts, readyReplicas, pods, watched, nextIP, budget, evicted>>

WorkerStep ==
  \/ Reconcile \/ ScaleUp \/ ListPods \/ FindMaster \/ EnsureRole
  \/ UpdateInstance \/ resizeStatefulSet \/ cleanPersistentVolumeClaim

-----------------------------------------------------------------------------
\* Enough for the ordinals of any StatefulSet of these sizes.
MaxSize == CHOOSE n \in Sizes : \A m \in Sizes : m <= n
Ordinals == 0..(2 * MaxSize)

\* What the watch, the StatefulSet controller and sentinel do by themselves.
Environment ==
  \/ CacheSync
  \/ StatusSync
  \/ \E o \in Ordinals : PodCreate(o) \/ PodScaleDown(o) \/ PodGone(o) \/ SentinelFailover(o)

Next ==
  \/ Environment
  \/ \E n \in Sizes : EditReplicas(n)
  \/ \E o \in Ordinals : PodEvict(o)
  \/ EnsureMonitor
  \/ WorkerStep
  \/ OperatorKilled

Spec == Init /\ [][Next]_vars

\* The watch delivers updates, the StatefulSet controller and sentinel do their
\* work, and reconciles are repeated after a change, a requeue or an error.  The
\* sentinel instance is reconciled after each of them, because they bump its
\* change-count, so its handler runs between them again and again.
Fairness ==
  /\ WF_vars(Environment)
  /\ WF_vars(WorkerStep)
  /\ SF_vars(EnsureMonitor)

FairSpec == Spec /\ Fairness

-----------------------------------------------------------------------------
(* Properties *)

Roles == {"none", "master", "slave"}

KVs == [rv : Nat, replicas : Sizes, status : {"Creating", "Running"},
        finalizer : BOOLEAN]

Pods == [ip : Nat, up : BOOLEAN, role : Roles, master : Nat, label : Roles]

Nodes == [ip : Nat, idx : Ordinals, role : Roles]

\* The values the variables range over.
TypeOK ==
  /\ {kv, cache, inst} \subseteq KVs
  /\ sts \in [replicas : Sizes, reserve : Seq(Ordinals)]
  /\ readyReplicas \in Nat
  /\ DOMAIN pods \subseteq Ordinals
  /\ \A o \in DOMAIN pods : pods[o] \in Pods
  /\ pvcs \subseteq Ordinals
  /\ doomed \subseteq pvcs \cap DOMAIN pods
  /\ watched \in Nat
  /\ pc \in {"idle", "scale", "list", "master", "roles", "resize", "pvc"}
  /\ stsNodes \in Seq(Nodes)
  /\ masterIP \in Nat
  /\ pos \in 1..(Len(stsNodes) + 1)
  /\ nextIP \in Nat
  /\ budget \in [edit : Nat, evict : Nat, kill : Nat]
  /\ evicted \in BOOLEAN

Masters == {o \in UpPods : pods[o].role = "master"}

\* Neither sentinel nor a reconcile of a running instance makes a second
\* master, although they give out roles independently of each other and the
\* reconcile acts on roles it has read before: no write is accepted by two
\* nodes.  An instance that starts as Creating keeps this only for so many faults
\* as the bounds allow: three evictions and a kill can break it, as a reconcile
\* that reads the status late makes the first pod a master again.
NoSecondMaster ==
  [][inst.status = "Running" /\ Cardinality(Masters) <= 1
       => Cardinality(Masters') <= 1]_vars

\* Scaling down never stops the master, unless a pod is evicted meanwhile and
\* sentinel moves the master.
MasterSurvivesShrink ==
  [][~evicted => \A o \in Masters : o \notin Desired(sts) => o \in Masters']_vars

\* No claim of a pod that the StatefulSet keeps is deleted, whatever the
\* ordinals that an earlier failover has left in use, unless a pod is evicted
\* meanwhile.
KeepsVolumes ==
  [][~evicted => (pvcs \ doomed) \cap Desired(sts) \subseteq pvcs' \ doomed']_vars

\* The instance is as its specification asks: so many pods serve, one of them
\* is the master and the one sentinel watches, the others follow it, labels
\* tell the roles, and there are no claims without a pod.
Resized ==
  /\ kv.status = "Running"
  /\ kv.finalizer
  /\ DOMAIN pods = UpPods
  /\ Cardinality(UpPods) = kv.replicas
  /\ Cardinality(Masters) = 1
  /\ \A o \in UpPods :
       /\ pods[o].label = pods[o].role
       /\ \A m \in Masters \ {o} : pods[o].master = pods[m].ip
  /\ \A m \in Masters : watched = pods[m].ip
  /\ pvcs = UpPods

\* After the last edit and the last kill the instance settles, if no pod has
\* been evicted.
Settles == <>[](Resized \/ evicted)

\* The end-to-end tests "test recover when slave down" and "test recover when
\* master down": after a pod of an instance that is up has been deleted, the
\* instance is up again.
RecoversFromPodLoss == [](Resized => []<>Resized)
=============================================================================
