-------------------------- MODULE KVRocksLifecycle ---------------------------
(***************************************************************************)
(* The KVRocks resources of one namespace, from their creation to their    *)
(* deletion: a sentinel instance and the standard and cluster instances it *)
(* monitors, with the kvrocks-controller deployment the clusters share.    *)
(*                                                                         *)
(* One reconcile worker takes instances from the work queue (Reconcile in  *)
(* pkg/controllers/kvrocks_controller.go): it deletes, validates or labels *)
(* the instance and calls the handler of its type.  What the handlers of   *)
(* standard and cluster instances do to pods and topologies is the subject *)
(* of StandardOperator, ClusterOperator and ClusterScaling; here they      *)
(* create the pods, wait for them, and set status and finalizer.           *)
(*                                                                         *)
(* Every Get and List is answered from the informer cache.  An Update is   *)
(* accepted only from a copy with the current resourceVersion; fresh says  *)
(* of a copy whether it has it.                                            *)
(***************************************************************************)
EXTENDS Naturals, Sequences

CONSTANTS
  Instances,     \* the names of the KVRocks resources
  Type,          \* spec.type of each: "sentinel", "standard" or "cluster"
  Sentinel,      \* the instance of type sentinel
  Replicas,      \* the pods of its deployment
  Specs,         \* Specs[i]: what the user may write into the spec of i
  Populations    \* what the user may create, and the faults that follow: the instances,
                 \* those with the label MonitoredBy, and the kinds of faults, each happening once

ASSUME InstancesAssumption ==
  /\ Sentinel \in Instances
  /\ Type \in [Instances -> {"sentinel", "standard", "cluster"}]
  /\ \A i \in Instances : Type[i] = "sentinel" <=> i = Sentinel
ASSUME ReplicasAssumption == Replicas \in Nat \ {0}
ASSUME SpecsAssumption ==
  \A i \in Instances :
    Specs[i] \subseteq [password : BOOLEAN, resources : BOOLEAN, replicas : Nat, master : Nat]
ASSUME PopulationsAssumption ==
  \A P \in Populations :
    /\ P.instances \subseteq Instances /\ P.monitored \subseteq P.instances \ {Sentinel}
    /\ P.faults \subseteq {"edit", "delete", "move", "restart", "kill"}

\* The objects of kvrocks-controller, in the order removeController deletes them.
Objects == <<"deployment", "service", "config", "etcd", "etcdService">>
Kinds == {Objects[k] : k \in 1..5}

AllSpecs == UNION {Specs[i] : i \in Instances}

\* The names sentinel knows masters by: an instance and the index of a shard.
Shards == {1} \cup UNION {1..spec.master : spec \in AllSpecs}
Names == Instances \X Shards

\* The pods of the sentinel, in the order the handlers list them.
SentinelPods == 1..Replicas

VARIABLES
  obj,        \* obj[i]: the resource stored by the API server
  cache,      \* cache[i]: the copy in the informer cache
  fresh,      \* fresh[i]: the cached copy has the current resourceVersion
  monitored,  \* the instances with the label MonitoredBy
  queue,      \* the work queue
  w,          \* the worker and the handler it has called
  pods,       \* pods[i]: the pods of a standard or cluster instance
  master,     \* master[n]: the address of the node of n that says it is the master
  deployed,   \* the deployment of the sentinel exists
  up,         \* the sentinel pods that answer
  mon,        \* mon[p][n]: the address p monitors under the name n, or 0
  owner,      \* owner[o]: the instance that owns an object of kvrocks-controller
  ready,      \* the objects whose pods are ready
  faults,     \* the faults that may still happen
  dropped     \* the instances whose deletion ended with an error that is not retried

resourceVars == <<obj, cache, fresh, monitored>>
podVars == <<pods, master>>
sentinelVars == <<deployed, up, mon>>
controllerVars == <<owner, ready>>
vars == <<resourceVars, queue, w, podVars, sentinelVars, controllerVars, faults, dropped>>

None == "none"

Gone == [exists |-> FALSE]
Nobody == [name |-> Sentinel, status |-> "", masters |-> 0]

\* inst, fresh: the handler's copy of the instance; requeue: h.requeue; left, target,
\* index, ip: where a loop over instances and shards is; ips: the
\* pods of the sentinel whose listed address still answers; skipped: history, a
\* shard's monitors were left because the sentinel was not running.
Idle == [pc |-> "idle", cur |-> Sentinel, inst |-> Gone, fresh |-> FALSE, requeue |-> FALSE,
         left |-> {}, target |-> Nobody, index |-> 1,
         ip |-> 0, ips |-> {}, skipped |-> FALSE]

Created(spec) == [exists |-> TRUE, labels |-> FALSE, status |-> "", finalizer |-> FALSE,
                  deleting |-> FALSE, spec |-> spec]

\* The user has created the instances and the operator starts.
Init ==
  /\ \E P \in Populations, spec \in [Instances -> AllSpecs] :
       /\ \A i \in Instances : spec[i] \in Specs[i]
       /\ obj = [i \in Instances |-> IF i \in P.instances THEN Created(spec[i]) ELSE Gone]
       /\ monitored = P.monitored
       /\ queue = P.instances
       /\ faults = P.faults
  /\ cache = obj
  /\ fresh = [i \in Instances |-> TRUE]
  /\ w = Idle
  /\ pods = [i \in Instances |-> "none"]
  /\ master = [n \in Names |-> 1]
  /\ deployed = FALSE
  /\ up = {}
  /\ mon = [p \in SentinelPods |-> [n \in Names |-> 0]]
  /\ owner = [o \in Kinds |-> None]
  /\ ready = {}
  /\ dropped = {}

-----------------------------------------------------------------------------
(* The API server, the informer cache and the user *)

\* The stored resource of i becomes new.  Copies of it are out of date if that is a change.
Store(i, new) ==
  /\ obj' = [obj EXCEPT ![i] = new]
  /\ fresh' = [fresh EXCEPT ![i] = @ /\ new = obj[i]]
  /\ UNCHANGED <<cache, monitored>>

\* The watch delivers a change, and the handler of the event queues the instance.
CacheSync(i) ==
  /\ ~fresh[i]
  /\ cache' = [cache EXCEPT ![i] = obj[i]]
  /\ fresh' = [fresh EXCEPT ![i] = TRUE]
  /\ queue' = queue \cup {i}
  /\ UNCHANGED <<obj, monitored, w, podVars, sentinelVars, controllerVars, faults, dropped>>

Fault(kind) == kind \in faults /\ faults' = faults \ {kind}

\* Mutant: an Update is accepted from an old copy.
NeverOutdated(i) == w

\* The worker's copy of i, if it has one, is out of date as well.
Outdated(i) == IF w.cur = i THEN [w EXCEPT !.fresh = FALSE] ELSE w

UserEdit(i) ==
  /\ obj[i].exists
  /\ Fault("edit")
  /\ \E spec \in Specs[i] \ {obj[i].spec} : Store(i, [obj[i] EXCEPT !.spec = spec])
  /\ w' = Outdated(i)
  /\ UNCHANGED <<queue, podVars, sentinelVars, controllerVars, dropped>>

\* A resource with a finalizer stays until the finalizer is removed.  The deletion
\* of the sentinel counts as a fault.
UserDelete(i) ==
  /\ obj[i].exists /\ ~obj[i].deleting
  /\ Store(i, IF obj[i].finalizer THEN [obj[i] EXCEPT !.deleting = TRUE]
              ELSE Gone)
  /\ IF i = Sentinel THEN Fault("delete") ELSE UNCHANGED faults
  /\ w' = Outdated(i)
  /\ UNCHANGED <<queue, podVars, sentinelVars, controllerVars, dropped>>

-----------------------------------------------------------------------------
(* Pods, deployments and the garbage collector *)

\* The pods of i are ready; the event of their StatefulSet queues i.
PodsReady(i) ==
  /\ pods[i] = "starting"
  /\ pods' = [pods EXCEPT ![i] = "ready"]
  /\ queue' = queue \cup {i}
  /\ UNCHANGED <<resourceVars, w, master, sentinelVars, controllerVars, faults, dropped>>

\* The pod of a master is replaced and another node of the shard is the master.
MasterMoves(n) ==
  /\ pods[n[1]] = "ready"
  /\ Fault("move")
  /\ pods' = [pods EXCEPT ![n[1]] = "starting"]
  /\ master' = [master EXCEPT ![n] = @ + 1]
  /\ queue' = queue \cup {n[1]}
  /\ UNCHANGED <<resourceVars, w, sentinelVars, controllerVars, dropped>>

\* A pod of the sentinel is replaced.  Its data was in an EmptyDir: the new pod has
\* a new address and monitors nothing.
SentinelPodRestart(p) ==
  /\ p \in up
  /\ Fault("restart")
  /\ up' = up \ {p}
  /\ mon' = [mon EXCEPT ![p] = [n \in Names |-> 0]]
  /\ w' = [w EXCEPT !.ips = @ \ {p}]
  /\ queue' = queue \cup {Sentinel}
  /\ UNCHANGED <<resourceVars, podVars, deployed, controllerVars, dropped>>

\* The deployment has all its pods.
SentinelReady ==
  /\ deployed /\ up # SentinelPods
  /\ up' = SentinelPods
  /\ queue' = queue \cup {Sentinel}
  /\ UNCHANGED <<resourceVars, w, podVars, deployed, mon, controllerVars, faults, dropped>>

\* The pods of etcd or of kvrocks-controller are ready.
ObjectReady(o) ==
  /\ owner[o] # None /\ o \notin ready
  /\ ready' = ready \cup {o}
  /\ queue' = queue \cup {owner[o]}
  /\ UNCHANGED <<resourceVars, w, podVars, sentinelVars, owner, faults, dropped>>

\* What an instance owns goes some time after it.
CollectGarbage(i) ==
  /\ ~obj[i].exists
  /\ \/ pods[i] # "none" \/ (i = Sentinel /\ deployed) \/ \E o \in Kinds : owner[o] = i
  /\ pods' = [pods EXCEPT ![i] = "none"]
  /\ \/ /\ i = Sentinel
        /\ deployed' = FALSE
        /\ up' = {}
        /\ w' = [w EXCEPT !.ips = {}]
        /\ mon' = [p \in SentinelPods |-> [n \in Names |-> 0]]
     \/ i # Sentinel /\ UNCHANGED <<sentinelVars, w>>
  /\ owner' = [o \in Kinds |-> IF owner[o] = i THEN None ELSE owner[o]]
  /\ ready' = {o \in ready : owner[o] # i}
  /\ UNCHANGED <<resourceVars, queue, master, faults, dropped>>

-----------------------------------------------------------------------------
(* Reconcile *)

\* Reconcile returns.  again: the instances that are queued, after a requeue, a
\* NotFound or a conflict (shouldRetry), or an error that is returned.
Return(again) == w' = Idle /\ queue' = queue \cup again

Goto(pc) == w' = [w EXCEPT !.pc = pc] /\ UNCHANGED queue

\* UpdateKVRocks(new) for the instance of this reconcile, accepted or refused with
\* a conflict.
Updated(new) == w.fresh /\ Store(w.cur, new)
Refused == ~w.fresh /\ UNCHANGED resourceVars

\* The handler goes on with the updated copy.
GoOn(new, pc) == w' = [w EXCEPT !.inst = new, !.pc = pc] /\ UNCHANGED queue

\* checkSpecification.
ValidateKVRocks(i, spec) ==
  /\ spec.password
  /\ spec.resources
  /\ Type[i] = "sentinel" => spec.replicas >= 2 /\ spec.replicas % 2 = 1
  /\ Type[i] = "standard" => spec.master = 1
  /\ Type[i] = "cluster" => spec.master >= 3

\* Where the worker goes with a valid instance: runIfInitialize, then the handler.
Entry(i, inst) ==
  CASE ~inst.labels -> "labels"
    [] inst.labels /\ inst.status = "" -> "status"
    [] OTHER -> Type[i]

\* The worker takes i from the queue and reads it.
Reconcile(i) ==
  /\ w.pc = "idle"
  /\ i \in queue
  /\ queue' = queue \ {i}
  /\ LET c == cache[i]
         start(pc) == w' = [Idle EXCEPT !.pc = pc, !.cur = i, !.inst = c, !.fresh = fresh[i]]
     IN \/ /\ c.exists => ~c.deleting /\ c.status = "Failed"
           /\ UNCHANGED w
        \/ /\ c.exists /\ c.deleting
           /\ start(IF i \in monitored THEN "clean" ELSE "release")
        \/ /\ c.exists /\ ~c.deleting /\ c.status # "Failed"
           /\ start(IF ValidateKVRocks(i, c.spec) THEN Entry(i, c) ELSE "invalid")
  /\ UNCHANGED <<resourceVars, podVars, sentinelVars, controllerVars, faults, dropped>>

\* Mutant: the status is set on the copy and not written.
FailedNotWritten ==
  /\ w.pc = "invalid"
  /\ Return({})
  /\ UNCHANGED <<resourceVars, podVars, sentinelVars, controllerVars, faults, dropped>>

\* checkSpecification; the error of the Update is ignored.
SetFailed ==
  /\ w.pc = "invalid"
  /\ Updated([w.inst EXCEPT !.status = "Failed"]) \/ Refused
  /\ Return({})
  /\ UNCHANGED <<podVars, sentinelVars, controllerVars, faults, dropped>>

\* runIfInitialize; an error ends the reconcile and is not retried.
SetLabels ==
  /\ w.pc = "labels"
  /\ LET new == [w.inst EXCEPT !.labels = TRUE]
     IN \/ Updated(new) /\ GoOn(new, Entry(w.cur, new))
        \/ Refused /\ Return({})
  /\ UNCHANGED <<podVars, sentinelVars, controllerVars, faults, dropped>>

SetCreating ==
  /\ w.pc = "status"
  /\ LET new == [w.inst EXCEPT !.status = "Creating"]
     IN \/ Updated(new) /\ GoOn(new, Type[w.cur])
        \/ Refused /\ Return({})
  /\ UNCHANGED <<podVars, sentinelVars, controllerVars, faults, dropped>>

-----------------------------------------------------------------------------
(* The handlers of standard and cluster instances *)

\* CreateIfNotExists for each object of S.
CreateIfNotExists(S) ==
  owner' = [o \in Kinds |-> IF o \in S /\ owner[o] = None THEN w.cur ELSE owner[o]]

\* ensureController, which waits for etcd and then for the deployment.
EnsureEtcd ==
  /\ w.pc = "cluster"
  /\ CreateIfNotExists({"etcdService", "etcd"})
  /\ \/ "etcd" \in ready /\ Goto("controller")
     \/ "etcd" \notin ready /\ Return({w.cur})
  /\ UNCHANGED <<resourceVars, podVars, sentinelVars, ready, faults, dropped>>

EnsureController ==
  /\ w.pc = "controller"
  /\ CreateIfNotExists({"config", "service", "deployment"})
  /\ \/ "deployment" \in ready /\ Goto("pods")
     \/ "deployment" \notin ready /\ Return({w.cur})
  /\ UNCHANGED <<resourceVars, podVars, sentinelVars, ready, faults, dropped>>

\* ensureKubernetes: the handler goes on when the pods are ready.
EnsurePods ==
  /\ w.pc \in {"standard", "pods"}
  /\ pods' = [pods EXCEPT ![w.cur] = IF @ = "none" THEN "starting" ELSE @]
  /\ \/ pods[w.cur] # "ready" /\ Return({w.cur})
     \/ /\ pods[w.cur] = "ready"
        /\ Goto(IF w.inst.status = "Creating" THEN "running" ELSE "finalizer")
  /\ UNCHANGED <<resourceVars, master, sentinelVars, controllerVars, faults, dropped>>

\* The Update that sets the status Running ends the reconcile of a standard instance.
SetRunning ==
  /\ w.pc = "running"
  /\ LET new == [w.inst EXCEPT !.status = "Running"]
     IN \/ Updated(new) /\ IF Type[w.cur] = "standard" THEN Return({}) ELSE GoOn(new, "finalizer")
        \/ Refused /\ Return({w.cur})
  /\ UNCHANGED <<podVars, sentinelVars, controllerVars, faults, dropped>>

AddFinalizer ==
  /\ w.pc = "finalizer"
  /\ LET new == [w.inst EXCEPT !.finalizer = TRUE]
     IN \/ w.inst.finalizer /\ Goto("notify") /\ UNCHANGED resourceVars
        \/ ~w.inst.finalizer /\ Updated(new) /\ GoOn(new, "notify")
        \/ ~w.inst.finalizer /\ Refused /\ Return({w.cur})
  /\ UNCHANGED <<podVars, sentinelVars, controllerVars, faults, dropped>>

\* Mutant: the annotation is changed on the copy and not written.
NotNotified ==
  /\ w.pc = "notify"
  /\ Return({})
  /\ UNCHANGED <<resourceVars, podVars, sentinelVars, controllerVars, faults, dropped>>

\* UpdateSentinelAnnotationCount: the changed annotation brings an event of the sentinel.
UpdateSentinelAnnotationCount ==
  /\ w.pc = "notify"
  /\ \/ w.cur \notin monitored /\ Return({}) /\ UNCHANGED fresh
     \/ /\ w.cur \in monitored
        /\ \/ /\ cache[Sentinel].exists /\ fresh[Sentinel]
              /\ fresh' = [fresh EXCEPT ![Sentinel] = FALSE]
              /\ Return({})
           \/ /\ ~(cache[Sentinel].exists /\ fresh[Sentinel])
              /\ Return({w.cur})
              /\ UNCHANGED fresh
  /\ UNCHANGED <<obj, cache, monitored, podVars, sentinelVars, controllerVars, faults, dropped>>

-----------------------------------------------------------------------------
(* The handler of the sentinel *)

\* ensureKubernetes and the List of ensureSentinel.
EnsureSentinelPods ==
  /\ w.pc = "sentinel"
  /\ deployed' = TRUE
  /\ \/ up # SentinelPods /\ Return({w.cur})
     \/ /\ up = SentinelPods
        /\ w' = [w EXCEPT !.pc = "list", !.ips = up,
                          !.left = {[name |-> i, status |-> cache[i].status,
                                     masters |-> cache[i].spec.master] :
                                      i \in {j \in monitored : cache[j].exists}}]
        /\ UNCHANGED queue
  /\ UNCHANGED <<resourceVars, podVars, up, mon, controllerVars, faults, dropped>>

\* ensureSentinel takes the next instance of the List.
NextInstance(l) ==
  /\ w.pc = "list"
  /\ l \in w.left
  /\ w' = IF l.status = "Running"
          THEN [w EXCEPT !.pc = "master", !.left = @ \ {l}, !.target = l, !.index = 1]
          ELSE [w EXCEPT !.left = @ \ {l}, !.requeue = TRUE]
  /\ UNCHANGED <<resourceVars, queue, podVars, sentinelVars, controllerVars, faults, dropped>>

\* getMasterMsg for the next shard: an error unless every pod of it answers.
GetMasterMsg ==
  /\ w.pc = "master"
  /\ \/ pods[w.target.name] # "ready" /\ Return({w.cur})
     \/ /\ pods[w.target.name] = "ready"
        /\ w' = [w EXCEPT !.pc = "monitor",
                          !.ip = master[<<w.target.name, w.index>>]]
        /\ UNCHANGED queue
  /\ UNCHANGED <<resourceVars, podVars, sentinelVars, controllerVars, faults, dropped>>

\* Where ensureSentinel goes when the last pod monitors a shard: it returns after a
\* standard instance, whatever is left of the List.
AfterShard ==
  IF Type[w.target.name] = "cluster" /\ w.index < w.target.masters
  THEN [w EXCEPT !.pc = "master", !.index = @ + 1, !.ip = 0]
  ELSE [w EXCEPT !.pc = "list", !.index = 1, !.ip = 0, !.target = Nobody,
                 !.left = IF Type[w.target.name] = "standard" THEN {} ELSE @]

\* The pods that a loop over them reaches before it fails.
Reached(failing) == {p \in SentinelPods : \A q \in failing : p < q}

\* What p monitors after CreateMonitor or ResetMonitor.
CreateMonitor(p, n, ip) == [mon[p] EXCEPT ![n] = ip]

\* ensureMonitor creates, moves or resets the monitor of each pod, and fails at one
\* whose address is gone.
EnsureMonitor ==
  /\ w.pc = "monitor"
  /\ mon' = [p \in SentinelPods |->
               IF p \in Reached(SentinelPods \ w.ips)
               THEN CreateMonitor(p, <<w.target.name, w.index>>, w.ip) ELSE mon[p]]
  /\ \/ w.ips # SentinelPods /\ Return({w.cur})
     \/ w.ips = SentinelPods /\ w' = AfterShard /\ UNCHANGED queue
  /\ UNCHANGED <<resourceVars, podVars, deployed, up, controllerVars, faults, dropped>>

\* The List is done.
SetSentinelRunning ==
  /\ w.pc = "list"
  /\ w.left = {}
  /\ \/ w.requeue /\ Return({w.cur}) /\ UNCHANGED resourceVars
     \/ ~w.requeue /\ Updated([w.inst EXCEPT !.status = "Running"]) /\ Return({})
     \/ ~w.requeue /\ Refused /\ Return({w.cur})
  /\ UNCHANGED <<podVars, sentinelVars, controllerVars, faults, dropped>>

-----------------------------------------------------------------------------
(* Finializer *)

\* What follows the RemoveMonitor of a shard.
AfterRemove ==
  CASE Type[w.cur] = "standard" -> [w EXCEPT !.pc = "release", !.ips = {}]
    [] Type[w.cur] = "cluster" /\ w.index < w.inst.spec.master ->
         [w EXCEPT !.pc = "clean", !.index = @ + 1, !.ips = {}]
    [] OTHER -> [w EXCEPT !.pc = "remove", !.index = 1, !.ips = {}]

\* Mutant: the requeue that a sentinel which is not running asks for is lost.
GetSentinelOnce ==
  /\ w.pc = "clean"
  /\ \/ ~(cache[Sentinel].exists /\ cache[Sentinel].status = "Running" /\ deployed) /\ Return({})
     \/ /\ cache[Sentinel].exists /\ cache[Sentinel].status = "Running" /\ deployed
        /\ w' = [w EXCEPT !.pc = "unmonitor", !.ips = up]
        /\ UNCHANGED queue
  /\ UNCHANGED <<resourceVars, podVars, sentinelVars, controllerVars, faults, dropped>>

\* RemoveMonitor finds the sentinel.  One that is not running asks for a requeue,
\* which the handler of a standard instance keeps and that of a cluster overwrites.
GetSentinel ==
  /\ w.pc = "clean"
  /\ LET running == cache[Sentinel].exists /\ cache[Sentinel].status = "Running"
     IN \/ /\ \/ ~cache[Sentinel].exists
              \/ running /\ ~deployed
              \/ ~running /\ Type[w.cur] = "standard"
           /\ Return({w.cur})
        \/ /\ cache[Sentinel].exists /\ ~running /\ Type[w.cur] = "cluster"
           /\ w' = [AfterRemove EXCEPT !.skipped = TRUE]
           /\ UNCHANGED queue
        \/ /\ running /\ deployed
           /\ w' = [w EXCEPT !.pc = "unmonitor", !.ips = up]
           /\ UNCHANGED queue
  /\ UNCHANGED <<resourceVars, podVars, sentinelVars, controllerVars, faults, dropped>>

\* Mutant: RemoveMonitor returns after the first pod.
WithoutOnFirst(S, n) ==
  [p \in SentinelPods |-> IF p = 1 /\ 1 \in S THEN [mon[p] EXCEPT ![n] = 0] ELSE mon[p]]

\* The monitors without the name n in the pods of S.
Without(S, n) ==
  [p \in SentinelPods |-> IF p \in S THEN [mon[p] EXCEPT ![n] = 0] ELSE mon[p]]

\* RemoveMonitor asks each pod; one that does not answer, or does not know the name,
\* is passed over.
RemoveMonitor ==
  /\ w.pc = "unmonitor"
  /\ mon' = Without(w.ips, <<w.cur, w.index>>)
  /\ w' = AfterRemove
  /\ UNCHANGED <<resourceVars, queue, podVars, deployed, up, controllerVars, faults, dropped>>

\* GetMasterFromSentinel finds the name.
Knows(p, n) == mon[p][n] # 0

\* A pod is replaced after it has said that it knows the name: the error of the
\* second call ends the deletion and is not retried.
RemoveMonitorFails(p) ==
  /\ w.pc = "unmonitor"
  /\ p \in w.ips
  /\ Knows(p, <<w.cur, w.index>>)
  /\ Fault("restart")
  /\ up' = up \ {p}
  /\ mon' = [Without(w.ips \cap Reached({p}), <<w.cur, w.index>>) EXCEPT ![p] = [n \in Names |-> 0]]
  /\ w' = Idle
  /\ queue' = queue \cup {Sentinel}
  /\ dropped' = dropped \cup {w.cur}
  /\ UNCHANGED <<resourceVars, podVars, deployed, controllerVars>>

\* removeController deletes the objects one after the other; one that is not there
\* is an error that is retried.
RemoveObject ==
  /\ w.pc = "remove"
  /\ LET o == Objects[w.index]
     IN \/ owner[o] = None /\ Return({w.cur}) /\ UNCHANGED controllerVars
        \/ /\ owner[o] # None
           /\ owner' = [owner EXCEPT ![o] = None]
           /\ ready' = ready \ {o}
           /\ \/ w.index < Len(Objects) /\ w' = [w EXCEPT !.index = @ + 1]
              \/ w.index = Len(Objects) /\ w' = [w EXCEPT !.pc = "release"]
           /\ UNCHANGED queue
  /\ UNCHANGED <<resourceVars, podVars, sentinelVars, faults, dropped>>

\* Without its finalizer the resource goes.
RemoveFinalizer ==
  /\ w.pc = "release"
  /\ \/ Updated(Gone) /\ Return({})
     \/ Refused /\ Return({w.cur})
  /\ UNCHANGED <<podVars, sentinelVars, controllerVars, faults, dropped>>

-----------------------------------------------------------------------------
\* The operator is killed and starts again: the cache is filled from the API server.
Kill ==
  /\ Fault("kill")
  /\ w' = Idle
  /\ cache' = obj
  /\ fresh' = [i \in Instances |-> TRUE]
  /\ queue' = {i \in Instances : obj[i].exists}
  /\ UNCHANGED <<obj, monitored, podVars, sentinelVars, controllerVars, dropped>>

Handler ==
  \/ SetFailed \/ SetLabels \/ SetCreating
  \/ EnsureEtcd \/ EnsureController \/ EnsurePods \/ SetRunning \/ AddFinalizer
  \/ UpdateSentinelAnnotationCount
  \/ EnsureSentinelPods \/ GetMasterMsg \/ SetSentinelRunning
  \/ \E l \in w.left : NextInstance(l)
  \/ EnsureMonitor \/ GetSentinel \/ RemoveMonitor \/ RemoveObject \/ RemoveFinalizer

Next ==
  \/ Handler \/ SentinelReady \/ Kill
  \/ \E i \in Instances : \/ UserEdit(i) \/ UserDelete(i) \/ CacheSync(i) \/ Reconcile(i)
                          \/ PodsReady(i) \/ CollectGarbage(i)
  \/ \E n \in Names : MasterMoves(n)
  \/ \E p \in SentinelPods : SentinelPodRestart(p) \/ RemoveMonitorFails(p)
  \/ \E o \in {"etcd", "deployment"} : ObjectReady(o)

Spec == Init /\ [][Next]_vars

\* The worker runs, and the work queue is first in, first out, so an instance that
\* is queued again and again is taken again and again.  The watch delivers, and
\* Kubernetes brings up pods and collects garbage.
Fairness ==
  /\ WF_vars(Handler)
  /\ \A i \in Instances : SF_vars(Reconcile(i)) /\ WF_vars(CacheSync(i))
                           /\ WF_vars(PodsReady(i)) /\ WF_vars(CollectGarbage(i))
  /\ WF_vars(SentinelReady)
  /\ \A o \in {"etcd", "deployment"} : WF_vars(ObjectReady(o))

FairSpec == Spec /\ Fairness

-----------------------------------------------------------------------------
(* Properties *)

Statuses == {"", "Creating", "Running", "Failed"}
Existing == [exists : {TRUE}, labels : BOOLEAN, status : Statuses, finalizer : BOOLEAN,
             deleting : BOOLEAN, spec : AllSpecs]
Copies == Existing \cup {Gone}
Targets == [name : Instances, status : Statuses, masters : {0} \cup {spec.master : spec \in AllSpecs}]
Steps == {"idle", "invalid", "labels", "status", "standard", "cluster", "controller", "pods", "running",
          "finalizer", "notify", "sentinel", "list", "master", "monitor", "clean", "unmonitor",
          "remove", "release"}
Workers ==
  [pc : Steps, cur : Instances, inst : Copies, fresh : BOOLEAN, requeue : BOOLEAN,
   left : SUBSET Targets, target : Targets, index : Nat \ {0}, ip : Nat,
   ips : SUBSET SentinelPods, skipped : BOOLEAN]

ResourcesOK ==
  /\ obj \in [Instances -> Copies] /\ cache \in [Instances -> Copies]
  /\ fresh \in [Instances -> BOOLEAN]
  /\ \A i \in Instances : fresh[i] => cache[i] = obj[i]
  /\ monitored \subseteq Instances \ {Sentinel}

WorkerOK ==
  /\ w \in Workers
  /\ w.pc # "idle" => w.inst \in Existing
  /\ w.fresh => w.inst = obj[w.cur]
  /\ w.pc \in {"master", "monitor", "clean", "unmonitor"} => w.index \in Shards
  /\ w.pc = "remove" => w.index \in 1..Len(Objects)

SystemOK ==
  /\ queue \subseteq Instances /\ dropped \subseteq Instances
  /\ pods \in [Instances -> {"none", "starting", "ready"}]
  /\ master \in [Names -> Nat \ {0}]
  /\ deployed \in BOOLEAN /\ up \subseteq SentinelPods
  /\ mon \in [SentinelPods -> [Names -> Nat]]
  /\ owner \in [Kinds -> Instances \cup {None}]
  /\ ready \subseteq {o \in Kinds : owner[o] # None}

\* Every variable keeps its type, a copy marked as current is the stored resource, the
\* loops over shards and objects stay in range, and nothing is ready that is not there.
TypeOK == ResourcesOK /\ WorkerOK /\ SystemOK

Alive(i) == obj[i].exists /\ ~obj[i].deleting

\* An instance with a finalizer goes only when no sentinel pod monitors it any
\* more: Finializer removes the monitors before Reconcile removes the finalizer,
\* whatever was edited, restarted or killed in between.  The one exception is a
\* cluster whose sentinel was not running.
MonitorsClearedFirst ==
  [][\A i \in monitored :
       obj[i].exists /\ obj[i].finalizer /\ ~obj'[i].exists /\ ~w.skipped
         => \A p \in up, n \in Names : n[1] = i /\ n[2] <= obj[i].spec.master => mon[p][n] = 0]_vars

\* Every pod of the sentinel ends up monitoring each labelled instance at its
\* current masters, after failed masters, restarted sentinel pods, refused
\* Updates and restarts of the operator: nothing but the annotation count of
\* UpdateSentinelAnnotationCount tells the sentinel's handler of a new master.
MonitorsFollow ==
  <>[](Alive(Sentinel) /\ obj[Sentinel].status # "Failed"
         => \A i \in monitored :
              Alive(i) /\ obj[i].status = "Running"
                => \A p \in SentinelPods, n \in Names :
                     n[1] = i /\ n[2] <= obj[i].spec.master => mon[p][n] = master[n])

\* Every instance that stays ends up Failed if its specification is invalid, and
\* otherwise Running or Failed; a sentinel waits for the instances it monitors.
\* checkSpecification and runIfInitialize drop the conflicts of their Updates, so
\* only a later event of the watch brings the instance back.
EveryInstanceSettles ==
  <>[](\A i \in Instances :
         Alive(i) =>
           \/ obj[i].status = "Failed"
           \/ /\ ValidateKVRocks(i, obj[i].spec)
              /\ \/ obj[i].status = "Running"
                 \/ i = Sentinel /\ \E j \in monitored : obj[j].exists /\ obj[j].status # "Running")

\* The deletion of i cannot go on: a sentinel that should be asked is gone or not
\* running, a part of kvrocks-controller is missing, or an error was dropped.
DeletionBlocked(i) ==
  \/ /\ i \in monitored
     /\ \/ ~obj[Sentinel].exists
        \/ Type[i] = "standard" /\ obj[Sentinel].status # "Running"
        \/ Type[i] = "cluster" /\ \E o \in Kinds : owner[o] = None
  \/ i \in dropped

\* A deleted instance goes, unless its deletion is blocked: the retries of
\* Reconcile get past stale copies, refused Updates and restarts.
DeletionEnds == \A i \in Instances : <>[](obj[i].exists /\ obj[i].deleting => DeletionBlocked(i))

=============================================================================
