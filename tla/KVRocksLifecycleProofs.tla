----------------------- MODULE KVRocksLifecycleProofs -----------------------
(***************************************************************************)
(* Proofs about KVRocksLifecycle, for any number of instances, shards and  *)
(* sentinel pods, all specifications and every combination of faults:      *)
(* types, and that the monitors of an instance go before its finalizer.    *)
(***************************************************************************)
EXTENDS KVRocksLifecycle, TLAPS

-----------------------------------------------------------------------------
(* Types *)

\* Between two reconciles the worker has no copy.
LEMMA IdleType == Idle \in Workers /\ Idle.pc = "idle" /\ ~Idle.fresh
<1>1. Nobody \in Targets
  BY InstancesAssumption DEF Nobody, Targets, Statuses
<1>2. Gone \in Copies
  BY DEF Copies
<1>3. "idle" \in Steps
  BY DEF Steps
<1> HIDE DEF Nobody, Gone
<1> QED
  BY <1>1, <1>2, <1>3, InstancesAssumption DEF Idle, Workers

\* A copy that exists is no Gone.
LEMMA CopyFacts ==
  /\ ~Gone.exists
  /\ \A c \in Copies : c.exists => c \in Existing
  /\ \A c \in Existing : c \in Copies /\ c.exists
<1>1. ~Gone.exists
  BY DEF Gone
<1>2. ASSUME NEW c \in Existing PROVE c \in Copies /\ c.exists
  BY Zenon DEF Existing, Copies
<1>3. ASSUME NEW c \in Copies, c.exists PROVE c \in Existing
  BY <1>1, <1>3 DEF Copies
<1> QED
  BY <1>1, <1>2, <1>3, Zenon

\* What an Update may write.
LEMMA UpdateFacts ==
  ASSUME NEW c \in Existing
  PROVE  /\ \A s \in Statuses : [c EXCEPT !.status = s] \in Existing
         /\ [c EXCEPT !.labels = TRUE] \in Existing
         /\ [c EXCEPT !.finalizer = TRUE] \in Existing
         /\ [c EXCEPT !.deleting = TRUE] \in Existing
         /\ \A spec \in AllSpecs : [c EXCEPT !.spec = spec] \in Existing
         /\ c.spec \in AllSpecs /\ c.status \in Statuses /\ c.finalizer \in BOOLEAN
BY Zenon DEF Existing

\* A copy keeps its mark only while it is the stored resource.
LEMMA StoreType ==
  ASSUME ResourcesOK, NEW i \in Instances, NEW new \in Copies, Store(i, new)
  PROVE  /\ ResourcesOK'
         /\ obj'[i] = new /\ \A j \in Instances \ {i} : obj'[j] = obj[j]
<1>1. obj' \in [Instances -> Copies] /\ fresh' \in [Instances -> BOOLEAN]
  BY DEF ResourcesOK, Store
<1>2. obj'[i] = new /\ \A j \in Instances \ {i} : obj'[j] = obj[j]
  BY DEF ResourcesOK, Store
<1>3. \A j \in Instances : fresh'[j] => cache'[j] = obj'[j]
  <2> SUFFICES ASSUME NEW j \in Instances, fresh'[j] PROVE cache'[j] = obj'[j]
    OBVIOUS
  <2>1. fresh[j] /\ (j = i => new = obj[i])
    BY Zenon DEF ResourcesOK, Store
  <2> QED
    BY <1>2, <2>1 DEF ResourcesOK, Store
<1> QED
  BY <1>1, <1>2, <1>3 DEF ResourcesOK, Store

\* The worker's instance is updated from a current copy, or nothing is stored.
LEMMA UpdatedType ==
  ASSUME TypeOK, NEW new \in Copies, Updated(new)
  PROVE  ResourcesOK' /\ obj'[w.cur] = new /\ \A j \in Instances \ {w.cur} : obj'[j] = obj[j]
<1>1. w.cur \in Instances
  BY DEF TypeOK, WorkerOK, Workers
<1> QED
  BY <1>1, StoreType DEF Updated, TypeOK

\* A step that leaves the resources alone keeps their types.
LEMMA UnchangedResources == ASSUME ResourcesOK, UNCHANGED resourceVars PROVE ResourcesOK'
BY DEF ResourcesOK, resourceVars

\* Every step keeps the types of the stored objects, the cache and the faults.
LEMMA ResourcesStep == ASSUME TypeOK, [Next]_vars PROVE ResourcesOK'
<1>1. ResourcesOK
  BY DEF TypeOK
<1>2. w.pc # "idle" => w.inst \in Existing
  BY DEF TypeOK, WorkerOK
<1>3. CASE UNCHANGED resourceVars
  BY <1>1, <1>3, UnchangedResources
<1>4. ASSUME NEW new \in Existing, Updated(new) PROVE ResourcesOK'
  BY <1>4, CopyFacts, UpdatedType
<1>5. CASE Refused
  BY <1>3, <1>5 DEF Refused
<1>6. CASE SetFailed
  <2>1. [w.inst EXCEPT !.status = "Failed"] \in Existing
    BY <1>2, <1>6, UpdateFacts, Zenon DEF SetFailed, Statuses
  <2> QED
    BY <1>4, <1>5, <1>6, <2>1, Zenon DEF SetFailed
<1>7. CASE SetLabels
  <2>1. [w.inst EXCEPT !.labels = TRUE] \in Existing
    BY <1>2, <1>7, UpdateFacts, Zenon DEF SetLabels
  <2> QED
    BY <1>4, <1>5, <1>7, <2>1, Zenon DEF SetLabels
<1>8. CASE SetCreating
  <2>1. [w.inst EXCEPT !.status = "Creating"] \in Existing
    BY <1>2, <1>8, UpdateFacts, Zenon DEF SetCreating, Statuses
  <2> QED
    BY <1>4, <1>5, <1>8, <2>1, Zenon DEF SetCreating
<1>9. CASE SetRunning
  <2>1. [w.inst EXCEPT !.status = "Running"] \in Existing
    BY <1>2, <1>9, UpdateFacts, Zenon DEF SetRunning, Statuses
  <2> QED
    BY <1>4, <1>5, <1>9, <2>1, Zenon DEF SetRunning
<1>10. CASE AddFinalizer
  <2>1. [w.inst EXCEPT !.finalizer = TRUE] \in Existing
    BY <1>2, <1>10, UpdateFacts, Zenon DEF AddFinalizer
  <2> QED
    BY <1>3, <1>4, <1>5, <1>10, <2>1, Zenon DEF AddFinalizer
<1>11. CASE SetSentinelRunning
  <2>1. [w.inst EXCEPT !.status = "Running"] \in Existing
    BY <1>2, <1>11, UpdateFacts, Zenon DEF SetSentinelRunning, Statuses
  <2> QED
    BY <1>3, <1>4, <1>5, <1>11, <2>1, Zenon DEF SetSentinelRunning
<1>12. CASE RemoveFinalizer
  <2>1. Gone \in Copies
    BY DEF Copies
  <2> QED
    BY <1>5, <1>12, <2>1, UpdatedType, Zenon DEF RemoveFinalizer
<1>13. CASE UpdateSentinelAnnotationCount
  <2>1. UNCHANGED <<obj, cache, monitored>>
        /\ (UNCHANGED fresh \/ fresh' = [fresh EXCEPT ![Sentinel] = FALSE])
    BY <1>13, Zenon DEF UpdateSentinelAnnotationCount
  <2> QED
    BY <1>1, <2>1, Zenon DEF ResourcesOK
<1>14. CASE Kill
  BY <1>1, <1>14 DEF Kill, ResourcesOK
<1>15. ASSUME NEW i \in Instances, UserEdit(i) PROVE ResourcesOK'
  <2>1. obj[i] \in Existing
    BY <1>1, <1>15, CopyFacts DEF UserEdit, ResourcesOK
  <2>2. PICK spec \in Specs[i] : Store(i, [obj[i] EXCEPT !.spec = spec])
    BY <1>15, Zenon DEF UserEdit
  <2>3. spec \in AllSpecs
    BY DEF AllSpecs
  <2>4. [obj[i] EXCEPT !.spec = spec] \in Copies
    BY <2>1, <2>3, UpdateFacts, CopyFacts, Zenon
  <2> QED
    BY <1>1, <2>2, <2>4, StoreType
<1>16. ASSUME NEW i \in Instances, UserDelete(i) PROVE ResourcesOK'
  <2>1. obj[i] \in Existing
    BY <1>1, <1>16, CopyFacts DEF UserDelete, ResourcesOK
  <2>2. Gone \in Copies /\ [obj[i] EXCEPT !.deleting = TRUE] \in Copies
    BY <2>1, UpdateFacts, CopyFacts, Zenon DEF Copies
  <2>3. Store(i, Gone) \/ Store(i, [obj[i] EXCEPT !.deleting = TRUE])
    BY <1>16, Zenon DEF UserDelete
  <2> QED
    BY <1>1, <2>2, <2>3, StoreType, Zenon
<1>17. ASSUME NEW i \in Instances, CacheSync(i) PROVE ResourcesOK'
  BY <1>1, <1>17 DEF CacheSync, ResourcesOK
<1> QED
  BY <1>3, <1>6, <1>7, <1>8, <1>9, <1>10, <1>11, <1>12, <1>13, <1>14, <1>15, <1>16, <1>17, ZenonT(60)
     DEF Next, Handler, EnsureEtcd, EnsureController, EnsurePods, EnsureSentinelPods, GetMasterMsg,
     NextInstance, EnsureMonitor, GetSentinel, RemoveMonitor, RemoveObject, SentinelReady, Reconcile,
     PodsReady, CollectGarbage, MasterMoves, SentinelPodRestart, RemoveMonitorFails, ObjectReady, vars

\* A worker that returns is idle.
LEMMA ReturnWorker == ASSUME w' = Idle PROVE WorkerOK'
<1>1. w' \in Workers /\ w'.pc = "idle" /\ ~w'.fresh
  BY IdleType
<1> QED
  BY <1>1 DEF WorkerOK

\* Steps outside of the loops over shards and objects.
PlainSteps == Steps \ {"idle", "master", "monitor", "clean", "unmonitor", "remove"}

\* Going to another step keeps the copy.
LEMMA GotoWorker ==
  ASSUME WorkerOK, w.pc # "idle", NEW pc \in PlainSteps, Goto(pc), UNCHANGED obj
  PROVE  WorkerOK'
<1>1. w \in Workers /\ pc \in Steps
  BY DEF WorkerOK, PlainSteps
<1>2. w' = [w EXCEPT !.pc = pc]
  BY DEF Goto
<1>3. w' \in Workers /\ w'.pc = pc /\ w'.inst = w.inst /\ w'.fresh = w.fresh /\ w'.cur = w.cur
  BY <1>1, <1>2, Zenon DEF Workers
<1> QED
  BY <1>3, Zenon DEF WorkerOK, PlainSteps

\* Going on with an updated copy keeps the name of the instance.
LEMMA GoOnWorker ==
  ASSUME TypeOK, NEW new \in Existing, Updated(new), NEW pc \in PlainSteps, GoOn(new, pc)
  PROVE  WorkerOK'
<1>1. w \in Workers /\ pc \in Steps /\ new \in Copies
  BY CopyFacts DEF TypeOK, WorkerOK, PlainSteps
<1>2. w' = [w EXCEPT !.inst = new, !.pc = pc]
  BY DEF GoOn
<1>3. w' \in Workers /\ w'.pc = pc /\ w'.inst = new /\ w'.cur = w.cur
  BY <1>1, <1>2, Zenon DEF Workers
<1>4. obj'[w.cur] = new
  BY <1>1, UpdatedType
<1> QED
  BY <1>3, <1>4, Zenon DEF WorkerOK, PlainSteps

\* Where a change of the stored resource leaves the worker's copy.
LEMMA OutdatedWorker ==
  ASSUME TypeOK, NEW i \in Instances, w' = Outdated(i),
         \A j \in Instances \ {i} : obj'[j] = obj[j]
  PROVE  WorkerOK'
<1>1. w \in Workers /\ w.cur \in Instances
  BY DEF TypeOK, WorkerOK, Workers
<1>2. CASE w.cur = i
  <2>1. w' = [w EXCEPT !.fresh = FALSE]
    BY <1>2 DEF Outdated
  <2>2. w' \in Workers /\ w'.pc = w.pc /\ w'.inst = w.inst /\ ~w'.fresh /\ w'.index = w.index
    BY <1>1, <2>1, Zenon DEF Workers
  <2> QED
    BY <2>2, Zenon DEF TypeOK, WorkerOK
<1>3. CASE w.cur # i
  <2>1. w' = w /\ obj'[w.cur] = obj[w.cur]
    BY <1>1, <1>3 DEF Outdated
  <2> QED
    BY <2>1, Zenon DEF TypeOK, WorkerOK
<1> QED
  BY <1>2, <1>3

\* The worker keeps everything but the addresses of the sentinel pods.
LEMMA IpsWorker ==
  ASSUME WorkerOK, NEW ips \in SUBSET SentinelPods, w' = [w EXCEPT !.ips = ips], UNCHANGED obj
  PROVE  WorkerOK'
<1>1. w \in Workers
  BY DEF WorkerOK
<1>2. w' \in Workers /\ w'.pc = w.pc /\ w'.inst = w.inst /\ w'.fresh = w.fresh /\ w'.index = w.index
      /\ w'.cur = w.cur
  BY <1>1, Zenon DEF Workers
<1> QED
  BY <1>2, Zenon DEF WorkerOK

\* The next shard of a cluster is one of its specification.
LEMMA NextShard ==
  ASSUME NEW m \in {0} \cup {spec.master : spec \in AllSpecs}, NEW k \in Nat \ {0}, k < m
  PROVE  k + 1 \in Shards
<1>1. \A spec \in AllSpecs : spec.master \in Nat
  BY SpecsAssumption DEF AllSpecs
<1>2. PICK spec \in AllSpecs : m = spec.master
  BY <1>1
<1>3. k + 1 \in 1..spec.master
  BY <1>1, <1>2
<1> QED
  BY <1>3 DEF Shards

\* Shards are counted from 1.
LEMMA ShardFacts == 1 \in Shards /\ Shards \subseteq Nat \ {0}
<1>1. \A spec \in AllSpecs : spec.master \in Nat
  BY SpecsAssumption DEF AllSpecs
<1> QED
  BY <1>1 DEF Shards

\* What follows RemoveMonitor.
LEMMA AfterRemoveWorker ==
  ASSUME WorkerOK, w.pc \in {"clean", "unmonitor"}
  PROVE  /\ AfterRemove \in Workers /\ AfterRemove.pc \in {"clean", "remove", "release"}
         /\ AfterRemove.inst = w.inst /\ AfterRemove.fresh = w.fresh /\ AfterRemove.cur = w.cur
         /\ AfterRemove.pc = "clean" => AfterRemove.index \in Shards
         /\ AfterRemove.pc = "remove" => AfterRemove.index = 1
<1>1. w \in Workers /\ w.inst \in Existing /\ w.index \in Nat \ {0}
  BY DEF WorkerOK, Workers
<1>2. "release" \in Steps /\ "clean" \in Steps /\ "remove" \in Steps /\ {} \in SUBSET SentinelPods
  BY DEF Steps
<1>3. CASE Type[w.cur] = "standard"
  <2>1. AfterRemove = [w EXCEPT !.pc = "release", !.ips = {}]
    BY <1>3 DEF AfterRemove
  <2> QED
    BY <1>1, <1>2, <2>1, Zenon DEF Workers
<1>4. CASE Type[w.cur] = "cluster" /\ w.index < w.inst.spec.master
  <2>1. AfterRemove = [w EXCEPT !.pc = "clean", !.index = @ + 1, !.ips = {}]
    BY <1>4 DEF AfterRemove
  <2>2. w.inst.spec \in AllSpecs
    BY <1>1, UpdateFacts, Zenon
  <2>3. w.inst.spec.master \in {0} \cup {spec.master : spec \in AllSpecs}
    BY <2>2
  <2>4. w.index + 1 \in Shards
    BY <1>1, <1>4, <2>3, NextShard, Zenon
  <2>5. w.index + 1 \in Nat \ {0}
    BY <1>1
  <2> QED
    BY <1>1, <1>2, <2>1, <2>4, <2>5, Zenon DEF Workers
<1>5. CASE Type[w.cur] # "standard" /\ ~(Type[w.cur] = "cluster" /\ w.index < w.inst.spec.master)
  <2>1. AfterRemove = [w EXCEPT !.pc = "remove", !.index = 1, !.ips = {}]
    BY <1>5 DEF AfterRemove
  <2>2. 1 \in Nat \ {0}
    OBVIOUS
  <2> QED
    BY <1>1, <1>2, <2>1, <2>2, Zenon DEF Workers
<1> QED
  BY <1>3, <1>4, <1>5, Zenon

\* Every step keeps the type of the worker.
LEMMA WorkerStep == ASSUME TypeOK, [Next]_vars PROVE WorkerOK'
<1> USE DEF resourceVars
<1>1. WorkerOK /\ ResourcesOK /\ w \in Workers /\ w.cur \in Instances
  BY DEF TypeOK, WorkerOK, Workers
<1>2. CASE UNCHANGED <<w, obj>>
  BY <1>1, <1>2, Zenon DEF WorkerOK
<1>3. CASE w' = Idle
  BY <1>3, ReturnWorker
<1>4. Type[w.cur] \in PlainSteps /\ \A i \in Instances : Type[i] \in PlainSteps
  BY <1>1, InstancesAssumption DEF PlainSteps, Steps
<1>5. ASSUME NEW i \in Instances, Reconcile(i) PROVE WorkerOK'
  <2>1. UNCHANGED obj /\ cache[i] \in Copies /\ fresh[i] \in BOOLEAN /\ (fresh[i] => cache[i] = obj[i])
    BY <1>1, <1>5, Zenon DEF Reconcile, ResourcesOK
  <2>2. ASSUME NEW pc \in PlainSteps \cup {"clean"}, cache[i].exists,
               w' = [Idle EXCEPT !.pc = pc, !.cur = i, !.inst = cache[i], !.fresh = fresh[i]]
        PROVE  WorkerOK'
    <3>1. pc \in Steps
      BY DEF PlainSteps, Steps
    <3>2. /\ w' \in Workers /\ w'.pc = pc /\ w'.cur = i /\ w'.inst = cache[i] /\ w'.fresh = fresh[i]
          /\ w'.index = Idle.index
      BY <2>1, <2>2, <3>1, IdleType, Zenon DEF Workers
    <3>3. Idle.index \in Shards
      BY ShardFacts DEF Idle
    <3>4. cache[i] \in Existing /\ pc # "remove"
      BY <2>1, <2>2, CopyFacts DEF PlainSteps
    <3> QED
      BY <2>1, <3>2, <3>3, <3>4, Zenon DEF WorkerOK
  <2>3. {"release", "invalid", "labels", "status"} \subseteq PlainSteps
    BY DEF PlainSteps, Steps
  <2>4. Entry(i, cache[i]) \in PlainSteps
    BY <1>4, <2>3, Zenon DEF Entry
  <2>5. CASE UNCHANGED w
    BY <1>2, <2>1, <2>5
  <2>6. CASE /\ cache[i].exists
             /\ w' = [Idle EXCEPT !.pc = IF i \in monitored THEN "clean" ELSE "release",
                                  !.cur = i, !.inst = cache[i], !.fresh = fresh[i]]
    <3>1. (IF i \in monitored THEN "clean" ELSE "release") \in PlainSteps \cup {"clean"}
      BY <2>3
    <3> QED
      BY <2>2, <2>6, <3>1, Zenon
  <2>7. CASE /\ cache[i].exists
             /\ w' = [Idle EXCEPT !.pc = IF ValidateKVRocks(i, cache[i].spec)
                                         THEN Entry(i, cache[i]) ELSE "invalid",
                                  !.cur = i, !.inst = cache[i], !.fresh = fresh[i]]
    <3>1. (IF ValidateKVRocks(i, cache[i].spec) THEN Entry(i, cache[i]) ELSE "invalid")
            \in PlainSteps \cup {"clean"}
      BY <2>3, <2>4
    <3> QED
      BY <2>2, <2>7, <3>1, Zenon
  <2> QED
    BY <1>5, <2>5, <2>6, <2>7, Zenon DEF Reconcile
<1>6. {"pods", "controller", "running", "finalizer", "notify"} \subseteq PlainSteps
  BY DEF PlainSteps, Steps
<1>7. CASE SetLabels
  <2> DEFINE new == [w.inst EXCEPT !.labels = TRUE]
  <2>1. new \in Existing
    BY <1>1, <1>7, UpdateFacts, Zenon DEF SetLabels, WorkerOK
  <2>2. Entry(w.cur, new) \in PlainSteps
    BY <1>4, InstancesAssumption, Zenon DEF Entry, PlainSteps, Steps
  <2>3. (Updated(new) /\ GoOn(new, Entry(w.cur, new))) \/ w' = Idle
    BY <1>7, Zenon DEF SetLabels, Return
  <2> HIDE DEF new
  <2> QED
    BY <1>3, <2>1, <2>2, <2>3, GoOnWorker, Zenon
<1>8. CASE SetCreating
  <2> DEFINE new == [w.inst EXCEPT !.status = "Creating"]
  <2>1. new \in Existing
    BY <1>1, <1>8, UpdateFacts, Zenon DEF SetCreating, WorkerOK, Statuses
  <2>2. (Updated(new) /\ GoOn(new, Type[w.cur])) \/ w' = Idle
    BY <1>8, Zenon DEF SetCreating, Return
  <2> HIDE DEF new
  <2> QED
    BY <1>3, <1>4, <2>1, <2>2, GoOnWorker, Zenon
<1>9. CASE SetRunning
  <2> DEFINE new == [w.inst EXCEPT !.status = "Running"]
  <2>1. new \in Existing
    BY <1>1, <1>9, UpdateFacts, Zenon DEF SetRunning, WorkerOK, Statuses
  <2>2. (Updated(new) /\ GoOn(new, "finalizer")) \/ w' = Idle
    BY <1>9, Zenon DEF SetRunning, Return
  <2> HIDE DEF new
  <2> QED
    BY <1>3, <1>6, <2>1, <2>2, GoOnWorker, Zenon
<1>10. CASE AddFinalizer
  <2> DEFINE new == [w.inst EXCEPT !.finalizer = TRUE]
  <2>1. new \in Existing /\ w.pc # "idle"
    BY <1>1, <1>10, UpdateFacts, Zenon DEF AddFinalizer, WorkerOK
  <2>2. \/ Updated(new) /\ GoOn(new, "notify")
        \/ Goto("notify") /\ UNCHANGED obj
        \/ w' = Idle
    BY <1>10, Zenon DEF AddFinalizer, Return
  <2> HIDE DEF new
  <2> QED
    BY <1>1, <1>3, <1>6, <2>1, <2>2, GoOnWorker, GotoWorker, Zenon
<1>11. CASE EnsureEtcd \/ EnsureController \/ EnsurePods
  <2>1. UNCHANGED obj /\ w.pc # "idle"
    BY <1>11, Zenon DEF EnsureEtcd, EnsureController, EnsurePods
  <2>2. \/ w' = Idle
        \/ Goto("controller") \/ Goto("pods") \/ Goto("running") \/ Goto("finalizer")
    BY <1>11, Zenon DEF EnsureEtcd, EnsureController, EnsurePods, Return
  <2> QED
    BY <1>1, <1>3, <1>6, <2>1, <2>2, GotoWorker, Zenon
<1>12. CASE EnsureSentinelPods
  <2> DEFINE listed == {[name |-> i, status |-> cache[i].status, masters |-> cache[i].spec.master] :
                          i \in {j \in monitored : cache[j].exists}}
  <2>1. UNCHANGED obj /\ w.pc # "idle"
    BY <1>12, Zenon DEF EnsureSentinelPods
  <2>2. listed \in SUBSET Targets
    <3> SUFFICES ASSUME NEW i \in monitored, cache[i].exists
                 PROVE  [name |-> i, status |-> cache[i].status, masters |-> cache[i].spec.master]
                          \in Targets
      OBVIOUS
    <3>1. i \in Instances /\ cache[i] \in Existing
      BY <1>1, CopyFacts DEF ResourcesOK
    <3>2. cache[i].status \in Statuses /\ cache[i].spec \in AllSpecs
      BY <3>1, UpdateFacts, Zenon
    <3> QED
      BY <3>1, <3>2 DEF Targets
  <2>3. CASE w' = [w EXCEPT !.pc = "list", !.ips = up, !.left = listed]
    <3> HIDE DEF listed
    <3>1. "list" \in PlainSteps /\ "list" \in Steps /\ up \in SUBSET SentinelPods
      BY DEF PlainSteps, Steps, TypeOK, SystemOK
    <3>2. w' \in Workers /\ w'.pc = "list" /\ w'.inst = w.inst /\ w'.fresh = w.fresh /\ w'.cur = w.cur
      BY <1>1, <2>2, <2>3, <3>1, Zenon DEF Workers
    <3> QED
      BY <1>1, <2>1, <3>2, Zenon DEF WorkerOK
  <2> QED
    BY <1>3, <1>12, <2>3, Zenon DEF EnsureSentinelPods, Return
<1>13. ASSUME NEW l \in w.left, NextInstance(l) PROVE WorkerOK'
  <2>1. UNCHANGED obj /\ w.pc = "list"
    BY <1>13, Zenon DEF NextInstance
  <2>2. l \in Targets /\ w.left \ {l} \in SUBSET Targets
    BY <1>1, <1>13 DEF Workers
  <2>3. 1 \in Nat \ {0} /\ 1 \in Shards /\ "master" \in Steps /\ TRUE \in BOOLEAN
    BY ShardFacts DEF Steps
  <2>4. CASE w' = [w EXCEPT !.pc = "master", !.left = @ \ {l}, !.target = l, !.index = 1]
    <3>1. /\ w' \in Workers /\ w'.pc = "master" /\ w'.inst = w.inst /\ w'.fresh = w.fresh
          /\ w'.cur = w.cur /\ w'.index = 1
      BY <1>1, <2>2, <2>3, <2>4, Zenon DEF Workers
    <3> QED
      BY <1>1, <2>1, <2>3, <3>1, Zenon DEF WorkerOK
  <2>5. CASE w' = [w EXCEPT !.left = @ \ {l}, !.requeue = TRUE]
    <3>1. /\ w' \in Workers /\ w'.pc = w.pc /\ w'.inst = w.inst /\ w'.fresh = w.fresh
          /\ w'.cur = w.cur
      BY <1>1, <2>2, <2>3, <2>5, Zenon DEF Workers
    <3> QED
      BY <1>1, <2>1, <3>1, Zenon DEF WorkerOK
  <2> QED
    BY <1>13, <2>4, <2>5, Zenon DEF NextInstance
<1>14. CASE GetMasterMsg
  <2>1. UNCHANGED obj /\ w.pc = "master" /\ w.index \in Shards
    BY <1>1, <1>14, Zenon DEF GetMasterMsg, WorkerOK
  <2> DEFINE ip == master[<<w.target.name, w.index>>]
  <2>2. CASE w' = [w EXCEPT !.pc = "monitor", !.ip = ip]
    <3>1. w.target.name \in Instances
      BY <1>1 DEF Workers, Targets
    <3>2. ip \in Nat /\ "monitor" \in Steps
      BY <2>1, <3>1 DEF TypeOK, SystemOK, Names, Steps
    <3> HIDE DEF ip
    <3>3. /\ w' \in Workers /\ w'.pc = "monitor" /\ w'.inst = w.inst /\ w'.fresh = w.fresh
          /\ w'.cur = w.cur /\ w'.index = w.index
      BY <1>1, <2>2, <3>2, Zenon DEF Workers
    <3> QED
      BY <1>1, <2>1, <3>3, Zenon DEF WorkerOK
  <2> QED
    BY <1>3, <1>14, <2>2, Zenon DEF GetMasterMsg, Return
<1>15. CASE EnsureMonitor
  <2>1. UNCHANGED obj /\ w.pc = "monitor" /\ w.inst \in Existing /\ w.index \in Nat \ {0}
    BY <1>1, <1>15, Zenon DEF EnsureMonitor, WorkerOK, Workers
  <2>2. CASE /\ w.index < w.target.masters
             /\ w' = [w EXCEPT !.pc = "master", !.index = @ + 1, !.ip = 0]
    <3>1. w.target.masters \in {0} \cup {spec.master : spec \in AllSpecs}
      BY <1>1 DEF Workers, Targets
    <3>2. w.index + 1 \in Shards
      BY <2>1, <2>2, <3>1, NextShard
    <3>3. w.index + 1 \in Nat \ {0} /\ 0 \in Nat /\ "master" \in Steps
      BY <2>1 DEF Steps
    <3>4. /\ w' \in Workers /\ w'.pc = "master" /\ w'.inst = w.inst /\ w'.fresh = w.fresh
          /\ w'.cur = w.cur /\ w'.index = w.index + 1
      BY <1>1, <2>2, <3>3, Zenon DEF Workers
    <3> QED
      BY <1>1, <2>1, <3>2, <3>4, Zenon DEF WorkerOK
  <2>3. ASSUME NEW left \in SUBSET Targets,
               w' = [w EXCEPT !.pc = "list", !.index = 1, !.ip = 0, !.target = Nobody, !.left = left]
        PROVE  WorkerOK'
    <3>1. 1 \in Nat \ {0} /\ 0 \in Nat /\ "list" \in Steps
      BY DEF Steps
    <3>2. Nobody \in Targets
      BY InstancesAssumption, Zenon DEF Nobody, Targets, Statuses
    <3>3. /\ w' \in Workers /\ w'.pc = "list" /\ w'.inst = w.inst /\ w'.fresh = w.fresh
          /\ w'.cur = w.cur
      BY <1>1, <2>3, <3>1, <3>2, Zenon DEF Workers
    <3> QED
      BY <1>1, <2>1, <3>3, Zenon DEF WorkerOK
  <2>4. w.left \in SUBSET Targets /\ {} \in SUBSET Targets
    BY <1>1 DEF Workers
  <2>5. \/ w.index < w.target.masters /\ w' = [w EXCEPT !.pc = "master", !.index = @ + 1, !.ip = 0]
        \/ w' = [w EXCEPT !.pc = "list", !.index = 1, !.ip = 0, !.target = Nobody, !.left = {}]
        \/ w' = [w EXCEPT !.pc = "list", !.index = 1, !.ip = 0, !.target = Nobody, !.left = w.left]
        \/ w' = Idle
    BY <1>15, Zenon DEF EnsureMonitor, AfterShard, Return
  <2> QED
    BY <1>3, <2>2, <2>3, <2>4, <2>5, Zenon
<1>16. CASE GetSentinel
  <2>1. UNCHANGED obj /\ w.pc = "clean"
    BY <1>16, Zenon DEF GetSentinel
  <2>2. CASE w' = [AfterRemove EXCEPT !.skipped = TRUE]
    <3> DEFINE after == AfterRemove
    <3>1. /\ after \in Workers /\ after.pc \in {"clean", "remove", "release"}
          /\ after.inst = w.inst /\ after.fresh = w.fresh /\ after.cur = w.cur
          /\ after.pc = "clean" => after.index \in Shards
          /\ after.pc = "remove" => after.index = 1
      BY <1>1, <2>1, AfterRemoveWorker
    <3>2. w' = [after EXCEPT !.skipped = TRUE] /\ TRUE \in BOOLEAN /\ 1 \in 1..Len(Objects)
      BY <2>2 DEF Objects
    <3> HIDE DEF after
    <3>3. /\ w' \in Workers /\ w'.pc = after.pc /\ w'.inst = after.inst /\ w'.fresh = after.fresh
          /\ w'.cur = after.cur /\ w'.index = after.index
      BY <3>1, <3>2, Zenon DEF Workers
    <3> QED
      BY <1>1, <2>1, <3>1, <3>2, <3>3, Zenon DEF WorkerOK
  <2>3. CASE w' = [w EXCEPT !.pc = "unmonitor", !.ips = up]
    <3>1. "unmonitor" \in Steps /\ up \in SUBSET SentinelPods
      BY DEF Steps, TypeOK, SystemOK
    <3>2. /\ w' \in Workers /\ w'.pc = "unmonitor" /\ w'.inst = w.inst /\ w'.fresh = w.fresh
          /\ w'.cur = w.cur /\ w'.index = w.index
      BY <1>1, <2>3, <3>1, Zenon DEF Workers
    <3> QED
      BY <1>1, <2>1, <3>2, Zenon DEF WorkerOK
  <2> QED
    BY <1>3, <1>16, <2>2, <2>3, Zenon DEF GetSentinel, Return
<1>17. CASE RemoveMonitor
  <2>1. UNCHANGED obj /\ w.pc = "unmonitor" /\ w' = AfterRemove /\ 1 \in 1..Len(Objects)
    BY <1>17 DEF RemoveMonitor, Objects
  <2>2. /\ w' \in Workers /\ w'.pc \in {"clean", "remove", "release"}
        /\ w'.inst = w.inst /\ w'.fresh = w.fresh /\ w'.cur = w.cur
        /\ w'.pc = "clean" => w'.index \in Shards
        /\ w'.pc = "remove" => w'.index = 1
    BY <1>1, <2>1, AfterRemoveWorker
  <2> QED
    BY <1>1, <2>1, <2>2, Zenon DEF WorkerOK
<1>18. CASE RemoveObject
  <2>1. UNCHANGED obj /\ w.pc = "remove" /\ w.index \in 1..5
    BY <1>1, <1>18 DEF RemoveObject, WorkerOK, Objects
  <2>2. CASE w.index < Len(Objects) /\ w' = [w EXCEPT !.index = @ + 1]
    <3>1. w.index + 1 \in 1..Len(Objects) /\ w.index + 1 \in Nat \ {0}
      BY <2>1, <2>2 DEF Objects
    <3>2. /\ w' \in Workers /\ w'.pc = "remove" /\ w'.inst = w.inst /\ w'.fresh = w.fresh
          /\ w'.cur = w.cur /\ w'.index = w.index + 1
      BY <1>1, <2>1, <2>2, <3>1, Zenon DEF Workers
    <3> QED
      BY <1>1, <2>1, <3>1, <3>2, Zenon DEF WorkerOK
  <2>3. CASE w' = [w EXCEPT !.pc = "release"]
    <3>1. "release" \in Steps
      BY DEF Steps
    <3>2. w' \in Workers /\ w'.pc = "release" /\ w'.inst = w.inst /\ w'.fresh = w.fresh /\ w'.cur = w.cur
      BY <1>1, <2>3, <3>1, Zenon DEF Workers
    <3> QED
      BY <1>1, <2>1, <3>2, Zenon DEF WorkerOK
  <2> QED
    BY <1>3, <1>18, <2>2, <2>3, Zenon DEF RemoveObject, Return
<1>19. CASE SetFailed \/ UpdateSentinelAnnotationCount \/ SetSentinelRunning \/ RemoveFinalizer \/ Kill
  <2>1. w' = Idle
    BY <1>19, Zenon DEF SetFailed, UpdateSentinelAnnotationCount, SetSentinelRunning, RemoveFinalizer,
       Kill, Return
  <2> QED
    BY <1>3, <2>1
<1>20. ASSUME NEW p \in SentinelPods, RemoveMonitorFails(p) PROVE WorkerOK'
  BY <1>3, <1>20 DEF RemoveMonitorFails
<1>21. ASSUME NEW p \in SentinelPods, SentinelPodRestart(p) PROVE WorkerOK'
  <2>1. w' = [w EXCEPT !.ips = w.ips \ {p}] /\ UNCHANGED obj /\ w.ips \ {p} \in SUBSET SentinelPods
    BY <1>1, <1>21 DEF SentinelPodRestart, Workers
  <2> QED
    BY <1>1, <2>1, IpsWorker
<1>22. ASSUME NEW i \in Instances, CollectGarbage(i) PROVE WorkerOK'
  <2>1. UNCHANGED obj /\ (UNCHANGED w \/ w' = [w EXCEPT !.ips = {}])
    BY <1>22, Zenon DEF CollectGarbage
  <2> QED
    BY <1>1, <1>2, <2>1, IpsWorker
<1>23. ASSUME NEW i \in Instances, UserEdit(i) PROVE WorkerOK'
  <2>1. w' = Outdated(i) /\ \A j \in Instances \ {i} : obj'[j] = obj[j]
    BY <1>1, <1>23 DEF UserEdit, Store, ResourcesOK
  <2> QED
    BY <2>1, OutdatedWorker
<1>24. ASSUME NEW i \in Instances, UserDelete(i) PROVE WorkerOK'
  <2>1. w' = Outdated(i) /\ \A j \in Instances \ {i} : obj'[j] = obj[j]
    BY <1>1, <1>24 DEF UserDelete, Store, ResourcesOK
  <2> QED
    BY <2>1, OutdatedWorker
<1> QED
  BY <1>2, <1>5, <1>7, <1>8, <1>9, <1>10, <1>11, <1>12, <1>13, <1>14, <1>15, <1>16, <1>17, <1>18, <1>19,
     <1>20, <1>21, <1>22, <1>23, <1>24, ZenonT(60)
     DEF Next, Handler, SentinelReady, CacheSync, PodsReady, MasterMoves, ObjectReady, vars

\* Only instances are queued.
LEMMA QueueStep == ASSUME TypeOK, [Next]_vars PROVE (queue \cup dropped)' \subseteq Instances
<1>1. /\ queue \subseteq Instances /\ dropped \subseteq Instances
      /\ w.cur \in Instances /\ Sentinel \in Instances
  BY InstancesAssumption DEF TypeOK, SystemOK, WorkerOK, Workers
<1>2. ASSUME NEW i \in Instances, queue' \subseteq queue \cup {i}, dropped' \subseteq dropped \cup {w.cur}
      PROVE  (queue \cup dropped)' \subseteq Instances
  BY <1>1, <1>2
<1>3. CASE Handler
  <2>1. dropped' = dropped
    BY <1>3, ZenonT(60) DEF Handler, SetFailed, SetLabels, SetCreating, EnsureEtcd, EnsureController,
       EnsurePods, SetRunning, AddFinalizer, UpdateSentinelAnnotationCount, EnsureSentinelPods,
       GetMasterMsg, SetSentinelRunning, NextInstance, EnsureMonitor, GetSentinel, RemoveMonitor,
       RemoveObject, RemoveFinalizer
  <2>2. queue' = queue \/ queue' = queue \cup {} \/ queue' = queue \cup {w.cur}
    BY <1>3, ZenonT(60) DEF Handler, SetFailed, SetLabels, SetCreating, EnsureEtcd, EnsureController,
       EnsurePods, SetRunning, AddFinalizer, UpdateSentinelAnnotationCount, EnsureSentinelPods,
       GetMasterMsg, SetSentinelRunning, NextInstance, EnsureMonitor, GetSentinel, RemoveMonitor,
       RemoveObject, RemoveFinalizer, Return, Goto, GoOn
  <2> QED
    BY <1>1, <1>2, <2>1, <2>2
<1>4. CASE SentinelReady \/ \E p \in SentinelPods : SentinelPodRestart(p) \/ RemoveMonitorFails(p)
  BY <1>1, <1>2, <1>4, Zenon DEF SentinelReady, SentinelPodRestart, RemoveMonitorFails
<1>5. CASE Kill
  BY <1>1, <1>5 DEF Kill
<1>6. ASSUME NEW i \in Instances,
             UserEdit(i) \/ UserDelete(i) \/ CacheSync(i) \/ Reconcile(i) \/ PodsReady(i) \/ CollectGarbage(i)
      PROVE  (queue \cup dropped)' \subseteq Instances
  <2>1. dropped' = dropped
    BY <1>6, Zenon DEF UserEdit, UserDelete, CacheSync, Reconcile, PodsReady, CollectGarbage
  <2>2. queue' = queue \/ queue' = queue \cup {i} \/ queue' = queue \ {i}
    BY <1>6, Zenon DEF UserEdit, UserDelete, CacheSync, Reconcile, PodsReady, CollectGarbage
  <2> QED
    BY <1>2, <2>1, <2>2
<1>7. ASSUME NEW n \in Names, MasterMoves(n) PROVE (queue \cup dropped)' \subseteq Instances
  BY <1>2, <1>7 DEF MasterMoves, Names
<1>8. ASSUME NEW o \in {"etcd", "deployment"}, ObjectReady(o) PROVE (queue \cup dropped)' \subseteq Instances
  <2>1. owner[o] \in Instances
    BY <1>8 DEF ObjectReady, TypeOK, SystemOK, Kinds, Objects
  <2> QED
    BY <1>2, <1>8, <2>1 DEF ObjectReady
<1>9. CASE UNCHANGED vars
  BY <1>1, <1>9 DEF vars
<1> QED
  BY <1>3, <1>4, <1>5, <1>6, <1>7, <1>8, <1>9, Zenon DEF Next

\* Every step keeps the types of the pods and of the masters.
LEMMA PodsStep ==
  ASSUME TypeOK, [Next]_vars
  PROVE  /\ pods' \in [Instances -> {"none", "starting", "ready"}]
         /\ master' \in [Names -> Nat \ {0}]
<1> USE DEF podVars
<1>1. /\ pods \in [Instances -> {"none", "starting", "ready"}]
      /\ master \in [Names -> Nat \ {0}]
  BY DEF TypeOK, SystemOK
<1>2. CASE UNCHANGED podVars
  BY <1>1, <1>2
<1>3. ASSUME NEW i \in Instances, PodsReady(i) \/ CollectGarbage(i) PROVE pods' \in [Instances -> {"none", "starting", "ready"}] /\ UNCHANGED master
  BY <1>1, <1>3 DEF PodsReady, CollectGarbage
<1>4. CASE EnsurePods
  BY <1>1, <1>4, Zenon DEF EnsurePods
<1>5. ASSUME NEW n \in Names, MasterMoves(n)
      PROVE  /\ pods' \in [Instances -> {"none", "starting", "ready"}]
             /\ master' \in [Names -> Nat \ {0}]
  <2>1. pods' = [pods EXCEPT ![n[1]] = "starting"] /\ master' = [master EXCEPT ![n] = @ + 1]
    BY <1>5 DEF MasterMoves
  <2>2. master[n] + 1 \in Nat \ {0}
    BY <1>1
  <2>3. master' \in [Names -> Nat \ {0}]
    BY <1>1, <2>1, <2>2, Zenon
  <2> QED
    BY <1>1, <2>1, <2>3, Zenon
<1> QED
  BY <1>1, <1>2, <1>3, <1>4, <1>5, ZenonT(60)
     DEF Next, Handler, SetFailed, SetLabels, SetCreating, EnsureEtcd, EnsureController,
     SetRunning, AddFinalizer, UpdateSentinelAnnotationCount, EnsureSentinelPods, GetMasterMsg,
     SetSentinelRunning, NextInstance, EnsureMonitor, GetSentinel, RemoveMonitor, RemoveObject,
     RemoveFinalizer, SentinelReady, Kill, UserEdit, UserDelete, CacheSync, Reconcile,
     SentinelPodRestart, RemoveMonitorFails, ObjectReady, vars

\* The monitors after RemoveMonitor.
LEMMA WithoutType ==
  ASSUME mon \in [SentinelPods -> [Names -> Nat]], NEW S, NEW m
  PROVE  /\ Without(S, m) \in [SentinelPods -> [Names -> Nat]]
         /\ \A p \in SentinelPods, n \in Names :
              Without(S, m)[p][n] = IF p \in S /\ n = m THEN 0 ELSE mon[p][n]
BY Zenon DEF Without

\* Every step keeps the types of the sentinel and of what it monitors.
LEMMA SentinelStep ==
  ASSUME TypeOK, [Next]_vars
  PROVE  /\ deployed' \in BOOLEAN /\ up' \subseteq SentinelPods
         /\ mon' \in [SentinelPods -> [Names -> Nat]]
<1> USE DEF sentinelVars
<1> DEFINE Goal == /\ deployed' \in BOOLEAN /\ up' \subseteq SentinelPods
                   /\ mon' \in [SentinelPods -> [Names -> Nat]]
<1>1. /\ deployed \in BOOLEAN /\ up \subseteq SentinelPods
      /\ mon \in [SentinelPods -> [Names -> Nat]]
  BY DEF TypeOK, SystemOK
<1>2. CASE UNCHANGED sentinelVars
  BY <1>1, <1>2
<1>3. CASE EnsureSentinelPods \/ SentinelReady
  BY <1>1, <1>3, Zenon DEF EnsureSentinelPods, SentinelReady
<1>4. ASSUME NEW i \in Instances, CollectGarbage(i) PROVE Goal
  <2>1. \/ UNCHANGED sentinelVars
        \/ /\ deployed' = FALSE /\ up' = {}
           /\ mon' = [p \in SentinelPods |-> [n \in Names |-> 0]]
    BY <1>4, Zenon DEF CollectGarbage
  <2>2. [p \in SentinelPods |-> [n \in Names |-> 0]] \in [SentinelPods -> [Names -> Nat]]
    OBVIOUS
  <2> QED
    BY <1>1, <2>1, <2>2, Zenon
<1>5. CASE EnsureMonitor
  <2>1. w.ip \in Nat
    BY DEF TypeOK, WorkerOK, Workers
  <2>2. \A p \in SentinelPods : CreateMonitor(p, <<w.target.name, w.index>>, w.ip) \in [Names -> Nat]
    BY <1>1, <2>1, Zenon DEF CreateMonitor
  <2> QED
    BY <1>1, <1>5, <2>2, Zenon DEF EnsureMonitor
<1>6. CASE RemoveMonitor
  BY <1>1, <1>6, WithoutType DEF RemoveMonitor
<1>7. ASSUME NEW p \in SentinelPods, RemoveMonitorFails(p) PROVE Goal
  BY <1>1, <1>7, WithoutType DEF RemoveMonitorFails
<1>8. ASSUME NEW p \in SentinelPods, SentinelPodRestart(p) PROVE Goal
  BY <1>1, <1>8 DEF SentinelPodRestart
<1> QED
  BY <1>2, <1>3, <1>4, <1>5, <1>6, <1>7, <1>8, ZenonT(60)
     DEF Next, Handler, SetFailed, SetLabels, SetCreating, EnsureEtcd, EnsureController, EnsurePods,
     SetRunning, AddFinalizer, UpdateSentinelAnnotationCount, GetMasterMsg, SetSentinelRunning,
     NextInstance, GetSentinel, RemoveObject, RemoveFinalizer, Kill, UserEdit, UserDelete, CacheSync,
     Reconcile, PodsReady, MasterMoves, ObjectReady, vars

\* An object of the controller that is ready has an owner.
LEMMA ControllerStep ==
  ASSUME TypeOK, [Next]_vars
  PROVE  /\ owner' \in [Kinds -> Instances \cup {None}]
         /\ ready' \subseteq {o \in Kinds : owner'[o] # None}
<1> USE DEF controllerVars
<1> DEFINE Goal == /\ owner' \in [Kinds -> Instances \cup {None}]
                   /\ ready' \subseteq {o \in Kinds : owner'[o] # None}
<1>1. /\ owner \in [Kinds -> Instances \cup {None}]
      /\ ready \subseteq {o \in Kinds : owner[o] # None}
      /\ w.cur \in Instances
  BY DEF TypeOK, SystemOK, WorkerOK, Workers
<1>2. CASE UNCHANGED controllerVars
  BY <1>1, <1>2
<1>3. ASSUME NEW o \in {"etcd", "deployment"}, ObjectReady(o) PROVE Goal
  <2>1. o \in Kinds
    BY DEF Kinds, Objects
  <2> QED
    BY <1>1, <1>3, <2>1 DEF ObjectReady
<1>4. ASSUME NEW i \in Instances, CollectGarbage(i) PROVE Goal
  BY <1>1, <1>4 DEF CollectGarbage
<1>5. CASE RemoveObject
  BY <1>1, <1>5 DEF RemoveObject
<1>6. CASE EnsureEtcd \/ EnsureController
  <2>1. PICK S : CreateIfNotExists(S) /\ UNCHANGED ready
    BY <1>6, Zenon DEF EnsureEtcd, EnsureController
  <2> QED
    BY <1>1, <2>1 DEF CreateIfNotExists
<1> QED
  BY <1>2, <1>3, <1>4, <1>5, <1>6, ZenonT(60)
     DEF Next, Handler, SetFailed, SetLabels, SetCreating, EnsurePods, EnsureSentinelPods, EnsureMonitor,
     SetRunning, AddFinalizer, UpdateSentinelAnnotationCount, GetMasterMsg, SetSentinelRunning,
     NextInstance, GetSentinel, RemoveMonitor, RemoveFinalizer, Kill, UserEdit, UserDelete, CacheSync,
     Reconcile, PodsReady, MasterMoves, SentinelReady, SentinelPodRestart, RemoveMonitorFails, vars

\* The initial state has the types.
LEMMA InitType == Init => TypeOK
<1> SUFFICES ASSUME Init PROVE TypeOK
  OBVIOUS
<1>1. PICK P \in Populations, spec \in [Instances -> AllSpecs] :
        /\ obj = [i \in Instances |-> IF i \in P.instances THEN Created(spec[i]) ELSE Gone]
        /\ monitored = P.monitored
        /\ queue = P.instances
  BY DEF Init
<1>2. P.instances \subseteq Instances /\ P.monitored \subseteq P.instances \ {Sentinel}
  BY PopulationsAssumption
<1>3. \A i \in Instances : Created(spec[i]) \in Existing
  BY DEF Created, Existing, Statuses
<1>4. obj \in [Instances -> Copies]
  BY <1>1, <1>3, Zenon DEF Copies
<1>5. ResourcesOK
  BY <1>1, <1>2, <1>4 DEF Init, ResourcesOK
<1>6. WorkerOK
  BY IdleType DEF Init, WorkerOK
<1>7. SystemOK
  <2>1. mon \in [SentinelPods -> [Names -> Nat]]
    BY Zenon DEF Init
  <2>2. owner \in [Kinds -> Instances \cup {None}] /\ master \in [Names -> Nat \ {0}]
        /\ pods \in [Instances -> {"none", "starting", "ready"}]
    BY DEF Init
  <2>3. queue \subseteq Instances /\ dropped \subseteq Instances
    BY <1>1, <1>2 DEF Init
  <2>4. deployed \in BOOLEAN /\ up \subseteq SentinelPods /\ ready \subseteq {o \in Kinds : owner[o] # None}
    BY Zenon DEF Init
  <2> QED
    BY <2>1, <2>2, <2>3, <2>4 DEF SystemOK
<1> QED
  BY <1>5, <1>6, <1>7 DEF TypeOK

\* Types, current copies and the ranges of the loops, for every namespace: the
\* resourceVersion of UpdateKVRocks keeps the worker's copy and the stored resource equal.
THEOREM TypeCorrect == Spec => []TypeOK
<1>1. ASSUME TypeOK, [Next]_vars PROVE TypeOK'
  <2>1. SystemOK'
    BY <1>1, QueueStep, PodsStep, SentinelStep, ControllerStep DEF SystemOK
  <2> QED
    BY <1>1, <2>1, ResourcesStep, WorkerStep DEF TypeOK
<1> QED
  BY InitType, <1>1, PTL DEF Spec

-----------------------------------------------------------------------------
(* Monitors *)

\* The steps of Finializer.
Deleting == {"clean", "unmonitor", "remove", "release"}

\* The shards whose monitors the deletion of the instance has removed so far.
Cleared(k) ==
  IF w.pc \in {"clean", "unmonitor"} THEN k < w.index ELSE k <= w.inst.spec.master

\* The pods whose address the worker holds answer, and the others monitor nothing, not
\* even when they come up while RemoveMonitor is under way.  ensureSentinel has one shard
\* for an instance that is no cluster.  What a deletion has cleared stays cleared: the
\* one worker is the only one to create monitors.
MonitorInv ==
  /\ w.ips \subseteq up
  /\ \A p \in SentinelPods \ up, n \in Names : mon[p][n] = 0
  /\ w.pc = "unmonitor" => \A p \in SentinelPods \ w.ips, n \in Names : mon[p][n] = 0
  /\ w.pc \in {"master", "monitor"} /\ Type[w.target.name] # "cluster" => w.index = 1
  /\ \A p \in SentinelPods, n \in Names : Type[n[1]] # "cluster" /\ n[2] # 1 => mon[p][n] = 0
  /\ w.pc \in Deleting /\ w.cur \in monitored /\ ~w.skipped
       => \A p \in SentinelPods, k \in Shards : Cleared(k) => mon[p][<<w.cur, k>>] = 0

\* A step of the worker that leaves the sentinel alone and is not part of a deletion.
LEMMA MonitorOutside ==
  ASSUME MonitorInv, UNCHANGED <<mon, up>>, w'.ips \subseteq up,
         w'.pc \notin Deleting \cup {"master", "monitor"}
  PROVE  MonitorInv'
BY Zenon DEF MonitorInv, Deleting

\* A step that changes nothing of the worker that the monitors depend on, and that only
\* loses monitors.
LEMMA MonitorKept ==
  ASSUME MonitorInv, UNCHANGED monitored, w.cur \in Instances,
         w'.pc = w.pc, w'.cur = w.cur, w'.inst = w.inst, w'.index = w.index, w'.target = w.target,
         w'.skipped = w.skipped, w'.ips \subseteq up',
         \A p \in SentinelPods, n \in Names : mon'[p][n] \in {mon[p][n], 0},
         \A p \in SentinelPods, n \in Names : (p \in up /\ p \notin up') => mon'[p][n] = 0,
         \A p \in SentinelPods, n \in Names : (p \in w.ips /\ p \notin w'.ips) => mon'[p][n] = 0
  PROVE  MonitorInv'
<1>1. \A p \in SentinelPods, n \in Names : mon[p][n] = 0 => mon'[p][n] = 0
  OBVIOUS
<1>2. \A p \in SentinelPods \ up', n \in Names : mon'[p][n] = 0
  BY <1>1, Zenon DEF MonitorInv
<1>3. w'.pc = "unmonitor" => \A p \in SentinelPods \ w'.ips, n \in Names : mon'[p][n] = 0
  BY <1>1, Zenon DEF MonitorInv
<1>4. \A p \in SentinelPods, n \in Names : Type[n[1]] # "cluster" /\ n[2] # 1 => mon'[p][n] = 0
  BY <1>1, Zenon DEF MonitorInv
<1>5. ASSUME w.pc \in Deleting, w.cur \in monitored, ~w.skipped, NEW p \in SentinelPods,
             NEW k \in Shards, Cleared(k)'
      PROVE  mon'[p][<<w.cur, k>>] = 0
  <2>1. Cleared(k) /\ <<w.cur, k>> \in Names
    BY <1>5 DEF Cleared, Names
  <2> QED
    BY <1>1, <1>5, <2>1, Zenon DEF MonitorInv
<1>6. w'.pc \in {"master", "monitor"} /\ Type[w'.target.name] # "cluster" => w'.index = 1
  BY Zenon DEF MonitorInv
<1>7. w'.pc \in Deleting /\ w'.cur \in monitored' /\ ~w'.skipped
        => \A p \in SentinelPods, k \in Shards : Cleared(k)' => mon'[p][<<w'.cur, k>>] = 0
  BY <1>5, Zenon
<1> QED
  BY <1>2, <1>3, <1>4, <1>6, <1>7, Zenon DEF MonitorInv

\* In the beginning nothing is monitored.
LEMMA MonitorInit == Init => MonitorInv
BY IdleType DEF Init, MonitorInv, Idle, Deleting

\* After RemoveMonitor the worker holds no addresses.
LEMMA RemovedIps ==
  ASSUME w \in Workers PROVE AfterRemove.ips = {} /\ AfterRemove.skipped = w.skipped
<1>1. CASE AfterRemove = [w EXCEPT !.pc = "release", !.ips = {}]
  BY <1>1, Zenon DEF Workers
<1>2. CASE AfterRemove = [w EXCEPT !.pc = "clean", !.index = @ + 1, !.ips = {}]
  BY <1>2, Zenon DEF Workers
<1>3. CASE AfterRemove = [w EXCEPT !.pc = "remove", !.index = 1, !.ips = {}]
  BY <1>3, Zenon DEF Workers
<1> QED
  BY <1>1, <1>2, <1>3, Zenon DEF AfterRemove

\* Finializer goes on to the next shard of a cluster, and then to kvrocks-controller.
LEMMA ClusterGoesOn ==
  ASSUME w \in Workers, Type[w.cur] = "cluster"
  PROVE  /\ w.index < w.inst.spec.master => AfterRemove.pc = "clean" /\ AfterRemove.index = w.index + 1
         /\ ~(w.index < w.inst.spec.master) => AfterRemove.pc = "remove"
<1>1. ASSUME w.index < w.inst.spec.master
      PROVE  AfterRemove.pc = "clean" /\ AfterRemove.index = w.index + 1
  <2>1. AfterRemove = [w EXCEPT !.pc = "clean", !.index = @ + 1, !.ips = {}]
    BY <1>1 DEF AfterRemove
  <2> QED
    BY <2>1, Zenon DEF Workers
<1>2. ASSUME ~(w.index < w.inst.spec.master) PROVE AfterRemove.pc = "remove"
  <2>1. AfterRemove = [w EXCEPT !.pc = "remove", !.index = 1, !.ips = {}]
    BY <1>2 DEF AfterRemove
  <2> QED
    BY <2>1, Zenon DEF Workers
<1> QED
  BY <1>1, <1>2, Zenon

\* Every step keeps the monitors cleared.
LEMMA MonitorStep == TypeOK /\ MonitorInv /\ [Next]_vars => MonitorInv'
<1> SUFFICES ASSUME TypeOK, MonitorInv, [Next]_vars PROVE MonitorInv'
  OBVIOUS
<1>1. /\ w \in Workers /\ w.cur \in Instances /\ w.ips \subseteq up /\ w.index \in Nat \ {0}
      /\ up \subseteq SentinelPods /\ mon \in [SentinelPods -> [Names -> Nat]]
  BY Zenon DEF TypeOK, WorkerOK, SystemOK, Workers, MonitorInv
<1>2. CASE w' = Idle /\ UNCHANGED <<mon, up>>
  <2>1. w'.ips \subseteq up /\ w'.pc = "idle"
    BY <1>2 DEF Idle
  <2> QED
    BY <1>2, <2>1, MonitorOutside DEF Deleting
<1>3. ASSUME NEW pc \in Steps \ (Deleting \cup {"master", "monitor"}), w' = [w EXCEPT !.pc = pc],
             UNCHANGED <<mon, up>>
      PROVE  MonitorInv'
  <2>1. w'.pc = pc /\ w'.ips = w.ips
    BY <1>1, <1>3, Zenon DEF Workers
  <2> QED
    BY <1>1, <1>3, <2>1, MonitorOutside
<1>4. ASSUME NEW pc \in Steps \ (Deleting \cup {"master", "monitor"}), NEW new, GoOn(new, pc),
             UNCHANGED <<mon, up>>
      PROVE  MonitorInv'
  <2>1. w' = [w EXCEPT !.inst = new, !.pc = pc]
    BY <1>4 DEF GoOn
  <2>2. w'.pc = pc /\ w'.ips = w.ips
    BY <1>1, <2>1, Zenon DEF Workers
  <2> QED
    BY <1>1, <1>4, <2>2, MonitorOutside
<1> USE DEF resourceVars, podVars, sentinelVars
<1>5. \A i \in Instances : Type[i] \in Steps \ (Deleting \cup {"master", "monitor"})
  BY InstancesAssumption DEF Steps, Deleting
<1>6. {"invalid", "labels", "status", "controller", "pods", "running", "finalizer", "notify", "list"}
        \subseteq Steps \ (Deleting \cup {"master", "monitor"})
  BY DEF Steps, Deleting
<1>7. \A i \in Instances : \A c : Entry(i, c) \in Steps \ (Deleting \cup {"master", "monitor"})
  BY <1>5, <1>6, Zenon DEF Entry
<1>8. CASE UNCHANGED <<w, mon, up, monitored>>
  BY <1>8, Zenon DEF MonitorInv, Cleared
<1>9. ASSUME NEW i \in Instances, Reconcile(i) PROVE MonitorInv'
  <2>1. UNCHANGED <<mon, up, monitored>>
    BY <1>9, Zenon DEF Reconcile
  <2>2. ASSUME NEW pc \in Steps,
               w' = [Idle EXCEPT !.pc = pc, !.cur = i, !.inst = cache[i], !.fresh = fresh[i]]
        PROVE  w'.pc = pc /\ w'.cur = i /\ w'.ips = {} /\ w'.index = 1
    <3>1. w'.pc = pc /\ w'.cur = i /\ w'.ips = Idle.ips /\ w'.index = Idle.index
      BY <2>2, IdleType, Zenon DEF Workers
    <3> QED
      BY <3>1 DEF Idle
  <2>3. CASE UNCHANGED w
    BY <1>8, <2>1, <2>3
  <2>4. CASE w' = [Idle EXCEPT !.pc = IF i \in monitored THEN "clean" ELSE "release",
                               !.cur = i, !.inst = cache[i], !.fresh = fresh[i]]
    <3>1. (IF i \in monitored THEN "clean" ELSE "release") \in Steps
      BY DEF Steps
    <3>2. /\ w'.pc = (IF i \in monitored THEN "clean" ELSE "release") /\ w'.cur = i
          /\ w'.ips = {} /\ w'.index = 1
      BY <2>2, <2>4, <3>1, Zenon
    <3>3. \A k \in Shards : ~(k < 1)
      BY ShardFacts
    <3> QED
      BY <2>1, <3>2, <3>3 DEF MonitorInv, Cleared
  <2>5. CASE w' = [Idle EXCEPT !.pc = IF ValidateKVRocks(i, cache[i].spec)
                                      THEN Entry(i, cache[i]) ELSE "invalid",
                               !.cur = i, !.inst = cache[i], !.fresh = fresh[i]]
    <3> DEFINE pc == IF ValidateKVRocks(i, cache[i].spec) THEN Entry(i, cache[i]) ELSE "invalid"
    <3>1. pc \in Steps \ (Deleting \cup {"master", "monitor"})
      BY <1>6, <1>7, Zenon
    <3> HIDE DEF pc
    <3>2. w'.pc = pc /\ w'.ips = {}
      BY <2>2, <2>5, <3>1, Zenon DEF pc
    <3> QED
      BY <2>1, <3>1, <3>2, MonitorOutside
  <2> QED
    BY <1>9, <2>3, <2>4, <2>5, Zenon DEF Reconcile
<1>10. CASE SetFailed \/ UpdateSentinelAnnotationCount \/ SetSentinelRunning \/ RemoveFinalizer \/ Kill
  <2>1. w' = Idle /\ UNCHANGED <<mon, up>>
    BY <1>10, Zenon DEF SetFailed, UpdateSentinelAnnotationCount, SetSentinelRunning, RemoveFinalizer,
       Kill, Return
  <2> QED
    BY <1>2, <2>1
<1>11. CASE SetLabels \/ SetCreating \/ SetRunning \/ AddFinalizer
  <2>1. UNCHANGED <<mon, up>>
    BY <1>11, Zenon DEF SetLabels, SetCreating, SetRunning, AddFinalizer
  <2>2. \/ w' = Idle
        \/ w' = [w EXCEPT !.pc = "notify"]
        \/ \E new : \/ GoOn(new, Entry(w.cur, new))
                    \/ GoOn(new, Type[w.cur])
                    \/ GoOn(new, "finalizer")
                    \/ GoOn(new, "notify")
    BY <1>11, Zenon DEF SetLabels, SetCreating, SetRunning, AddFinalizer, Return, Goto
  <2> QED
    BY <1>1, <1>2, <1>3, <1>4, <1>5, <1>6, <1>7, <2>1, <2>2, Zenon
<1>12. CASE EnsureEtcd \/ EnsureController \/ EnsurePods
  <2>1. UNCHANGED <<mon, up>>
    BY <1>12, Zenon DEF EnsureEtcd, EnsureController, EnsurePods
  <2>2. \/ w' = Idle
        \/ \E pc \in {"controller", "pods", "running", "finalizer"} : w' = [w EXCEPT !.pc = pc]
    BY <1>12, Zenon DEF EnsureEtcd, EnsureController, EnsurePods, Return, Goto
  <2> QED
    BY <1>2, <1>3, <1>6, <2>1, <2>2, Zenon
<1>13. CASE EnsureSentinelPods
  <2>1. UNCHANGED <<mon, up>>
    BY <1>13, Zenon DEF EnsureSentinelPods
  <2>2. ASSUME NEW left, w' = [w EXCEPT !.pc = "list", !.ips = up, !.left = left] PROVE MonitorInv'
    <3>1. w'.pc = "list" /\ w'.ips = up
      BY <1>1, <2>2, Zenon DEF Workers
    <3> QED
      BY <1>6, <2>1, <3>1, MonitorOutside
  <2> QED
    BY <1>2, <1>13, <2>1, <2>2, Zenon DEF EnsureSentinelPods, Return
<1>14. ASSUME NEW l \in w.left, NextInstance(l) PROVE MonitorInv'
  <2>1. UNCHANGED <<mon, up>> /\ w.pc = "list"
    BY <1>14, Zenon DEF NextInstance
  <2>2. CASE w' = [w EXCEPT !.pc = "master", !.left = @ \ {l}, !.target = l, !.index = 1]
    <3>1. w'.pc = "master" /\ w'.index = 1 /\ w'.ips = w.ips
      BY <1>1, <2>2, Zenon DEF Workers
    <3> QED
      BY <2>1, <3>1, Zenon DEF MonitorInv, Deleting
  <2>3. CASE w' = [w EXCEPT !.left = @ \ {l}, !.requeue = TRUE]
    <3>1. w'.pc = "list" /\ w'.ips = w.ips
      BY <1>1, <2>1, <2>3, Zenon DEF Workers
    <3> QED
      BY <1>1, <1>6, <2>1, <3>1, MonitorOutside
  <2> QED
    BY <1>14, <2>2, <2>3, Zenon DEF NextInstance
<1>15. CASE GetMasterMsg
  <2>1. UNCHANGED <<mon, up>> /\ w.pc = "master"
    BY <1>15, Zenon DEF GetMasterMsg
  <2>2. ASSUME NEW ip, w' = [w EXCEPT !.pc = "monitor", !.ip = ip] PROVE MonitorInv'
    <3>1. w'.pc = "monitor" /\ w'.index = w.index /\ w'.ips = w.ips /\ w'.target = w.target
      BY <1>1, <2>2, Zenon DEF Workers
    <3> QED
      BY <2>1, <3>1, Zenon DEF MonitorInv, Deleting
  <2> QED
    BY <1>2, <1>15, <2>1, <2>2, Zenon DEF GetMasterMsg, Return
<1>16. CASE EnsureMonitor
  <2> DEFINE name == <<w.target.name, w.index>>
  <2>1. UNCHANGED up /\ w.pc = "monitor"
    BY <1>16, Zenon DEF EnsureMonitor
  <2>2. \A p \in SentinelPods, n \in Names : p \notin w.ips \/ n # name => mon'[p][n] = mon[p][n]
    <3>1. \A p \in SentinelPods : p \notin w.ips => p \notin Reached(SentinelPods \ w.ips)
      BY ReplicasAssumption DEF Reached, SentinelPods
    <3>2. \A p \in SentinelPods, n \in Names :
            n # name => CreateMonitor(p, name, w.ip)[n] = mon[p][n]
      BY <1>1, Zenon DEF CreateMonitor
    <3>3. \A p \in SentinelPods :
            mon'[p] = IF p \in Reached(SentinelPods \ w.ips)
                      THEN CreateMonitor(p, name, w.ip) ELSE mon[p]
      BY <1>16, Zenon DEF EnsureMonitor
    <3> HIDE DEF name
    <3> QED
      BY <3>1, <3>2, <3>3, Zenon
  <2>3. \A p \in SentinelPods \ up, n \in Names : mon'[p][n] = 0
    <3> SUFFICES ASSUME NEW p \in SentinelPods \ up, NEW n \in Names PROVE mon'[p][n] = 0
      OBVIOUS
    <3>1. p \notin w.ips /\ mon[p][n] = 0
      BY <1>1 DEF MonitorInv
    <3> HIDE DEF name
    <3> QED
      BY <2>2, <3>1, Zenon
  <2>4. Type[w.target.name] # "cluster" => w.index = 1
    BY <2>1, Zenon DEF MonitorInv
  <2>5. \A p \in SentinelPods, n \in Names : Type[n[1]] # "cluster" /\ n[2] # 1 => mon'[p][n] = 0
    <3>1. name[1] = w.target.name /\ name[2] = w.index
      OBVIOUS
    <3> HIDE DEF name
    <3> QED
      BY <2>2, <2>4, <3>1, ZenonT(60) DEF MonitorInv
  <2>6. CASE /\ Type[w.target.name] = "cluster"
             /\ w' = [w EXCEPT !.pc = "master", !.index = @ + 1, !.ip = 0]
    <3>1. w'.pc = "master" /\ w'.ips = w.ips /\ w'.target = w.target
      BY <1>1, <2>6, Zenon DEF Workers
    <3> QED
      BY <1>1, <2>1, <2>3, <2>5, <2>6, <3>1, Zenon DEF MonitorInv, Deleting
  <2>7. ASSUME NEW left,
               w' = [w EXCEPT !.pc = "list", !.index = 1, !.ip = 0, !.target = Nobody, !.left = left]
        PROVE  MonitorInv'
    <3>1. w'.pc = "list" /\ w'.ips = w.ips
      BY <1>1, <2>7, Zenon DEF Workers
    <3> QED
      BY <1>1, <2>1, <2>3, <2>5, <3>1, Zenon DEF MonitorInv, Deleting
  <2>8. CASE w' = Idle
    <3>1. w'.pc = "idle" /\ w'.ips = {}
      BY <2>8 DEF Idle
    <3> QED
      BY <2>1, <2>3, <2>5, <3>1 DEF MonitorInv, Deleting
  <2> QED
    BY <1>16, <2>6, <2>7, <2>8, Zenon DEF EnsureMonitor, AfterShard, Return
<1>17. CASE GetSentinel
  <2>1. UNCHANGED <<mon, up, monitored>> /\ w.pc = "clean"
    BY <1>17, Zenon DEF GetSentinel
  <2>2. CASE w' = [AfterRemove EXCEPT !.skipped = TRUE]
    <3>1. AfterRemove \in Workers /\ AfterRemove.pc \in {"clean", "remove", "release"} /\ AfterRemove.ips = {}
      BY <1>1, <2>1, AfterRemoveWorker, RemovedIps DEF TypeOK
    <3>2. w'.skipped = TRUE /\ w'.pc \in {"clean", "remove", "release"} /\ w'.ips = {}
      BY <2>2, <3>1, Zenon DEF Workers
    <3> QED
      BY <2>1, <3>2 DEF MonitorInv, Deleting
  <2>3. CASE w' = [w EXCEPT !.pc = "unmonitor", !.ips = up]
    <3>1. /\ w'.pc = "unmonitor" /\ w'.ips = up /\ w'.index = w.index /\ w'.cur = w.cur
          /\ w'.skipped = w.skipped
      BY <1>1, <2>3, Zenon DEF Workers
    <3> QED
      BY <2>1, <3>1 DEF MonitorInv, Deleting, Cleared
  <2> QED
    BY <1>2, <1>17, <2>1, <2>2, <2>3, Zenon DEF GetSentinel, Return
<1>18. CASE RemoveMonitor
  <2> DEFINE name == <<w.cur, w.index>>
  <2>1. UNCHANGED <<up, monitored>> /\ w.pc = "unmonitor" /\ w' = AfterRemove /\ mon' = Without(w.ips, name)
    BY <1>18 DEF RemoveMonitor
  <2>2. \A p \in SentinelPods, n \in Names :
          mon'[p][n] = IF p \in w.ips /\ n = name THEN 0 ELSE mon[p][n]
    BY <1>1, <2>1, WithoutType, SMTT(60)
  <2> HIDE DEF name
  <2>3. /\ \A p \in SentinelPods, n \in Names : mon[p][n] = 0 => mon'[p][n] = 0
        /\ \A p \in SentinelPods, n \in Names : n = name => mon'[p][n] = 0
    BY <2>1, <2>2 DEF MonitorInv
  <2>4. /\ w' \in Workers /\ w'.pc \in {"clean", "remove", "release"} /\ w'.ips = {}
        /\ w'.inst = w.inst /\ w'.cur = w.cur /\ w'.skipped = w.skipped
    BY <1>1, <2>1, AfterRemoveWorker, RemovedIps DEF TypeOK
  <2>5. ASSUME w.cur \in monitored, ~w.skipped, NEW p \in SentinelPods, NEW k \in Shards, Cleared(k)'
        PROVE  mon'[p][<<w.cur, k>>] = 0
    <3>1. <<w.cur, k>> \in Names /\ k \in Nat
      BY <1>1, ShardFacts, Zenon DEF Names
    <3>2. CASE k < w.index
      BY <2>1, <2>3, <2>5, <3>1, <3>2 DEF MonitorInv, Deleting, Cleared
    <3>3. CASE k = w.index
      BY <2>3, <3>1, <3>3, Zenon DEF name
    <3>4. CASE Type[w.cur] # "cluster" /\ k # 1
      BY <2>3, <3>1, <3>4 DEF MonitorInv
    <3>5. Type[w.cur] # "cluster" => k <= w.index \/ k # 1
      BY <1>1, <3>1
    <3>6. Type[w.cur] = "cluster" => k <= w.index
      <4> SUFFICES ASSUME Type[w.cur] = "cluster" PROVE k <= w.index
        OBVIOUS
      <4>1. CASE w.index < w.inst.spec.master
        <5>1. w'.pc = "clean" /\ w'.index = w.index + 1
          BY <1>1, <2>1, <4>1, ClusterGoesOn
        <5> QED
          BY <1>1, <2>5, <3>1, <5>1 DEF Cleared
      <4>2. CASE ~(w.index < w.inst.spec.master)
        <5>1. w'.pc = "remove"
          BY <1>1, <2>1, <4>2, ClusterGoesOn, Zenon
        <5>2. k <= w.inst.spec.master /\ w.inst.spec.master \in Nat
          <6>1. w.inst \in Existing
            BY <2>1 DEF TypeOK, WorkerOK
          <6>2. w.inst.spec \in AllSpecs
            BY <6>1, UpdateFacts, Zenon
          <6>3. \A spec \in AllSpecs : spec.master \in Nat
            BY SpecsAssumption DEF AllSpecs
          <6> QED
            BY <2>4, <2>5, <5>1, <6>2, <6>3 DEF Cleared
        <5> QED
          BY <1>1, <3>1, <4>2, <5>2, SMTT(60)
      <4> QED
        BY <4>1, <4>2
    <3>7. k <= w.index => k < w.index \/ k = w.index
      BY <1>1, <3>1, SMTT(60)
    <3> QED
      BY <3>2, <3>3, <3>4, <3>5, <3>6, <3>7, Zenon
  <2>6. /\ \A p \in SentinelPods \ up, n \in Names : mon'[p][n] = 0
        /\ \A p \in SentinelPods, n \in Names : Type[n[1]] # "cluster" /\ n[2] # 1 => mon'[p][n] = 0
    BY <2>3, Zenon DEF MonitorInv
  <2>7. w'.pc \in Deleting /\ w'.cur \in monitored' /\ ~w'.skipped
          => \A p \in SentinelPods, k \in Shards : Cleared(k)' => mon'[p][<<w'.cur, k>>] = 0
    BY <2>1, <2>4, <2>5
  <2> QED
    BY <2>1, <2>4, <2>6, <2>7 DEF MonitorInv
<1>19. CASE RemoveObject
  <2>1. UNCHANGED <<mon, up, monitored>> /\ w.pc = "remove"
    BY <1>19, Zenon DEF RemoveObject
  <2>2. CASE w' = [w EXCEPT !.index = @ + 1] \/ w' = [w EXCEPT !.pc = "release"]
    <3>1. /\ w'.pc \in {"remove", "release"} /\ w'.ips = w.ips /\ w'.cur = w.cur /\ w'.inst = w.inst
          /\ w'.skipped = w.skipped
      BY <1>1, <2>1, <2>2, Zenon DEF Workers
    <3> QED
      BY <2>1, <3>1 DEF MonitorInv, Deleting, Cleared
  <2> QED
    BY <1>2, <1>19, <2>1, <2>2, Zenon DEF RemoveObject, Return
<1>20. ASSUME NEW p \in SentinelPods, RemoveMonitorFails(p) PROVE MonitorInv'
  <2> DEFINE S == w.ips \cap Reached({p})
             name == <<w.cur, w.index>>
             none == [n \in Names |-> 0]
  <2>1. up' = up \ {p} /\ w' = Idle /\ mon' = [Without(S, name) EXCEPT ![p] = none]
    BY <1>20 DEF RemoveMonitorFails
  <2> HIDE DEF S, name
  <2>2. /\ Without(S, name) \in [SentinelPods -> [Names -> Nat]]
        /\ \A q \in SentinelPods, n \in Names : mon[q][n] = 0 => Without(S, name)[q][n] = 0
    BY <1>1, WithoutType
  <2>3. \A n \in Names : none[n] = 0
    OBVIOUS
  <2> HIDE DEF none
  <2>4. /\ \A q \in SentinelPods, n \in Names : mon[q][n] = 0 => mon'[q][n] = 0
        /\ \A n \in Names : mon'[p][n] = 0
    BY <2>1, <2>2, <2>3
  <2>5. w'.pc = "idle" /\ w'.ips = {}
    BY <2>1, Zenon DEF Idle
  <2>6. \A q \in SentinelPods \ up', n \in Names : mon'[q][n] = 0
    BY <2>1, <2>4 DEF MonitorInv
  <2>7. \A q \in SentinelPods, n \in Names : Type[n[1]] # "cluster" /\ n[2] # 1 => mon'[q][n] = 0
    BY <2>4, Zenon DEF MonitorInv
  <2> QED
    BY <2>5, <2>6, <2>7, Zenon DEF MonitorInv, Deleting
<1>21. ASSUME NEW p \in SentinelPods, SentinelPodRestart(p) PROVE MonitorInv'
  <2> DEFINE none == [n \in Names |-> 0]
  <2>1. /\ up' = up \ {p} /\ mon' = [mon EXCEPT ![p] = none] /\ w' = [w EXCEPT !.ips = @ \ {p}]
        /\ UNCHANGED monitored
    BY <1>21 DEF SentinelPodRestart
  <2>2. /\ w'.pc = w.pc /\ w'.cur = w.cur /\ w'.inst = w.inst /\ w'.index = w.index
        /\ w'.target = w.target /\ w'.skipped = w.skipped /\ w'.ips = w.ips \ {p}
    BY <1>1, <2>1, Zenon DEF Workers
  <2>3. \A n \in Names : none[n] = 0
    OBVIOUS
  <2> HIDE DEF none
  <2>4. \A q \in SentinelPods, n \in Names : mon'[q][n] = IF q = p THEN 0 ELSE mon[q][n]
    BY <1>1, <2>1, <2>3
  <2>5. w'.ips \subseteq up'
    BY <1>1, <2>1, <2>2
  <2>6. /\ \A q \in SentinelPods, n \in Names : mon'[q][n] \in {mon[q][n], 0}
        /\ \A q \in SentinelPods, n \in Names : (q \in up /\ q \notin up') => mon'[q][n] = 0
        /\ \A q \in SentinelPods, n \in Names : (q \in w.ips /\ q \notin w'.ips) => mon'[q][n] = 0
    BY <2>1, <2>2, <2>4
  <2> QED
    BY <1>1, <2>1, <2>2, <2>5, <2>6, MonitorKept, Zenon
<1>22. ASSUME NEW i \in Instances, CollectGarbage(i) PROVE MonitorInv'
  <2>1. CASE UNCHANGED <<sentinelVars, w>>
    BY <1>8, <1>22, <2>1, SMTT(60) DEF CollectGarbage
  <2>2. CASE /\ up' = {} /\ w' = [w EXCEPT !.ips = {}]
             /\ mon' = [p \in SentinelPods |-> [n \in Names |-> 0]]
    <3>1. /\ w'.pc = w.pc /\ w'.cur = w.cur /\ w'.inst = w.inst /\ w'.index = w.index
          /\ w'.target = w.target /\ w'.skipped = w.skipped /\ w'.ips = {}
      BY <1>1, <2>2, Zenon DEF Workers
    <3>2. \A q \in SentinelPods, n \in Names : mon'[q][n] = 0
      BY <2>2, Zenon
    <3>3. UNCHANGED monitored /\ w'.ips \subseteq up'
      BY <1>22, <3>1 DEF CollectGarbage
    <3> QED
      BY <1>1, <3>1, <3>2, <3>3, MonitorKept
  <2> QED
    BY <1>22, <2>1, <2>2, Zenon DEF CollectGarbage
<1>23. ASSUME NEW i \in Instances, UserEdit(i) \/ UserDelete(i) PROVE MonitorInv'
  <2>1. UNCHANGED <<mon, up, monitored>> /\ w' = Outdated(i)
    BY <1>23, Zenon DEF UserEdit, UserDelete, Store
  <2>2. CASE w' = [w EXCEPT !.fresh = FALSE]
    <3>1. /\ w'.pc = w.pc /\ w'.cur = w.cur /\ w'.inst = w.inst /\ w'.index = w.index
          /\ w'.target = w.target /\ w'.skipped = w.skipped /\ w'.ips = w.ips
      BY <1>1, <2>2, Zenon DEF Workers
    <3> QED
      BY <1>1, <2>1, <3>1, MonitorKept
  <2> QED
    BY <1>8, <2>1, <2>2, Zenon DEF Outdated
<1>24. CASE SentinelReady
  <2>1. UNCHANGED <<w, mon, monitored>> /\ up' = SentinelPods
    BY <1>24 DEF SentinelReady
  <2> QED
    BY <1>1, <2>1, MonitorKept
<1> QED
  BY <1>8, <1>9, <1>10, <1>11, <1>12, <1>13, <1>14, <1>15, <1>16, <1>17, <1>18, <1>19, <1>20, <1>21,
     <1>22, <1>23, <1>24, ZenonT(60)
     DEF Next, Handler, CacheSync, PodsReady, MasterMoves, ObjectReady, vars

\* Finializer and Reconcile: an instance with a finalizer goes only when every pod of the
\* sentinel that answers has been asked to forget each of its masters, for any number of
\* instances, shards and pods, and whatever is edited, restarted or killed in between.
THEOREM MonitorsCleared == Spec => MonitorsClearedFirst
<1> DEFINE Clear(i) ==
      obj[i].exists /\ obj[i].finalizer /\ ~obj'[i].exists /\ ~w.skipped
        => \A p \in up, n \in Names : n[1] = i /\ n[2] <= obj[i].spec.master => mon[p][n] = 0
<1>1. ASSUME TypeOK, MonitorInv, Next, NEW i \in monitored PROVE Clear(i)
  <2> SUFFICES ASSUME obj[i].exists, obj[i].finalizer, ~obj'[i].exists, ~w.skipped,
                      NEW p \in up, NEW n \in Names, n[1] = i, n[2] <= obj[i].spec.master
               PROVE  mon[p][n] = 0
    OBVIOUS
  <2>1. /\ i \in Instances /\ obj[i] \in Existing /\ w.cur \in Instances /\ p \in SentinelPods
        /\ obj \in [Instances -> Copies]
    BY <1>1, CopyFacts, Zenon DEF TypeOK, ResourcesOK, SystemOK, WorkerOK, Workers
  <2>2. CASE RemoveFinalizer
    <3>1. w.pc = "release" /\ w.fresh /\ w.cur = i
      BY <2>1, <2>2 DEF RemoveFinalizer, Updated, Refused, Store, resourceVars
    <3>2. w.inst = obj[i]
      BY <1>1, <3>1, Zenon DEF TypeOK, WorkerOK
    <3>3. n[2] \in Shards /\ n = <<i, n[2]>>
      BY DEF Names
    <3>4. Cleared(n[2])
      BY <3>1, <3>2 DEF Cleared
    <3> QED
      BY <1>1, <2>1, <3>1, <3>3, <3>4, SMTT(60) DEF MonitorInv, Deleting
  <2>3. ASSUME NEW j \in Instances, NEW new \in Existing, Store(j, new) PROVE FALSE
    BY <2>1, <2>3, CopyFacts DEF Store
  <2>4. ~UNCHANGED obj
    OBVIOUS
  <2>5. ASSUME w.pc # "idle", NEW new \in Existing, Updated(new) PROVE FALSE
    BY <2>1, <2>3, <2>5 DEF Updated
  <2>6. ~Refused
    BY <2>4 DEF Refused, resourceVars
  <2>7. w.pc # "idle" => w.inst \in Existing
    BY <1>1 DEF TypeOK, WorkerOK
  <2>8. ~SetFailed /\ ~SetLabels /\ ~SetCreating /\ ~SetRunning /\ ~AddFinalizer /\ ~SetSentinelRunning
    <3>1. ASSUME w.pc # "idle"
          PROVE  /\ \A s \in {"Failed", "Creating", "Running"} : ~Updated([w.inst EXCEPT !.status = s])
                 /\ ~Updated([w.inst EXCEPT !.labels = TRUE])
                 /\ ~Updated([w.inst EXCEPT !.finalizer = TRUE])
      <4>1. /\ \A s \in {"Failed", "Creating", "Running"} : [w.inst EXCEPT !.status = s] \in Existing
            /\ [w.inst EXCEPT !.labels = TRUE] \in Existing
            /\ [w.inst EXCEPT !.finalizer = TRUE] \in Existing
        BY <2>7, <3>1, UpdateFacts, Zenon DEF Statuses
      <4> QED
        BY <2>5, <3>1, <4>1, Zenon
    <3> QED
      BY <2>4, <2>6, <3>1, Zenon DEF SetFailed, SetLabels, SetCreating, SetRunning, AddFinalizer,
         SetSentinelRunning, resourceVars
  <2>9. ASSUME NEW j \in Instances PROVE ~UserEdit(j)
    <3> SUFFICES ASSUME UserEdit(j) PROVE FALSE
      OBVIOUS
    <3>1. obj[j] \in Existing
      BY <1>1, CopyFacts, Zenon DEF UserEdit, TypeOK, ResourcesOK
    <3>2. PICK spec \in Specs[j] : Store(j, [obj[j] EXCEPT !.spec = spec])
      BY Zenon DEF UserEdit
    <3>3. [obj[j] EXCEPT !.spec = spec] \in Existing
      BY <3>1, UpdateFacts, Zenon DEF AllSpecs
    <3> QED
      BY <2>3, <3>2, <3>3
  <2>10. ASSUME NEW j \in Instances PROVE ~UserDelete(j)
    <3> SUFFICES ASSUME UserDelete(j) PROVE FALSE
      OBVIOUS
    <3>1. obj[j] \in Existing
      BY <1>1, CopyFacts, Zenon DEF UserDelete, TypeOK, ResourcesOK
    <3>2. [obj[j] EXCEPT !.deleting = TRUE] \in Existing
      BY <3>1, UpdateFacts, Zenon
    <3>3. CASE Store(j, [obj[j] EXCEPT !.deleting = TRUE])
      BY <2>3, <3>2, <3>3, Zenon
    <3>4. CASE ~obj[j].finalizer /\ Store(j, Gone)
      <4>1. j # i
        BY <3>4
      <4> QED
        BY <2>1, <3>4, <4>1, Zenon DEF Store
    <3> QED
      BY <3>3, <3>4, Zenon DEF UserDelete
  <2> QED
    BY <1>1, <2>2, <2>4, <2>8, <2>9, <2>10, ZenonT(60)
       DEF Next, Handler, EnsureEtcd, EnsureController, EnsurePods, UpdateSentinelAnnotationCount,
       EnsureSentinelPods, GetMasterMsg, NextInstance, EnsureMonitor, GetSentinel, RemoveMonitor,
       RemoveObject, SentinelReady, Kill, CacheSync, Reconcile, PodsReady, CollectGarbage, MasterMoves,
       SentinelPodRestart, RemoveMonitorFails, ObjectReady, resourceVars
<1>2. TypeOK /\ MonitorInv /\ [Next]_vars => [\A i \in monitored : Clear(i)]_vars
  BY <1>1, Zenon
<1> QED
  BY TypeCorrect, MonitorInit, MonitorStep, <1>2, PTL DEF Spec, MonitorsClearedFirst
=============================================================================
