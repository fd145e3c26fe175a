----------------------- MODULE StandardOperatorProofs -----------------------
(***************************************************************************)
(* Proofs about StandardOperator, for any sizes and any number of edits,   *)
(* evictions and kills: types, one master at a time, and what one edit of  *)
(* spec.replicas leaves of the master and of the volumes.                  *)
(***************************************************************************)
EXTENDS StandardOperator, ReserveOrdinalsProofs

\* A new handler starts its loop at the first node.
TypeInv == TypeOK /\ (pc \in {"idle", "scale", "list"} => pos = 1)

-----------------------------------------------------------------------------
(* Types *)

\* There are finitely many ordinals, and enough for the initial size.
LEMMA OrdinalsFacts ==
  /\ Ordinals \in SUBSET Nat
  /\ IsFiniteSet(Ordinals)
  /\ 0..(InitialSize - 1) \subseteq Ordinals
<1>1. MaxSize \in Sizes /\ \A m \in Sizes : m <= MaxSize
  BY SizesAssumption, Zenon DEF MaxSize
<1>2. MaxSize \in Nat /\ InitialSize \in Nat /\ InitialSize <= MaxSize
  BY <1>1, SizesAssumption
<1>3. 0 \in Int /\ 2 * MaxSize \in Int
  BY <1>2
<1> QED
  BY <1>2, <1>3, FS_Interval DEF Ordinals

\* The types of the variables, one by one.
LEMMA TypeFacts ==
  ASSUME TypeInv
  PROVE  /\ kv \in KVs /\ cache \in KVs /\ inst \in KVs
         /\ sts \in [replicas : Sizes, reserve : Seq(Ordinals)]
         /\ DOMAIN pods \subseteq Ordinals /\ \A o \in DOMAIN pods : pods[o] \in Pods
         /\ watched \in Nat /\ stsNodes \in Seq(Nodes) /\ masterIP \in Nat
         /\ nextIP \in Nat
BY Zenon DEF TypeInv, TypeOK

\* The objects, and what the worker holds of them.
ObjectsOK == {kv, cache, inst} \subseteq KVs

\* The StatefulSet, its pods and their claims.
PodsOK ==
  /\ sts \in [replicas : Sizes, reserve : Seq(Ordinals)]
  /\ readyReplicas \in Nat
  /\ DOMAIN pods \subseteq Ordinals
  /\ \A o \in DOMAIN pods : pods[o] \in Pods
  /\ pvcs \subseteq Ordinals
  /\ doomed \subseteq pvcs \cap DOMAIN pods
  /\ watched \in Nat

\* The worker's own variables.
WorkerOK ==
  /\ pc \in {"idle", "scale", "list", "master", "roles", "resize", "pvc"}
  /\ stsNodes \in Seq(Nodes)
  /\ masterIP \in Nat
  /\ pos \in 1..(Len(stsNodes) + 1)
  /\ pc \in {"idle", "scale", "list"} => pos = 1

\* The ips and the counters.
CountersOK ==
  /\ nextIP \in Nat
  /\ budget \in [edit : Nat, evict : Nat, kill : Nat]
  /\ evicted \in BOOLEAN

\* TypeInv in these parts.
LEMMA TypeParts == TypeInv <=> ObjectsOK /\ PodsOK /\ WorkerOK /\ CountersOK
BY Zenon DEF TypeInv, TypeOK, ObjectsOK, PodsOK, WorkerOK, CountersOK

\* The types hold initially.
LEMMA InitType == Init => TypeInv
<1> SUFFICES ASSUME Init PROVE TypeInv
  OBVIOUS
<1>1. InitialSize \in Nat /\ InitialSize \in Sizes
  BY SizesAssumption
<1>2. ObjectsOK
  <2>1. KV("Creating", FALSE) \in KVs /\ KV("Running", TRUE) \in KVs
    BY <1>1 DEF KV, KVs
  <2>2. kv \in KVs
    BY <2>1, Zenon DEF Init
  <2> QED
    BY <2>2, Zenon DEF Init, ObjectsOK
<1>3. ASSUME NEW o \in 0..(InitialSize - 1)
      PROVE  o + 1 \in Nat
  BY <1>1
<1>4. ASSUME NEW ip \in Nat, NEW role \in Roles, NEW master \in Nat, NEW label \in Roles
      PROVE  Pod(ip, role, master, label) \in Pods
  BY DEF Pod, Pods
<1>5. "none" \in Roles /\ "master" \in Roles /\ "slave" \in Roles /\ 0 \in Nat
  BY DEF Roles
<1>6. /\ DOMAIN pods = 0..(InitialSize - 1)
      /\ \A o \in DOMAIN pods : pods[o] \in Pods
      /\ watched \in Nat
  <2>1. CASE /\ pods = [o \in 0..(InitialSize - 1) |-> Pod(o + 1, "slave", 0, "none")]
             /\ watched = 0
    BY <1>3, <1>4, <1>5, <2>1, Zenon
  <2>2. CASE \E m \in 0..(InitialSize - 1) :
               /\ pods = [o \in 0..(InitialSize - 1) |->
                            IF o = m THEN Pod(o + 1, "master", 0, "master")
                            ELSE Pod(o + 1, "slave", m + 1, "slave")]
               /\ watched = m + 1
    <3> PICK m \in 0..(InitialSize - 1) :
               /\ pods = [o \in 0..(InitialSize - 1) |->
                            IF o = m THEN Pod(o + 1, "master", 0, "master")
                            ELSE Pod(o + 1, "slave", m + 1, "slave")]
               /\ watched = m + 1
      BY <2>2, Zenon
    <3>1. m + 1 \in Nat
      BY <1>3
    <3>2. ASSUME NEW o \in 0..(InitialSize - 1) PROVE pods[o] \in Pods
      <4>1. o + 1 \in Nat
        BY <1>3
      <4> QED
        BY <1>4, <1>5, <3>1, <4>1, Zenon
    <3> QED
      BY <3>1, <3>2, Zenon
  <2> QED
    BY <2>1, <2>2, Zenon DEF Init
<1>7. PodsOK
  <2>1. sts \in [replicas : Sizes, reserve : Seq(Ordinals)]
    BY <1>1 DEF Init
  <2> QED
    BY <1>1, <1>6, <2>1, OrdinalsFacts, Zenon DEF Init, PodsOK
<1>8. WorkerOK
  <2>1. <<>> \in Seq(Nodes) /\ 1 \in 1..(Len(<<>>) + 1) /\ 0 \in Nat
    OBVIOUS
  <2> QED
    BY <2>1, Zenon DEF Init, WorkerOK
<1>9. CountersOK
  <2>1. InitialSize + 1 \in Nat
    BY <1>1
  <2> QED
    BY <2>1, BudgetsAssumption, Zenon DEF Init, CountersOK
<1> QED
  BY <1>2, <1>7, <1>8, <1>9, TypeParts

\* What is stored of an object is an object.
LEMMA StoredType ==
  ASSUME ObjectsOK, NEW obj \in KVs
  PROVE  Stored(obj) \in KVs
<1>1. [obj EXCEPT !.rv = @ + 1] \in KVs
  BY DEF KVs
<1> QED
  BY <1>1, Zenon DEF Stored, ObjectsOK

\* Every step keeps the types of the objects.
LEMMA ObjectsStep == TypeInv /\ [Next]_vars => ObjectsOK'
<1> SUFFICES ASSUME TypeInv, [Next]_vars PROVE ObjectsOK'
  OBVIOUS
<1>1. ObjectsOK /\ kv \in KVs /\ cache \in KVs /\ inst \in KVs
  BY TypeFacts, TypeParts
<1>2. SUFFICES kv' \in KVs /\ cache' \in KVs /\ inst' \in KVs
  BY Zenon DEF ObjectsOK
<1>3. CASE UNCHANGED <<kv, cache, inst>>
  BY <1>1, <1>3, Zenon
<1>4. CASE CacheSync
  BY <1>1, <1>4, Zenon DEF CacheSync, workerVars
<1>5. ASSUME NEW n \in Sizes, EditReplicas(n) PROVE kv' \in KVs /\ cache' \in KVs /\ inst' \in KVs
  <2>1. [kv EXCEPT !.replicas = n] \in KVs
    BY <1>1 DEF KVs
  <2> QED
    BY <1>1, <1>5, <2>1, StoredType, Zenon DEF EditReplicas, workerVars
<1>6. CASE EndReconcile /\ UNCHANGED <<kv, cache>>
  BY <1>1, <1>6, Zenon DEF EndReconcile
<1>7. CASE Reconcile
  BY <1>1, <1>7, Zenon DEF Reconcile
<1>8. CASE UpdateInstance
  <2>1. [inst EXCEPT !.status = "Running"] \in KVs /\ [inst EXCEPT !.finalizer = TRUE] \in KVs
    BY <1>1, Zenon DEF KVs
  <2> DEFINE obj == IF inst.status = "Creating" THEN [inst EXCEPT !.status = "Running"]
                    ELSE [inst EXCEPT !.finalizer = TRUE]
  <2>2. obj \in KVs
    BY <2>1, Zenon
  <2>3. \/ Abort
        \/ /\ kv' = IF obj = inst THEN kv ELSE Stored(obj)
           /\ inst' = IF obj = inst THEN inst ELSE Stored(obj)
           /\ UNCHANGED cache
    BY <1>8, Zenon DEF UpdateInstance
  <2> HIDE DEF obj
  <2> QED
    BY <1>1, <1>6, <2>2, <2>3, StoredType, Zenon DEF Abort
<1>9. CASE Environment
  BY <1>3, <1>4, <1>9, ZenonT(60)
     DEF Environment, StatusSync, PodCreate, PodScaleDown, PodGone, SentinelFailover, workerVars
<1>10. CASE WorkerStep
  BY <1>3, <1>6, <1>7, <1>8, <1>10, ZenonT(60)
     DEF WorkerStep, ScaleUp, ListPods, FindMaster, EnsureRole, resizeStatefulSet,
         cleanPersistentVolumeClaim, Abort
<1>11. CASE \/ \E o \in Ordinals : PodEvict(o)
            \/ EnsureMonitor \/ OperatorKilled \/ UNCHANGED vars
  BY <1>3, <1>6, <1>11, Zenon DEF PodEvict, EnsureMonitor, OperatorKilled, workerVars, vars
<1> QED
  BY <1>5, <1>9, <1>10, <1>11, Zenon DEF Next

\* Every step keeps the types of the counters.
LEMMA CountersStep == TypeInv /\ [Next]_vars => CountersOK'
<1> SUFFICES ASSUME TypeInv, [Next]_vars PROVE CountersOK'
  OBVIOUS
<1>1. CountersOK /\ nextIP \in Nat
  BY TypeFacts, TypeParts
<1>2. CASE UNCHANGED <<nextIP, budget, evicted>>
  BY <1>1, <1>2, Zenon DEF CountersOK
<1>3. ASSUME NEW event \in {"edit", "evict", "kill"}, Spend(event)
      PROVE  budget' \in [edit : Nat, evict : Nat, kill : Nat]
  <2>1. budget \in [edit : Nat, evict : Nat, kill : Nat]
    BY <1>1 DEF CountersOK
  <2> QED
    BY <1>3, <2>1 DEF Spend
<1>4. ASSUME NEW n \in Sizes, EditReplicas(n) PROVE CountersOK'
  BY <1>1, <1>3, <1>4, Zenon DEF EditReplicas, CountersOK
<1>5. ASSUME NEW o \in Ordinals, PodEvict(o) PROVE CountersOK'
  BY <1>1, <1>3, <1>5, Zenon DEF PodEvict, CountersOK
<1>6. CASE OperatorKilled
  BY <1>1, <1>3, <1>6, Zenon DEF OperatorKilled, CountersOK
<1>7. ASSUME NEW o \in Ordinals, PodCreate(o) PROVE CountersOK'
  <2>1. nextIP + 1 \in Nat
    BY <1>1
  <2> QED
    BY <1>1, <1>7, <2>1, Zenon DEF PodCreate, CountersOK
<1>8. CASE Environment
  BY <1>2, <1>7, <1>8, ZenonT(60)
     DEF Environment, CacheSync, StatusSync, PodScaleDown, PodGone, SentinelFailover
<1>9. CASE WorkerStep
  BY <1>2, <1>9, ZenonT(60)
     DEF WorkerStep, Reconcile, ScaleUp, ListPods, FindMaster, EnsureRole, UpdateInstance,
         resizeStatefulSet, cleanPersistentVolumeClaim, Abort
<1>10. CASE EnsureMonitor \/ UNCHANGED vars
  BY <1>2, <1>10, Zenon DEF EnsureMonitor, vars
<1> QED
  BY <1>4, <1>5, <1>6, <1>8, <1>9, <1>10, Zenon DEF Next

\* The pods that exist are finitely many, and so are those that are up.
LEMMA PodsFinite ==
  ASSUME TypeInv
  PROVE  /\ IsFiniteSet(DOMAIN pods) /\ DOMAIN pods \in SUBSET Nat
         /\ IsFiniteSet(UpPods) /\ Cardinality(UpPods) \in Nat
<1>1. DOMAIN pods \subseteq Ordinals /\ UpPods \subseteq DOMAIN pods
  BY TypeFacts, Zenon DEF UpPods
<1>2. IsFiniteSet(DOMAIN pods) /\ IsFiniteSet(UpPods)
  BY <1>1, OrdinalsFacts, FS_Subset
<1>3. Cardinality(UpPods) \in Nat
  BY <1>2, FS_CardinalityType
<1> QED
  BY <1>1, <1>2, <1>3, OrdinalsFacts, Zenon

\* The reserved ordinals that the StatefulSet may be given.
LEMMA UnreservedType ==
  ASSUME NEW r \in Seq(Ordinals), NEW delta \in Nat
  PROVE  Unreserved(r, delta) \in Seq(Ordinals)
BY DEF Unreserved

\* What the walk reserves are ordinals.
LEMMA ReserveOrdinalsOK ==
  ASSUME TypeInv, NEW delta
  PROVE  Reserve(stsNodes, delta) \in Seq(Ordinals)
<1>1. stsNodes \in Seq(Nodes)
  BY TypeFacts
<1>2. \A j \in 1..Len(stsNodes) : stsNodes[j] \in Nodes
  BY <1>1
<1>3. \A j \in 1..Len(stsNodes) : stsNodes[j].idx \in Ordinals
  BY <1>2, Zenon DEF Nodes
<1> QED
  BY <1>3, OrdinalsFacts, ReserveType

\* A change of some pods keeps their types, if each stays a pod.
LEMMA PodsChanged ==
  ASSUME PodsOK, DOMAIN pods' = DOMAIN pods, \A o \in DOMAIN pods : pods'[o] \in Pods,
         UNCHANGED <<sts, readyReplicas, claimVars>>, watched' \in Nat
  PROVE  PodsOK'
BY Zenon DEF PodsOK, claimVars

\* Every step keeps the types of the pods.
LEMMA PodsStep == TypeInv /\ [Next]_vars => PodsOK'
<1> SUFFICES ASSUME TypeInv, [Next]_vars PROVE PodsOK'
  OBVIOUS
<1> DEFINE Stss == [replicas : Sizes, reserve : Seq(Ordinals)]
<1>1. /\ PodsOK
      /\ inst \in KVs /\ sts \in Stss /\ stsNodes \in Seq(Nodes) /\ masterIP \in Nat
      /\ nextIP \in Nat /\ watched \in Nat
      /\ DOMAIN pods \subseteq Ordinals /\ \A o \in DOMAIN pods : pods[o] \in Pods
  BY TypeFacts, TypeParts, Zenon
<1>2. CASE UNCHANGED envVars
  BY <1>1, <1>2, Zenon DEF PodsOK, envVars, claimVars
<1>3. ASSUME NEW r \in Seq(Ordinals), sts' = [replicas |-> inst.replicas, reserve |-> r],
             UNCHANGED <<readyReplicas, pods, claimVars, watched>>
      PROVE  PodsOK'
  <2>1. sts' \in Stss
    BY <1>1, <1>3 DEF KVs
  <2> QED
    BY <1>1, <1>3, <2>1, Zenon DEF PodsOK, claimVars
<1>4. ASSUME NEW o \in Ordinals, Stop(o), o \in DOMAIN pods,
             UNCHANGED <<sts, readyReplicas, claimVars, watched>>
      PROVE  PodsOK'
  <2>1. \A pod \in Pods : [pod EXCEPT !.up = FALSE] \in Pods
    BY Zenon DEF Pods
  <2>2. DOMAIN pods' = DOMAIN pods /\ \A p \in DOMAIN pods : pods'[p] \in Pods
    BY <1>1, <1>4, <2>1, Zenon DEF Stop
  <2> QED
    BY <1>1, <1>4, <2>2, PodsChanged, Zenon
<1>5. ASSUME NEW o \in Ordinals, PodCreate(o) PROVE PodsOK'
  <2>1. Pod(nextIP, "slave", 0, "none") \in Pods
    BY <1>1 DEF Pod, Pods, Roles
  <2>2. DOMAIN pods' = DOMAIN pods \cup {o} /\ \A p \in DOMAIN pods' : pods'[p] \in Pods
    BY <1>1, <1>5, <2>1, Zenon DEF PodCreate
  <2> QED
    BY <1>1, <1>5, <2>2, Zenon DEF PodCreate, PodsOK
<1>6. ASSUME NEW o \in Ordinals, PodScaleDown(o) PROVE PodsOK'
  BY <1>4, <1>6, Zenon DEF PodScaleDown, UpPods
<1>7. ASSUME NEW o \in Ordinals, PodEvict(o) PROVE PodsOK'
  BY <1>4, <1>7, Zenon DEF PodEvict, UpPods
<1>8. ASSUME NEW o \in Ordinals, PodGone(o) PROVE PodsOK'
  <2>1. DOMAIN pods' = DOMAIN pods \ {o} /\ \A p \in DOMAIN pods' : pods'[p] \in Pods
    BY <1>1, <1>8, Zenon DEF PodGone
  <2>2. pvcs' \subseteq pvcs /\ doomed' \subseteq pvcs' \cap DOMAIN pods'
    BY <1>1, <1>8, <2>1, Zenon DEF PodGone, PodsOK
  <2> QED
    BY <1>1, <1>8, <2>1, <2>2, Zenon DEF PodGone, PodsOK
<1>9. CASE StatusSync
  BY <1>1, <1>9, PodsFinite, Zenon DEF StatusSync, PodsOK, claimVars
<1>10. ASSUME NEW o \in Ordinals, SentinelFailover(o) PROVE PodsOK'
  <2>1. \A pod \in Pods :
          /\ [pod EXCEPT !.role = "master", !.master = 0] \in Pods
          /\ \A ip \in Nat : [pod EXCEPT !.master = ip] \in Pods
    BY Zenon DEF Pods, Roles
  <2>2. o \in DOMAIN pods /\ pods[o].ip \in Nat
    BY <1>1, <1>10, Zenon DEF SentinelFailover, UpPods, Pods
  <2>3. DOMAIN pods' = DOMAIN pods
    BY <1>10, Zenon DEF SentinelFailover
  <2>4. ASSUME NEW p \in DOMAIN pods PROVE pods'[p] \in Pods
    <3>1. pods'[p] = IF p = o THEN [pods[p] EXCEPT !.role = "master", !.master = 0]
                     ELSE IF pods[p].up /\ pods[p].master = watched
                          THEN [pods[p] EXCEPT !.master = pods[o].ip]
                     ELSE pods[p]
      BY <1>10, Zenon DEF SentinelFailover
    <3>2. /\ pods[p] \in Pods /\ [pods[p] EXCEPT !.role = "master", !.master = 0] \in Pods
          /\ [pods[p] EXCEPT !.master = pods[o].ip] \in Pods
      BY <1>1, <2>1, <2>2, Zenon
    <3> QED
      BY <3>1, <3>2, Zenon
  <2> QED
    BY <1>1, <1>10, <2>2, <2>3, <2>4, PodsChanged, Zenon DEF SentinelFailover
<1>11. CASE EnsureMonitor
  <2>1. watched' \in Nat
    BY <1>1, <1>11, Zenon DEF EnsureMonitor, UpPods, Pods
  <2> QED
    BY <1>1, <1>11, <2>1, PodsChanged, Zenon DEF EnsureMonitor
<1>12. CASE ScaleUp
  <2>1. CASE inst.replicas > sts.replicas
    <3>1. inst.replicas \in Sizes /\ sts.replicas \in Sizes /\ sts.reserve \in Seq(Ordinals)
      BY <1>1, Zenon DEF KVs
    <3>2. \A m, n \in Sizes : n > m => n - m \in Nat
      <4>1. \A n \in Sizes : n \in Nat
        BY SizesAssumption, Zenon
      <4>2. \A m, n \in Nat : n > m => n - m \in Nat
        OBVIOUS
      <4> QED
        BY <4>1, <4>2, Zenon
    <3>3. inst.replicas - sts.replicas \in Nat
      BY <2>1, <3>1, <3>2, Zenon
    <3> QED
      BY <1>3, <1>12, <2>1, <3>1, <3>3, UnreservedType, Zenon DEF ScaleUp
  <2>2. CASE ~(inst.replicas > sts.replicas)
    BY <1>2, <1>12, <2>2, Zenon DEF ScaleUp, envVars
  <2> QED
    BY <2>1, <2>2
<1>13. CASE EnsureRole
  <2> DEFINE node == stsNodes[pos]
             isMaster == node.ip = masterIP
             role == IF isMaster THEN "master" ELSE "slave"
             asked == ~isMaster \/ inst.status = "Creating"
             told(pod) == IF ~asked \/ (~isMaster /\ pod.master = masterIP) THEN pod
                          ELSE [pod EXCEPT !.role = role,
                                           !.master = IF isMaster THEN 0 ELSE masterIP]
  <2>1. \A r \in Roles, pod \in Pods :
          /\ [pod EXCEPT !.label = r] \in Pods
          /\ \A ip \in Nat : [pod EXCEPT !.role = r, !.master = ip] \in Pods
    BY Zenon DEF Pods
  <2>2. role \in Roles
    BY DEF Roles
  <2>3. \A pod \in Pods : told(pod) \in Pods
    <3> HIDE DEF role, isMaster, asked
    <3>1. (IF isMaster THEN 0 ELSE masterIP) \in Nat
      BY <1>1
    <3> QED
      BY <2>1, <2>2, <3>1, Zenon
  <2>4. CASE Abort
    BY <1>2, <2>4, Zenon DEF Abort
  <2>5. CASE /\ Exists(node.idx)
             /\ pods' = [pods EXCEPT ![node.idx] = [told(@) EXCEPT !.label = role]]
             /\ UNCHANGED <<sts, readyReplicas, claimVars, watched>>
    <3> HIDE DEF told, role, node
    <3>1. DOMAIN pods' = DOMAIN pods /\ \A p \in DOMAIN pods : pods'[p] \in Pods
      BY <1>1, <2>1, <2>2, <2>3, <2>5, Zenon DEF Exists
    <3> QED
      BY <1>1, <2>5, <3>1, PodsChanged, Zenon
  <2> QED
    BY <1>13, <2>4, <2>5, Zenon DEF EnsureRole
<1>14. CASE resizeStatefulSet
  <2>1. CASE UNCHANGED envVars
    BY <1>2, <2>1
  <2>2. CASE /\ sts' = [replicas |-> inst.replicas,
                        reserve |-> Reserve(stsNodes, Len(stsNodes) - inst.replicas)]
             /\ UNCHANGED <<readyReplicas, pods, claimVars, watched>>
    BY <1>3, <2>2, ReserveOrdinalsOK, Zenon
  <2> QED
    BY <1>14, <2>1, <2>2, Zenon DEF resizeStatefulSet
<1>15. CASE cleanPersistentVolumeClaim
  <2>1. ASSUME NEW S, DeleteClaims(S) PROVE pvcs' \subseteq pvcs /\ doomed' \subseteq pvcs' \cap DOMAIN pods
    BY <1>1, <2>1, Zenon DEF DeleteClaims, PodsOK
  <2> QED
    BY <1>1, <1>15, <2>1, Zenon DEF cleanPersistentVolumeClaim, PodsOK
<1>16. CASE Environment
  BY <1>2, <1>5, <1>6, <1>8, <1>9, <1>10, <1>16, Zenon DEF Environment, CacheSync
<1>17. CASE WorkerStep
  BY <1>2, <1>12, <1>13, <1>14, <1>15, <1>17, ZenonT(60)
     DEF WorkerStep, Reconcile, ListPods, FindMaster, UpdateInstance, Abort
<1>18. CASE OperatorKilled \/ UNCHANGED vars \/ \E n \in Sizes : EditReplicas(n)
  BY <1>2, <1>18, Zenon DEF OperatorKilled, EditReplicas, vars
<1> QED
  BY <1>7, <1>11, <1>16, <1>17, <1>18, Zenon DEF Next

\* Every step keeps the types of the worker's variables.
LEMMA ControlStep == TypeInv /\ [Next]_vars => WorkerOK'
<1> SUFFICES ASSUME TypeInv, [Next]_vars PROVE WorkerOK'
  OBVIOUS
<1>1. /\ WorkerOK
      /\ stsNodes \in Seq(Nodes) /\ masterIP \in Nat
      /\ DOMAIN pods \subseteq Ordinals /\ \A o \in DOMAIN pods : pods[o] \in Pods
  BY TypeFacts, TypeParts, Zenon
<1>2. CASE UNCHANGED workerVars
  BY <1>1, <1>2, Zenon DEF WorkerOK, workerVars
<1>3. CASE EndReconcile
  <2>1. <<>> \in Seq(Nodes) /\ 1 \in 1..(Len(<<>>) + 1) /\ 0 \in Nat
    OBVIOUS
  <2> QED
    BY <1>3, <2>1, Zenon DEF EndReconcile, WorkerOK
<1>4. ASSUME pc' \in {"master", "roles", "resize", "pvc"}, UNCHANGED <<stsNodes, pos>>, masterIP' \in Nat
      PROVE  WorkerOK'
  BY <1>1, <1>4, Zenon DEF WorkerOK
<1>5. ASSUME pc \in {"idle", "scale"}, pc' \in {"scale", "list"}, UNCHANGED <<stsNodes, masterIP, pos>>
      PROVE  WorkerOK'
  BY <1>1, <1>5, Zenon DEF WorkerOK
<1>6. CASE ListPods
  <2> DEFINE order == Ascending(DOMAIN pods)
             Listed(j) == [ip |-> pods[order[j]].ip, idx |-> order[j], role |-> pods[order[j]].role]
  <2>1. CASE Abort
    BY <1>3, <2>1 DEF Abort
  <2>2. CASE /\ stsNodes' = [j \in 1..Len(order) |-> Listed(j)]
             /\ pc' = "master"
             /\ UNCHANGED <<masterIP, pos>>
    <3>1. order \in Seq(DOMAIN pods)
      BY PodsFinite, AscendingFacts, Zenon
    <3>2. ASSUME NEW j \in 1..Len(order) PROVE Listed(j) \in Nodes
      <4>1. order[j] \in DOMAIN pods
        BY <3>1
      <4>2. order[j] \in Ordinals /\ pods[order[j]] \in Pods
        BY <1>1, <4>1, Zenon
      <4> QED
        BY <4>2, Zenon DEF Pods, Nodes
    <3> HIDE DEF order, Listed
    <3>3. Len(order) \in Nat
      BY <3>1
    <3>4. stsNodes' \in Seq(Nodes) /\ Len(stsNodes') = Len(order)
      BY <2>2, <3>2, <3>3
    <3>5. pos = 1
      BY <1>1, <1>6, Zenon DEF ListPods, WorkerOK
    <3>6. pos' \in 1..(Len(stsNodes') + 1)
      BY <2>2, <3>3, <3>4, <3>5
    <3> QED
      BY <1>1, <2>2, <3>4, <3>6, Zenon DEF WorkerOK
  <2> QED
    BY <1>6, <2>1, <2>2, Zenon DEF ListPods
<1>7. CASE FindMaster
  <2>1. CASE Abort
    BY <1>3, <2>1 DEF Abort
  <2> DEFINE masters == IF inst.status # "Creating" THEN MastersOf(stsNodes)
                        ELSE {stsNodes[j].ip : j \in {1} \cap 1..Len(stsNodes)}
  <2>2. CASE \E ip \in masters : masterIP' = ip /\ pc' = "roles" /\ UNCHANGED <<stsNodes, pos>>
    <3>1. \A j \in 1..Len(stsNodes) : stsNodes[j] \in Nodes
      BY <1>1
    <3>2. \A ip \in masters : ip \in Nat
      BY <3>1, Zenon DEF MastersOf, Nodes
    <3> QED
      BY <1>4, <2>2, <3>2, Zenon
  <2> QED
    BY <1>7, <2>1, <2>2, Zenon DEF FindMaster
<1>8. CASE EnsureRole
  <2>1. CASE Abort
    BY <1>3, <2>1 DEF Abort
  <2>2. CASE /\ \E role \in {"master", "slave"} : stsNodes' = [stsNodes EXCEPT ![pos].role = role]
             /\ pos' = pos + 1
             /\ UNCHANGED <<pc, masterIP>>
    <3>1. pos \in Nat /\ 1 <= pos /\ pos <= Len(stsNodes) /\ pc = "roles"
      <4>1. pos <= Len(stsNodes) /\ pc = "roles" /\ pos \in 1..(Len(stsNodes) + 1)
        BY <1>1, <1>8, Zenon DEF EnsureRole, WorkerOK
      <4> QED
        BY <4>1
    <3> PICK role \in {"master", "slave"} : stsNodes' = [stsNodes EXCEPT ![pos].role = role]
      BY <2>2, Zenon
    <3>2. [stsNodes[pos] EXCEPT !.role = role] \in Nodes
      <4>1. stsNodes[pos] \in Nodes
        BY <1>1, <3>1
      <4> QED
        BY <4>1, Zenon DEF Nodes, Roles
    <3>3. stsNodes' \in Seq(Nodes) /\ Len(stsNodes') = Len(stsNodes)
      BY <1>1, <3>1, <3>2
    <3>4. pos' \in 1..(Len(stsNodes') + 1)
      BY <1>1, <2>2, <3>1, <3>3
    <3> QED
      BY <1>1, <2>2, <3>1, <3>3, <3>4, Zenon DEF WorkerOK
  <2> QED
    BY <1>8, <2>1, <2>2, Zenon DEF EnsureRole
<1>9. CASE Reconcile
  BY <1>5, <1>9, Zenon DEF Reconcile
<1>10. CASE ScaleUp
  BY <1>3, <1>5, <1>10, Zenon DEF ScaleUp
<1>11. CASE UpdateInstance
  BY <1>1, <1>3, <1>4, <1>11, Zenon DEF UpdateInstance, Abort
<1>12. CASE resizeStatefulSet
  BY <1>1, <1>3, <1>4, <1>12, Zenon DEF resizeStatefulSet
<1>13. CASE cleanPersistentVolumeClaim \/ OperatorKilled
  BY <1>3, <1>13, Zenon DEF cleanPersistentVolumeClaim, OperatorKilled
<1>14. CASE Environment
  BY <1>2, <1>14, ZenonT(60)
     DEF Environment, CacheSync, StatusSync, PodCreate, PodScaleDown, PodGone, SentinelFailover
<1>15. CASE \/ EnsureMonitor \/ UNCHANGED vars
            \/ \E n \in Sizes : EditReplicas(n)
            \/ \E o \in Ordinals : PodEvict(o)
  BY <1>2, <1>15, Zenon DEF EnsureMonitor, EditReplicas, PodEvict, vars
<1> QED
  BY <1>6, <1>7, <1>8, <1>9, <1>10, <1>11, <1>12, <1>13, <1>14, <1>15, ZenonT(60)
     DEF Next, WorkerStep

\* Every step keeps all types.
LEMMA TypeStep == TypeInv /\ [Next]_vars => TypeInv'
<1>1. TypeInv /\ [Next]_vars => (ObjectsOK /\ PodsOK /\ WorkerOK /\ CountersOK)'
  BY ObjectsStep, PodsStep, ControlStep, CountersStep, Zenon
<1>2. TypeInv' <=> (ObjectsOK /\ PodsOK /\ WorkerOK /\ CountersOK)'
  BY TypeParts, PTL
<1> QED
  BY <1>1, <1>2

\* Every variable keeps its type: in particular the handler never looks past
\* the end of its list of nodes, the ordinals it reserves are ordinals of pods,
\* and a claim that waits for its pod to go has that pod.
THEOREM TypeCorrect == Spec => []TypeOK
<1>1. TypeInv => TypeOK
  BY DEF TypeInv
<1> QED
  BY <1>1, InitType, TypeStep, PTL DEF Spec

-----------------------------------------------------------------------------
(* One master *)

\* The instance runs, and everybody who reads it sees that.
RunningInv == kv.status = "Running" /\ cache.status = "Running" /\ inst.status = "Running"

\* Only the pod that sentinel watches says it is the master.
WatchedInv == \A o \in UpPods : pods[o].role = "master" => pods[o].ip = watched

\* No two pods have an ip in common, and the next ip is not in use.
IPsInv ==
  /\ \A o, p \in DOMAIN pods : pods[o].ip = pods[p].ip => o = p
  /\ \A o \in DOMAIN pods : pods[o].ip < nextIP

\* The inductive invariant of an instance that runs.
OneMasterInv == RunningInv /\ WatchedInv /\ IPsInv

\* The invariant holds at the start of an instance that runs.
LEMMA OneMasterInit == Init /\ kv.status = "Running" => OneMasterInv
<1> SUFFICES ASSUME Init, kv.status = "Running" PROVE OneMasterInv
  OBVIOUS
<1>1. RunningInv
  BY Zenon DEF Init, RunningInv
<1>2. KV("Creating", FALSE).status # "Running"
  BY DEF KV
<1> PICK m \in 0..(InitialSize - 1) :
          /\ pods = [o \in 0..(InitialSize - 1) |->
                       IF o = m THEN Pod(o + 1, "master", 0, "master")
                       ELSE Pod(o + 1, "slave", m + 1, "slave")]
          /\ watched = m + 1
  BY <1>2, Zenon DEF Init
<1>3. ASSUME NEW o \in DOMAIN pods
      PROVE  /\ o \in 0..(InitialSize - 1)
             /\ pods[o].ip = o + 1
             /\ o # m => pods[o].role = "slave"
  BY Zenon DEF Pod
<1>4. WatchedInv
  BY <1>3, ZenonT(60) DEF WatchedInv, UpPods
<1>5. IPsInv
  <2>1. InitialSize \in Nat /\ nextIP = InitialSize + 1
    <3>1. InitialSize \in Nat
      BY SizesAssumption
    <3> QED
      BY <3>1, Zenon DEF Init
  <2>2. ASSUME NEW o \in DOMAIN pods, NEW p \in DOMAIN pods, pods[o].ip = pods[p].ip PROVE o = p
    <3>1. o \in 0..(InitialSize - 1) /\ p \in 0..(InitialSize - 1) /\ o + 1 = p + 1
      BY <1>3, <2>2, ZenonT(60)
    <3> QED
      BY <2>1, <3>1
  <2>3. ASSUME NEW o \in DOMAIN pods PROVE pods[o].ip < nextIP
    BY <1>3, <2>1
  <2> QED
    BY <2>2, <2>3 DEF IPsInv
<1> QED
  BY <1>1, <1>4, <1>5 DEF OneMasterInv

\* What is stored of a running instance runs.
LEMMA StoredRuns ==
  ASSUME kv \in KVs, NEW obj \in KVs, kv.status = "Running", obj.status = "Running"
  PROVE  Stored(obj).status = "Running"
<1>1. [obj EXCEPT !.rv = @ + 1].status = obj.status
  BY Zenon DEF KVs
<1> QED
  BY <1>1, Zenon DEF Stored

\* A running instance goes on running, and so it is seen.
LEMMA RunningStep == TypeInv /\ RunningInv /\ [Next]_vars => RunningInv'
<1> SUFFICES ASSUME TypeInv, RunningInv, [Next]_vars PROVE RunningInv'
  OBVIOUS
<1>1. kv \in KVs /\ inst \in KVs /\ kv.status = "Running" /\ inst.status = "Running"
  BY TypeFacts, Zenon DEF RunningInv
<1>2. CASE UNCHANGED <<kv, cache, inst>>
  BY <1>2, Zenon DEF RunningInv
<1>3. CASE EndReconcile /\ UNCHANGED <<kv, cache>>
  BY <1>3, Zenon DEF EndReconcile, RunningInv
<1>4. CASE CacheSync \/ Reconcile
  BY <1>4, Zenon DEF CacheSync, Reconcile, RunningInv, workerVars
<1>5. ASSUME NEW n \in Sizes, EditReplicas(n) PROVE RunningInv'
  <2>1. [kv EXCEPT !.replicas = n] \in KVs
    BY <1>1, Zenon DEF KVs
  <2>2. [kv EXCEPT !.replicas = n].status = "Running"
    BY <1>1, Zenon DEF KVs
  <2> QED
    BY <1>1, <1>5, <2>1, <2>2, StoredRuns, Zenon DEF EditReplicas, RunningInv, workerVars
<1>6. CASE UpdateInstance
  <2>1. [inst EXCEPT !.finalizer = TRUE] \in KVs
    BY <1>1, Zenon DEF KVs
  <2>2. [inst EXCEPT !.finalizer = TRUE].status = "Running"
    BY <1>1, Zenon DEF KVs
  <2>3. inst.status # "Creating"
    BY <1>1
  <2>4. \/ Abort
        \/ /\ kv' \in {kv, Stored([inst EXCEPT !.finalizer = TRUE])}
           /\ inst' \in {inst, Stored([inst EXCEPT !.finalizer = TRUE])}
           /\ UNCHANGED cache
    BY <1>6, <2>3, Zenon DEF UpdateInstance
  <2> QED
    BY <1>1, <1>3, <2>1, <2>2, <2>4, StoredRuns, Zenon DEF Abort, RunningInv
<1>7. CASE Environment
  BY <1>2, <1>4, <1>7, ZenonT(60)
     DEF Environment, StatusSync, PodCreate, PodScaleDown, PodGone, SentinelFailover, workerVars
<1>8. CASE WorkerStep
  BY <1>2, <1>3, <1>4, <1>6, <1>8, ZenonT(60)
     DEF WorkerStep, ScaleUp, ListPods, FindMaster, EnsureRole, resizeStatefulSet,
         cleanPersistentVolumeClaim, Abort
<1>9. CASE \/ \E o \in Ordinals : PodEvict(o)
           \/ EnsureMonitor \/ OperatorKilled \/ UNCHANGED vars
  BY <1>2, <1>3, <1>9, Zenon DEF PodEvict, EnsureMonitor, OperatorKilled, workerVars, vars
<1> QED
  BY <1>5, <1>7, <1>8, <1>9, Zenon DEF Next

\* What one iteration of the loop does, unless it fails: the pod of that ordinal
\* may get another role, no ip changes, and no other pod is touched.
RoleGivenTo(node, isMaster) ==
  /\ pos <= Len(stsNodes) /\ pos' = pos + 1
  /\ stsNodes' = [stsNodes EXCEPT ![pos].role = IF isMaster THEN "master" ELSE "slave"]
  /\ UNCHANGED <<kv, cache, sts, readyReplicas, watched, pc, inst, masterIP, nextIP, evicted>>
  /\ node.idx \in DOMAIN pods
  /\ DOMAIN pods' = DOMAIN pods
  /\ \A p \in DOMAIN pods : /\ pods'[p].ip = pods[p].ip /\ pods'[p].up = pods[p].up
                            /\ p # node.idx => pods'[p].role = pods[p].role
  /\ ~isMaster => pods'[node.idx].role \in {pods[node.idx].role, "slave"}
  /\ isMaster /\ inst.status # "Creating" => pods'[node.idx].role = pods[node.idx].role
  /\ isMaster /\ inst.status = "Creating" => pods'[node.idx].role = "master"

\* ensureRole gives a node the role the status has for it, or the worker returns.
LEMMA RoleGiven ==
  ASSUME TypeInv, EnsureRole
  PROVE  \/ Abort
         \/ RoleGivenTo(stsNodes[pos], stsNodes[pos].ip = masterIP)
<1> DEFINE node == stsNodes[pos]
           isMaster == node.ip = masterIP
           role == IF isMaster THEN "master" ELSE "slave"
           asked == ~isMaster \/ inst.status = "Creating"
           ip == IF isMaster THEN 0 ELSE masterIP
           told(pod) == IF ~asked \/ (~isMaster /\ pod.master = masterIP) THEN pod
                        ELSE [pod EXCEPT !.role = role, !.master = ip]
<1>1. \A p \in DOMAIN pods : pods[p] \in Pods
  BY TypeFacts
<1>2. SUFFICES ASSUME /\ Exists(node.idx)
                      /\ pods' = [pods EXCEPT ![node.idx] = [told(@) EXCEPT !.label = role]]
                      /\ pos <= Len(stsNodes) /\ pos' = pos + 1
                      /\ stsNodes' = [stsNodes EXCEPT ![pos].role = role]
                      /\ UNCHANGED <<kv, cache, sts, readyReplicas, watched, pc, inst,
                                     masterIP, nextIP, evicted>>
               PROVE  RoleGivenTo(node, isMaster)
  BY Zenon DEF EnsureRole
<1> DEFINE Told(pod) == [pod EXCEPT !.role = role, !.master = ip]
<1>3. ASSUME NEW pod \in Pods
      PROVE  /\ told(pod) \in {pod, Told(pod)}
             /\ ~asked => told(pod) = pod
             /\ isMaster /\ asked => told(pod) = Told(pod)
  BY Zenon
<1>4. isMaster => role = "master"
  OBVIOUS
<1>5. ~isMaster => role = "slave"
  OBVIOUS
<1>6. inst.status = "Creating" => asked
  OBVIOUS
<1>7. inst.status # "Creating" /\ isMaster => ~asked
  OBVIOUS
<1>8. node.idx \in DOMAIN pods /\ pods[node.idx] \in Pods
  BY <1>1, <1>2, Zenon DEF Exists
<1>9. stsNodes' = [stsNodes EXCEPT ![pos].role = IF isMaster THEN "master" ELSE "slave"]
  BY <1>2, Zenon
<1> DEFINE old == pods[node.idx]
<1> HIDE DEF told, role, ip, asked, isMaster, node
<1>10. /\ DOMAIN pods' = DOMAIN pods
       /\ pods'[node.idx] = [told(old) EXCEPT !.label = role]
       /\ \A p \in DOMAIN pods : p # node.idx => pods'[p] = pods[p]
  BY <1>2, <1>8, Zenon
<1> HIDE DEF Told, old
<1>11. CASE told(old) = old
  <2>1. /\ [old EXCEPT !.label = role].ip = old.ip /\ [old EXCEPT !.label = role].up = old.up
        /\ [old EXCEPT !.label = role].role = old.role
    BY <1>8, Zenon DEF old, Pods
  <2>2. pods'[node.idx].ip = old.ip /\ pods'[node.idx].up = old.up /\ pods'[node.idx].role = old.role
    BY <1>10, <1>11, <2>1, Zenon
  <2>3. isMaster /\ inst.status = "Creating" => old.role = "master"
    <3> SUFFICES ASSUME isMaster, inst.status = "Creating" PROVE old.role = "master"
      OBVIOUS
    <3>1. old = Told(old) /\ role = "master"
      BY <1>3, <1>4, <1>6, <1>8, <1>11, Zenon DEF old
    <3>2. Told(old).role = role
      BY <1>8, Zenon DEF Told, old, Pods
    <3> QED
      BY <3>1, <3>2, Zenon
  <2> QED
    BY <1>2, <1>8, <1>9, <1>10, <2>2, <2>3, Zenon DEF RoleGivenTo, old
<1>12. CASE told(old) = Told(old) /\ told(old) # old
  <2>1. /\ [Told(old) EXCEPT !.label = role].ip = old.ip
        /\ [Told(old) EXCEPT !.label = role].up = old.up
        /\ [Told(old) EXCEPT !.label = role].role = role
    BY <1>8, Zenon DEF old, Told, Pods
  <2>2. pods'[node.idx].ip = old.ip /\ pods'[node.idx].up = old.up /\ pods'[node.idx].role = role
    BY <1>10, <1>12, <2>1, Zenon
  <2>3. isMaster => inst.status = "Creating"
    BY <1>3, <1>7, <1>8, <1>12, Zenon DEF old
  <2> QED
    BY <1>2, <1>4, <1>5, <1>8, <1>9, <1>10, <2>2, <2>3, Zenon DEF RoleGivenTo, old
<1> QED
  BY <1>3, <1>8, <1>11, <1>12, Zenon DEF old

\* A failover changes no ip, and no role but that of the pod it promotes.
LEMMA PromotedFacts ==
  ASSUME NEW o, SentinelFailover(o), \A p \in DOMAIN pods : pods[p] \in Pods
  PROVE  \A p \in DOMAIN pods :
           /\ pods'[p].ip = pods[p].ip
           /\ p # o => pods'[p].role = pods[p].role /\ pods'[p].up = pods[p].up
<1> SUFFICES ASSUME NEW p \in DOMAIN pods
             PROVE  /\ pods'[p].ip = pods[p].ip
                    /\ p # o => pods'[p].role = pods[p].role /\ pods'[p].up = pods[p].up
  OBVIOUS
<1>1. pods'[p] = IF p = o THEN [pods[p] EXCEPT !.role = "master", !.master = 0]
                 ELSE IF pods[p].up /\ pods[p].master = watched
                      THEN [pods[p] EXCEPT !.master = pods[o].ip]
                 ELSE pods[p]
  BY Zenon DEF SentinelFailover
<1>2. pods[p] \in Pods
  OBVIOUS
<1>3. CASE p = o
  <2>1. [pods[p] EXCEPT !.role = "master", !.master = 0].ip = pods[p].ip
    BY <1>2, Zenon DEF Pods
  <2> QED
    BY <1>1, <1>3, <2>1, Zenon
<1>4. CASE p # o /\ pods[p].up /\ pods[p].master = watched
  <2>1. pods'[p] = [pods[p] EXCEPT !.master = pods[o].ip]
    BY <1>1, <1>4, Zenon
  <2> QED
    BY <1>2, <2>1, Zenon DEF Pods
<1>5. CASE p # o /\ ~(pods[p].up /\ pods[p].master = watched)
  BY <1>1, <1>5, Zenon
<1> QED
  BY <1>3, <1>4, <1>5, Zenon

\* Every step keeps the ips apart.
LEMMA IPsStep == TypeInv /\ IPsInv /\ [Next]_vars => IPsInv'
<1> SUFFICES ASSUME TypeInv, IPsInv, [Next]_vars PROVE IPsInv'
  OBVIOUS
<1>1. nextIP \in Nat /\ \A o \in DOMAIN pods : pods[o] \in Pods
  BY TypeFacts
<1>2. ASSUME nextIP' = nextIP, DOMAIN pods' \subseteq DOMAIN pods,
             \A p \in DOMAIN pods' : pods'[p].ip = pods[p].ip
      PROVE  IPsInv'
  BY <1>2, Zenon DEF IPsInv
<1>3. CASE UNCHANGED <<pods, nextIP>>
  BY <1>2, <1>3, Zenon
<1>4. ASSUME NEW o \in Ordinals, o \in DOMAIN pods, Stop(o), nextIP' = nextIP
      PROVE  IPsInv'
  <2>1. \A pod \in Pods : [pod EXCEPT !.up = FALSE].ip = pod.ip
    BY Zenon DEF Pods
  <2>2. DOMAIN pods' = DOMAIN pods /\ \A p \in DOMAIN pods : pods'[p].ip = pods[p].ip
    BY <1>1, <1>4, <2>1, Zenon DEF Stop
  <2> QED
    BY <1>2, <1>4, <2>2, Zenon
<1>5. ASSUME NEW o \in Ordinals, PodCreate(o) PROVE IPsInv'
  <2>1. /\ o \notin DOMAIN pods /\ DOMAIN pods' = DOMAIN pods \cup {o}
        /\ pods'[o] = Pod(nextIP, "slave", 0, "none")
        /\ \A p \in DOMAIN pods : pods'[p] = pods[p]
        /\ nextIP' = nextIP + 1
    BY <1>5, Zenon DEF PodCreate
  <2>2. pods'[o].ip = nextIP
    BY <2>1 DEF Pod
  <2>3. \A p \in DOMAIN pods : pods[p].ip \in Nat /\ pods[p].ip < nextIP
    BY <1>1, Zenon DEF Pods, IPsInv
  <2>4. \A n \in Nat : n < nextIP => n # nextIP /\ n < nextIP + 1
    BY <1>1
  <2>5. nextIP < nextIP + 1
    BY <1>1
  <2>6. ASSUME NEW p \in DOMAIN pods', NEW q \in DOMAIN pods', pods'[p].ip = pods'[q].ip PROVE p = q
    BY <2>1, <2>2, <2>3, <2>4, <2>6, Zenon DEF IPsInv
  <2>7. ASSUME NEW p \in DOMAIN pods' PROVE pods'[p].ip < nextIP'
    BY <2>1, <2>2, <2>3, <2>4, <2>5, Zenon
  <2> QED
    BY <2>6, <2>7, Zenon DEF IPsInv
<1>6. ASSUME NEW o \in Ordinals, PodScaleDown(o) PROVE IPsInv'
  BY <1>4, <1>6, Zenon DEF PodScaleDown, UpPods
<1>7. ASSUME NEW o \in Ordinals, PodEvict(o) PROVE IPsInv'
  BY <1>4, <1>7, Zenon DEF PodEvict, UpPods
<1>8. ASSUME NEW o \in Ordinals, PodGone(o) PROVE IPsInv'
  BY <1>2, <1>8, Zenon DEF PodGone
<1>9. ASSUME NEW o \in Ordinals, SentinelFailover(o) PROVE IPsInv'
  <2>1. \A p \in DOMAIN pods : pods'[p].ip = pods[p].ip
    BY <1>1, <1>9, PromotedFacts
  <2> QED
    BY <1>2, <1>9, <2>1, Zenon DEF SentinelFailover
<1>10. CASE EnsureRole
  BY <1>2, <1>3, <1>10, RoleGiven, Zenon DEF RoleGivenTo, Abort, envVars
<1>11. CASE Environment
  BY <1>3, <1>5, <1>6, <1>8, <1>9, <1>11, Zenon DEF Environment, CacheSync, StatusSync, envVars
<1>12. CASE WorkerStep
  BY <1>3, <1>10, <1>12, ZenonT(60)
     DEF WorkerStep, Reconcile, ScaleUp, ListPods, FindMaster, UpdateInstance,
         resizeStatefulSet, cleanPersistentVolumeClaim, Abort, envVars
<1>13. CASE OperatorKilled \/ EnsureMonitor \/ UNCHANGED vars \/ \E n \in Sizes : EditReplicas(n)
  BY <1>3, <1>13, Zenon DEF OperatorKilled, EnsureMonitor, EditReplicas, vars, envVars
<1> QED
  BY <1>7, <1>11, <1>12, <1>13, Zenon DEF Next

\* Pods that become no masters keep the invariant.
LEMMA NoMasterMade ==
  ASSUME WatchedInv, watched' = watched, DOMAIN pods' \subseteq DOMAIN pods,
         \A p \in DOMAIN pods' : /\ pods'[p].ip = pods[p].ip
                                 /\ pods'[p].up => pods[p].up
                                 /\ pods'[p].role \in {pods[p].role, "slave"}
  PROVE  WatchedInv'
<1>1. "slave" # "master"
  OBVIOUS
<1> QED
  BY <1>1, Zenon DEF WatchedInv, UpPods

\* No step of a running instance makes a master that sentinel does not watch.
LEMMA WatchedStep == TypeInv /\ OneMasterInv /\ [Next]_vars => WatchedInv'
<1> SUFFICES ASSUME TypeInv, OneMasterInv, [Next]_vars PROVE WatchedInv'
  OBVIOUS
<1>1. RunningInv /\ WatchedInv
  BY DEF OneMasterInv
<1>2. \A o \in DOMAIN pods : pods[o] \in Pods
  BY TypeFacts
<1>3. CASE UNCHANGED <<pods, watched>>
  BY <1>1, <1>3, NoMasterMade, Zenon
<1>4. ASSUME NEW o \in Ordinals, o \in DOMAIN pods, Stop(o), watched' = watched
      PROVE  WatchedInv'
  <2>1. \A pod \in Pods : /\ [pod EXCEPT !.up = FALSE].ip = pod.ip
                          /\ [pod EXCEPT !.up = FALSE].role = pod.role
                          /\ [pod EXCEPT !.up = FALSE].up = FALSE
    BY Zenon DEF Pods
  <2>2. DOMAIN pods' = DOMAIN pods
    BY <1>4, Zenon DEF Stop
  <2>3. ASSUME NEW p \in DOMAIN pods
        PROVE  /\ pods'[p].ip = pods[p].ip /\ pods'[p].role = pods[p].role
               /\ pods'[p].up => pods[p].up
    BY <1>2, <1>4, <2>1, Zenon DEF Stop
  <2> QED
    BY <1>1, <1>4, <2>2, <2>3, NoMasterMade, Zenon
<1>5. ASSUME NEW o \in Ordinals, PodCreate(o) PROVE WatchedInv'
  <2>1. /\ o \notin DOMAIN pods /\ DOMAIN pods' = DOMAIN pods \cup {o}
        /\ pods'[o] = Pod(nextIP, "slave", 0, "none")
        /\ \A p \in DOMAIN pods : pods'[p] = pods[p]
        /\ watched' = watched
    BY <1>5, Zenon DEF PodCreate
  <2>2. pods'[o].role # "master"
    BY <2>1 DEF Pod
  <2> QED
    BY <1>1, <2>1, <2>2, Zenon DEF WatchedInv, UpPods
<1>6. ASSUME NEW o \in Ordinals, PodScaleDown(o) PROVE WatchedInv'
  BY <1>4, <1>6, Zenon DEF PodScaleDown, UpPods
<1>7. ASSUME NEW o \in Ordinals, PodEvict(o) PROVE WatchedInv'
  BY <1>4, <1>7, Zenon DEF PodEvict, UpPods
<1>8. ASSUME NEW o \in Ordinals, PodGone(o) PROVE WatchedInv'
  <2>1. /\ DOMAIN pods' = DOMAIN pods \ {o} /\ \A p \in DOMAIN pods' : pods'[p] = pods[p]
        /\ watched' = watched
    BY <1>8, Zenon DEF PodGone
  <2> QED
    BY <1>1, <2>1, NoMasterMade, Zenon
<1>9. ASSUME NEW o \in Ordinals, SentinelFailover(o) PROVE WatchedInv'
  <2>1. /\ o \in DOMAIN pods /\ DOMAIN pods' = DOMAIN pods /\ watched' = pods[o].ip
        /\ ~\E p \in UpPods : pods[p].ip = watched /\ pods[p].role = "master"
    BY <1>9, Zenon DEF SentinelFailover, UpPods
  <2>2. \A p \in DOMAIN pods :
          /\ pods'[p].ip = pods[p].ip
          /\ p # o => pods'[p].role = pods[p].role /\ pods'[p].up = pods[p].up
    BY <1>2, <1>9, PromotedFacts
  <2>3. \A p \in UpPods : pods[p].role # "master"
    BY <1>1, <2>1, Zenon DEF WatchedInv
  <2> QED
    BY <2>1, <2>2, <2>3, Zenon DEF WatchedInv, UpPods
<1>10. CASE EnsureMonitor
  BY <1>1, <1>10, Zenon DEF EnsureMonitor, WatchedInv
<1>11. CASE EnsureRole
  <2>1. CASE Abort
    BY <1>3, <2>1, Zenon DEF Abort, envVars
  <2>2. CASE RoleGivenTo(stsNodes[pos], stsNodes[pos].ip = masterIP)
    <3>1. inst.status # "Creating"
      BY <1>1, Zenon DEF RunningInv
    <3>2. \A p \in DOMAIN pods : pods'[p].role \in {pods[p].role, "slave"}
      BY <2>2, <3>1, Zenon DEF RoleGivenTo
    <3> QED
      BY <1>1, <2>2, <3>2, NoMasterMade, Zenon DEF RoleGivenTo
  <2> QED
    BY <1>11, <2>1, <2>2, RoleGiven
<1>12. CASE Environment
  BY <1>3, <1>5, <1>6, <1>8, <1>9, <1>12, Zenon DEF Environment, CacheSync, StatusSync, envVars
<1>13. CASE WorkerStep
  BY <1>3, <1>11, <1>13, ZenonT(60)
     DEF WorkerStep, Reconcile, ScaleUp, ListPods, FindMaster, UpdateInstance,
         resizeStatefulSet, cleanPersistentVolumeClaim, Abort, envVars
<1>14. CASE OperatorKilled \/ UNCHANGED vars \/ \E n \in Sizes : EditReplicas(n)
  BY <1>3, <1>14, Zenon DEF OperatorKilled, EditReplicas, vars, envVars
<1> QED
  BY <1>7, <1>10, <1>12, <1>13, <1>14, Zenon DEF Next

\* The invariant leaves room for one master.
LEMMA OneMasterCount == OneMasterInv => Cardinality(Masters) <= 1
<1> SUFFICES ASSUME OneMasterInv PROVE Cardinality(Masters) <= 1
  OBVIOUS
<1>1. \A o, p \in Masters : o = p
  BY Zenon DEF OneMasterInv, WatchedInv, IPsInv, Masters, UpPods
<1>2. CASE Masters = {}
  BY <1>2, FS_EmptySet
<1>3. CASE Masters # {}
  <2> PICK o \in Masters : TRUE
    BY <1>3
  <2>1. Masters = {o}
    BY <1>1
  <2> QED
    BY <2>1, FS_Singleton
<1> QED
  BY <1>2, <1>3

\* An instance that runs at the start never has two masters, whatever the
\* order in which reconciles and sentinel give out roles, for any sizes and
\* any number of edits, evictions and kills.
THEOREM AtMostOneMaster == Spec /\ kv.status = "Running" => [](Cardinality(Masters) <= 1)
<1>1. Init /\ kv.status = "Running" => TypeInv /\ OneMasterInv
  BY InitType, OneMasterInit
<1>2. TypeInv /\ OneMasterInv /\ [Next]_vars => (TypeInv /\ OneMasterInv)'
  <2>1. TypeInv /\ OneMasterInv /\ [Next]_vars => (RunningInv /\ WatchedInv /\ IPsInv)'
    BY RunningStep, WatchedStep, IPsStep, Zenon DEF OneMasterInv
  <2>2. TypeInv /\ [Next]_vars => TypeInv'
    BY TypeStep
  <2> QED
    BY <2>1, <2>2, Zenon DEF OneMasterInv
<1>3. TypeInv /\ OneMasterInv => Cardinality(Masters) <= 1
  BY OneMasterCount
<1> QED
  BY <1>1, <1>2, <1>3, PTL DEF Spec

\* Neither sentinel nor a reconcile makes a second master of an instance that
\* runs at the start.  While an instance is still being created this can fail:
\* a reconcile that reads a stale copy without the status Running makes the
\* first pod the master again, after sentinel has moved on.
THEOREM SecondMasterNever == Spec /\ kv.status = "Running" => NoSecondMaster
<1>1. Spec /\ kv.status = "Running" => [](Cardinality(Masters) <= 1)
  BY AtMostOneMaster
<1>2. Cardinality(Masters') <= 1
        => [inst.status = "Running" /\ Cardinality(Masters) <= 1 => Cardinality(Masters') <= 1]_vars
  OBVIOUS
<1>3. [](Cardinality(Masters) <= 1) => NoSecondMaster
  <2>1. (Cardinality(Masters) <= 1)' <=> Cardinality(Masters') <= 1
    OBVIOUS
  <2> QED
    BY <1>2, <2>1, PTL DEF NoSecondMaster
<1> QED
  BY <1>1, <1>3, PTL

-----------------------------------------------------------------------------
(* One edit of spec.replicas *)

\* The copies of the object are not newer than the object, and as new as it
\* only if they are equal to it.
CopyInv == \A x \in {cache, inst} : x.rv <= kv.rv /\ (x.rv = kv.rv => x = kv)

\* The edited size spreads from the object to the cache, to the worker and to
\* the StatefulSet.
EditInv ==
  /\ budget.edit <= 1
  /\ budget.edit = 1 => kv.replicas = InitialSize
  /\ cache.replicas # InitialSize => kv.replicas = cache.replicas
  /\ inst.replicas # InitialSize => cache.replicas = inst.replicas
  /\ sts.replicas # InitialSize => inst.replicas = sts.replicas

\* The pod m is the only master there may be, and sentinel watches no other.
MasterInv(m) ==
  /\ m \in Desired(sts) /\ m \in UpPods
  /\ \A o \in DOMAIN pods \ {m} : pods[o].role # "master"
  /\ watched # 0 => watched = pods[m].ip /\ pods[m].role = "master"

\* Before the instance runs this is the first pod.
StatusInv(m) ==
  /\ kv.status = "Running" => pods[m].role = "master"
  /\ cache.status = "Running" \/ inst.status = "Running" => kv.status = "Running"
  /\ "Creating" \in {kv.status, cache.status, inst.status} => m = 0

\* The StatefulSet has not been scaled down, and no pod goes, or it has been
\* scaled down, and no pod that it wants is missing.
Grown ==
  /\ sts.reserve = <<>> /\ sts.replicas >= InitialSize
  /\ UpPods = DOMAIN pods /\ UpPods \subseteq Desired(sts)
  /\ readyReplicas <= Cardinality(UpPods)

Shrunk ==
  /\ sts.replicas < InitialSize
  /\ Desired(sts) \subseteq UpPods
  /\ Cardinality(UpPods) <= readyReplicas

\* A reconcile gets past the size only when the pods are those it wants.
SizeInv ==
  /\ Grown \/ Shrunk
  /\ pc \notin {"idle", "scale"} => UpPods = Desired(sts) /\ readyReplicas = sts.replicas

\* What the worker has listed is what the StatefulSet wants, and it takes m for
\* the master.
Tells(m, j) == IsMaster(stsNodes[j]) <=> stsNodes[j].idx = m

ListInv(m) ==
  pc \in {"master", "roles", "resize", "pvc"} =>
    /\ IdxOf(stsNodes) = Desired(sts)
    /\ Len(stsNodes) = sts.replicas
    /\ \A j, k \in 1..Len(stsNodes) : j < k => stsNodes[j].idx < stsNodes[k].idx
    /\ \A j \in 1..Len(stsNodes) : stsNodes[j].ip = pods[stsNodes[j].idx].ip
    /\ pc = "roles" => masterIP = pods[m].ip
    /\ \A j \in 1..Len(stsNodes) :
         inst.status = "Running" \/ j < pos \/ pc \in {"resize", "pvc"} => Tells(m, j)
    /\ pos > 1 => pods[m].role = "master"

\* The master m is kept.
KeptInv(m) == MasterInv(m) /\ StatusInv(m) /\ SizeInv /\ ListInv(m)

\* The inductive invariant of one edit.
SingleEditInv ==
  CopyInv /\ EditInv /\ IPsInv /\ (evicted \/ \E m \in Ordinals : KeptInv(m))

\* Sizes are positive numbers.
LEMMA SizesFacts == InitialSize \in Sizes /\ \A n \in Sizes : n \in Nat /\ n >= 1
<1>1. InitialSize \in Sizes /\ \A n \in Sizes : n \in Nat /\ n # 0
  BY SizesAssumption, Zenon
<1>2. \A n \in Nat : n # 0 => n >= 1
  OBVIOUS
<1> QED
  BY <1>1, <1>2, Zenon

\* The pods a StatefulSet wants are finitely many, as many as it asks for.
LEMMA WantedCount ==
  ASSUME NEW s \in [replicas : Sizes, reserve : Seq(Ordinals)]
  PROVE  /\ s.replicas \in Nat /\ s.replicas >= 1 /\ s.reserve \in Seq(Nat)
         /\ IsFiniteSet(Desired(s)) /\ Desired(s) \subseteq Nat
         /\ Cardinality(Desired(s)) = s.replicas
<1>1. s.replicas \in Nat /\ s.replicas >= 1 /\ s.reserve \in Seq(Ordinals)
  BY SizesFacts, Zenon
<1>2. s.reserve \in Seq(Nat)
  <2>1. Ordinals \subseteq Nat
    BY OrdinalsFacts, Zenon
  <2>2. Seq(Ordinals) \subseteq Seq(Nat)
    BY <2>1, SeqOfMore, Zenon
  <2> QED
    BY <1>1, <2>2, Zenon
<1>3. /\ Desired(s) = {o \in Free(s) : Rank(Free(s), o) < s.replicas}
      /\ Free(s) \in SUBSET Nat
      /\ IsFiniteSet(Desired(s))
  BY <1>1, <1>2, DesiredFacts, Zenon
<1>4. Cardinality(Desired(s)) = s.replicas
  BY <1>1, <1>2, DesiredCount, Zenon
<1>5. Desired(s) \subseteq Nat
  BY <1>3, Zenon
<1> QED
  BY <1>1, <1>2, <1>3, <1>4, <1>5, Zenon

\* The numbers in the objects and the StatefulSet.
LEMMA Numbers ==
  ASSUME TypeInv
  PROVE  /\ kv.rv \in Nat /\ cache.rv \in Nat /\ inst.rv \in Nat
         /\ inst.replicas \in Sizes /\ inst.replicas \in Nat /\ inst.replicas >= 1
         /\ sts \in [replicas : Sizes, reserve : Seq(Ordinals)]
         /\ sts.replicas \in Nat /\ sts.replicas >= 1 /\ sts.reserve \in Seq(Nat)
         /\ Cardinality(Desired(sts)) = sts.replicas
         /\ InitialSize \in Nat /\ readyReplicas \in Nat
<1>1. /\ kv.rv \in Nat /\ cache.rv \in Nat /\ inst.rv \in Nat /\ inst.replicas \in Sizes
      /\ sts \in [replicas : Sizes, reserve : Seq(Ordinals)]
  BY TypeFacts, Zenon DEF KVs
<1>2. readyReplicas \in Nat
  BY TypeParts, Zenon DEF PodsOK
<1> QED
  BY <1>1, <1>2, SizesFacts, WantedCount, Zenon

\* What is stored of an object has its replicas and its status, and a newer
\* version if it differs.
LEMMA StoredFacts ==
  ASSUME kv \in KVs, NEW obj \in KVs
  PROVE  /\ Stored(obj).replicas = obj.replicas /\ Stored(obj).status = obj.status
         /\ Stored(obj) = kv \/ Stored(obj).rv = obj.rv + 1
<1>1. /\ [obj EXCEPT !.rv = @ + 1].replicas = obj.replicas
      /\ [obj EXCEPT !.rv = @ + 1].status = obj.status
      /\ [obj EXCEPT !.rv = @ + 1].rv = obj.rv + 1
  BY Zenon DEF KVs
<1> QED
  BY <1>1, Zenon DEF Stored

\* What UpdateInstance does, unless it fails.
LEMMA Updated ==
  ASSUME TypeInv, CopyInv, UpdateInstance
  PROVE  \/ Abort
         \/ /\ UNCHANGED <<cache, envVars, stsNodes, masterIP, pos, nextIP, budget, evicted>>
            /\ pc' = "resize"
            /\ \/ UNCHANGED <<kv, inst>> /\ inst.status = "Running"
               \/ /\ inst = kv /\ inst' = kv' /\ kv'.rv = kv.rv + 1
                  /\ kv'.replicas = kv.replicas /\ kv'.status = "Running"
<1>1. kv \in KVs /\ inst \in KVs
  BY TypeFacts
<1> DEFINE obj == IF inst.status = "Creating" THEN [inst EXCEPT !.status = "Running"]
                  ELSE [inst EXCEPT !.finalizer = TRUE]
<1>2. /\ [inst EXCEPT !.status = "Running"] \in KVs
      /\ [inst EXCEPT !.status = "Running"].rv = inst.rv
      /\ [inst EXCEPT !.status = "Running"].replicas = inst.replicas
      /\ [inst EXCEPT !.status = "Running"].status = "Running"
  BY <1>1, Zenon DEF KVs
<1>3. /\ [inst EXCEPT !.finalizer = TRUE] \in KVs
      /\ [inst EXCEPT !.finalizer = TRUE].rv = inst.rv
      /\ [inst EXCEPT !.finalizer = TRUE].replicas = inst.replicas
      /\ [inst EXCEPT !.finalizer = TRUE].status = inst.status
  BY <1>1, Zenon DEF KVs
<1>4. inst.status \in {"Creating", "Running"}
  BY <1>1, Zenon DEF KVs
<1>5. /\ obj \in KVs /\ obj.rv = inst.rv /\ obj.replicas = inst.replicas
      /\ obj.status = "Running"
  BY <1>2, <1>3, <1>4, Zenon
<1>6. \/ Abort
      \/ /\ obj = inst \/ Accepts(obj)
         /\ kv' = IF obj = inst THEN kv ELSE Stored(obj)
         /\ inst' = IF obj = inst THEN inst ELSE Stored(obj)
         /\ pc' = "resize"
         /\ UNCHANGED <<cache, envVars, stsNodes, masterIP, pos, nextIP, budget, evicted>>
  BY Zenon DEF UpdateInstance
<1> HIDE DEF obj
<1>7. CASE obj = inst
  BY <1>5, <1>6, <1>7, Zenon
<1>8. CASE obj # inst /\ Accepts(obj)
  <2>1. inst = kv
    BY <1>5, <1>8, ZenonT(60) DEF Accepts, CopyInv
  <2>2. /\ Stored(obj).replicas = obj.replicas /\ Stored(obj).status = obj.status
        /\ Stored(obj) = kv \/ Stored(obj).rv = obj.rv + 1
    BY <1>1, <1>5, StoredFacts, Zenon
  <2>3. Stored(obj) # kv
    <3>1. obj.rv + 1 # obj.rv
      BY <1>5, Numbers, SMTT(60)
    <3>2. [obj EXCEPT !.rv = @ + 1].rv = obj.rv + 1
      BY <1>5, Zenon DEF KVs
    <3> QED
      BY <1>5, <1>8, <2>1, <3>1, <3>2, Zenon DEF Stored
  <2> QED
    BY <1>5, <1>6, <1>8, <2>1, <2>2, <2>3, Zenon
<1> QED
  BY <1>6, <1>7, <1>8, Zenon

\* Every step keeps the order in which the objects are read and written.
LEMMA EditStep == TypeInv /\ CopyInv /\ EditInv /\ [Next]_vars => CopyInv' /\ EditInv'
<1> SUFFICES ASSUME TypeInv, CopyInv, EditInv, [Next]_vars PROVE CopyInv' /\ EditInv'
  OBVIOUS
<1>1. /\ kv.rv \in Nat /\ cache.rv \in Nat /\ inst.rv \in Nat /\ kv \in KVs
      /\ cache.rv <= kv.rv /\ (cache.rv = kv.rv => cache = kv)
      /\ inst.rv <= kv.rv /\ (inst.rv = kv.rv => inst = kv)
  BY TypeFacts, Numbers, Zenon DEF CopyInv
<1>2. kv.rv <= kv.rv
  BY <1>1
<1>3. CASE UNCHANGED <<kv, cache, inst, sts, budget>>
  BY <1>3, Zenon DEF CopyInv, EditInv
<1>4. CASE EndReconcile /\ UNCHANGED <<kv, cache, sts, budget>>
  BY <1>1, <1>4, Zenon DEF EndReconcile, CopyInv, EditInv
<1>5. CASE CacheSync
  BY <1>1, <1>2, <1>5, Zenon DEF CacheSync, CopyInv, EditInv, envVars, workerVars
<1>6. CASE Reconcile
  BY <1>1, <1>6, Zenon DEF Reconcile, CopyInv, EditInv, envVars
<1>7. ASSUME NEW event \in {"evict", "kill"}, Spend(event) PROVE budget'.edit = budget.edit
  <2>1. budget \in [edit : Nat, evict : Nat, kill : Nat]
    BY TypeParts DEF CountersOK
  <2> QED
    BY <1>7, <2>1 DEF Spend
<1>8. ASSUME NEW o \in Ordinals, PodEvict(o) PROVE CopyInv' /\ EditInv'
  BY <1>7, <1>8, Zenon DEF PodEvict, CopyInv, EditInv, workerVars
<1>9. CASE OperatorKilled
  BY <1>1, <1>7, <1>9, Zenon DEF OperatorKilled, EndReconcile, CopyInv, EditInv, envVars
<1>10. ASSUME NEW n \in Sizes, EditReplicas(n) PROVE CopyInv' /\ EditInv'
  <2>1. budget.edit \in Nat /\ budget.edit > 0 /\ budget'.edit = budget.edit - 1
    <3>1. budget \in [edit : Nat, evict : Nat, kill : Nat]
      BY TypeParts DEF CountersOK
    <3> QED
      BY <1>10, <3>1, Zenon DEF EditReplicas, Spend
  <2>2. budget.edit = 1 /\ budget'.edit = 0
    <3>1. budget.edit <= 1
      BY Zenon DEF EditInv
    <3> QED
      BY <2>1, <3>1
  <2>3. kv.replicas = InitialSize
    BY <2>2, Zenon DEF EditInv
  <2>4. cache.replicas = InitialSize /\ inst.replicas = InitialSize /\ sts.replicas = InitialSize
    BY <2>3, Zenon DEF EditInv
  <2>5. UNCHANGED <<cache, inst, sts>>
    BY <1>10, Zenon DEF EditReplicas, envVars, workerVars
  <2>6. kv'.rv = kv.rv + 1
    <3>1. /\ [kv EXCEPT !.replicas = n] \in KVs /\ [kv EXCEPT !.replicas = n].rv = kv.rv
          /\ [kv EXCEPT !.replicas = n].replicas = n
      BY <1>1, Zenon DEF KVs
    <3>2. kv'.replicas = n
      BY <1>1, <1>10, <3>1, StoredFacts, Zenon DEF EditReplicas
    <3>3. kv' # kv
      BY <1>10, <3>2, Zenon DEF EditReplicas
    <3> QED
      BY <1>1, <1>10, <3>1, <3>3, StoredFacts, Zenon DEF EditReplicas
  <2>7. cache.rv <= kv.rv + 1 /\ cache.rv # kv.rv + 1 /\ inst.rv <= kv.rv + 1 /\ inst.rv # kv.rv + 1
    BY <1>1
  <2>8. CopyInv'
    BY <2>5, <2>6, <2>7, Zenon DEF CopyInv
  <2>9. EditInv'
    <3>1. budget'.edit <= 1 /\ budget'.edit # 1
      BY <2>2
    <3> QED
      BY <2>4, <2>5, <3>1, Zenon DEF EditInv
  <2> QED
    BY <2>8, <2>9
<1>11. CASE UpdateInstance
  <2>1. CASE Abort
    BY <1>4, <2>1, Zenon DEF Abort, envVars
  <2>2. CASE /\ inst = kv /\ inst' = kv' /\ kv'.rv = kv.rv + 1 /\ kv'.replicas = kv.replicas
             /\ UNCHANGED <<cache, sts, budget>>
    <3>1. cache.rv <= kv.rv + 1 /\ cache.rv # kv.rv + 1 /\ kv.rv + 1 <= kv.rv + 1
      BY <1>1
    <3> QED
      BY <2>2, <3>1, Zenon DEF CopyInv, EditInv
  <2> QED
    BY <1>3, <1>11, <2>1, <2>2, Updated, Zenon DEF envVars
<1>12. CASE ScaleUp
  <2>1. CASE inst.replicas > sts.replicas
    <3>1. sts'.replicas = inst.replicas
      BY <1>12, <2>1 DEF ScaleUp
    <3>2. UNCHANGED <<kv, cache, budget>> /\ (EndReconcile \/ UNCHANGED inst)
      BY <1>12, Zenon DEF ScaleUp
    <3> QED
      BY <1>1, <3>1, <3>2, Zenon DEF EndReconcile, CopyInv, EditInv
  <2>2. CASE ~(inst.replicas > sts.replicas)
    BY <1>3, <1>4, <1>12, <2>2, Zenon DEF ScaleUp
  <2> QED
    BY <2>1, <2>2
<1>13. CASE resizeStatefulSet
  <2>1. CASE /\ sts' = [replicas |-> inst.replicas,
                        reserve |-> Reserve(stsNodes, Len(stsNodes) - inst.replicas)]
             /\ EndReconcile
             /\ UNCHANGED <<kv, cache, budget>>
    <3>1. sts'.replicas = inst.replicas
      BY <2>1, SMTT(60)
    <3> QED
      BY <1>1, <2>1, <3>1, Zenon DEF EndReconcile, CopyInv, EditInv
  <2> QED
    BY <1>3, <1>13, <2>1, Zenon DEF resizeStatefulSet, envVars
<1>14. CASE Environment
  BY <1>3, <1>5, <1>14, ZenonT(60)
     DEF Environment, StatusSync, PodCreate, PodScaleDown, PodGone, SentinelFailover, workerVars
<1>15. CASE WorkerStep
  BY <1>3, <1>4, <1>6, <1>11, <1>12, <1>13, <1>15, ZenonT(60)
     DEF WorkerStep, ListPods, FindMaster, EnsureRole, cleanPersistentVolumeClaim, Abort, envVars
<1>16. CASE EnsureMonitor \/ UNCHANGED vars
  BY <1>3, <1>16, Zenon DEF EnsureMonitor, vars, envVars, workerVars
<1> QED
  BY <1>8, <1>9, <1>10, <1>14, <1>15, <1>16, Zenon DEF Next

\* Pods that keep ip and role where it matters keep the master.
LEMMA MasterKeptBy ==
  ASSUME NEW m, MasterInv(m), watched' = watched, Desired(sts)' = Desired(sts),
         m \in DOMAIN pods' /\ pods'[m].up,
         pods'[m].ip = pods[m].ip /\ pods'[m].role = pods[m].role,
         \A o \in DOMAIN pods' \ {m} : pods'[o].role # "master"
  PROVE  MasterInv(m)'
BY Zenon DEF MasterInv, UpPods

\* The end of a reconcile that leaves the pods and the StatefulSet alone.
LEMMA KeptEnd ==
  ASSUME NEW m, KeptInv(m), EndReconcile,
         UNCHANGED <<kv, cache, sts, readyReplicas, pods, watched>>
  PROVE  KeptInv(m)'
<1>1. MasterInv(m)'
  BY Zenon DEF KeptInv, MasterInv, UpPods
<1>2. StatusInv(m)'
  BY Zenon DEF KeptInv, StatusInv, EndReconcile
<1>3. SizeInv'
  BY Zenon DEF KeptInv, SizeInv, Grown, Shrunk, UpPods, EndReconcile
<1>4. ListInv(m)'
  BY Zenon DEF ListInv, EndReconcile
<1> QED
  BY <1>1, <1>2, <1>3, <1>4, Zenon DEF KeptInv

\* A pod is created while the StatefulSet grows.
LEMMA KeptCreate ==
  ASSUME TypeInv, NEW m, KeptInv(m), NEW o \in Ordinals, PodCreate(o)
  PROVE  KeptInv(m)'
<1>1. /\ o \in Desired(sts) /\ o \notin DOMAIN pods /\ DOMAIN pods' = DOMAIN pods \cup {o}
      /\ pods'[o] = Pod(nextIP, "slave", 0, "none")
      /\ \A p \in DOMAIN pods : pods'[p] = pods[p]
      /\ UNCHANGED <<kv, cache, sts, readyReplicas, watched, pc, inst>>
  BY Zenon DEF PodCreate, workerVars
<1>2. pods'[o].role # "master" /\ pods'[o].up
  BY <1>1 DEF Pod
<1>3. m \in UpPods /\ m \in DOMAIN pods /\ UpPods \subseteq DOMAIN pods
  BY Zenon DEF KeptInv, MasterInv, UpPods
<1>4. MasterInv(m)'
  <2>1. \A p \in DOMAIN pods' \ {m} : pods'[p].role # "master"
    BY <1>1, <1>2, Zenon DEF KeptInv, MasterInv
  <2> QED
    BY <1>1, <1>3, <2>1, MasterKeptBy, Zenon DEF KeptInv, UpPods
<1>5. StatusInv(m)'
  BY <1>1, <1>3, Zenon DEF KeptInv, StatusInv
<1>6. Grown /\ pc \in {"idle", "scale"}
  BY <1>1, <1>3, Zenon DEF KeptInv, SizeInv, Shrunk
<1>7. UpPods' = UpPods \cup {o}
  BY <1>1, <1>2, Zenon DEF UpPods
<1>8. Cardinality(UpPods') \in Nat /\ Cardinality(UpPods) <= Cardinality(UpPods')
  <2>1. IsFiniteSet(UpPods \cup {o}) /\ Cardinality(UpPods) <= Cardinality(UpPods \cup {o})
    <3>1. IsFiniteSet(UpPods)
      BY PodsFinite
    <3>2. IsFiniteSet(UpPods \cup {o})
      BY <3>1, FS_AddElement
    <3> QED
      BY <3>2, FS_Subset
  <2> QED
    BY <1>7, <2>1, FS_CardinalityType, Zenon
<1>9. SizeInv'
  <2>1. readyReplicas <= Cardinality(UpPods')
    <3>1. readyReplicas <= Cardinality(UpPods) /\ readyReplicas \in Nat /\ Cardinality(UpPods) \in Nat
      BY <1>6, Numbers, PodsFinite, Zenon DEF Grown
    <3> QED
      BY <1>8, <3>1
  <2>2. UpPods' = DOMAIN pods' /\ UpPods' \subseteq Desired(sts)
    BY <1>1, <1>6, <1>7, Zenon DEF Grown
  <2>3. Grown'
    BY <1>1, <1>6, <2>1, <2>2, Zenon DEF Grown
  <2> QED
    BY <1>1, <1>6, <2>3, Zenon DEF SizeInv
<1>10. ListInv(m)'
  BY <1>1, <1>6, Zenon DEF ListInv
<1> QED
  BY <1>4, <1>5, <1>9, <1>10, SMTT(60) DEF KeptInv

\* A pod is stopped after the StatefulSet has been scaled down.
LEMMA KeptScaleDown ==
  ASSUME TypeInv, NEW m, KeptInv(m), NEW o \in Ordinals, PodScaleDown(o)
  PROVE  KeptInv(m)'
<1>1. \A p \in DOMAIN pods : pods[p] \in Pods
  BY TypeFacts
<1>2. /\ o \in UpPods /\ o \notin Desired(sts) /\ Stop(o)
      /\ UNCHANGED <<kv, cache, sts, readyReplicas, watched, pc, inst>>
  BY Zenon DEF PodScaleDown, workerVars
<1>3. m \in UpPods /\ m \in Desired(sts) /\ m # o /\ UpPods \subseteq DOMAIN pods
  BY <1>2, Zenon DEF KeptInv, MasterInv, UpPods
<1>4. /\ DOMAIN pods' = DOMAIN pods /\ \A p \in DOMAIN pods : p # o => pods'[p] = pods[p]
      /\ pods'[o].role = pods[o].role /\ ~pods'[o].up
  <2>1. \A pod \in Pods : /\ [pod EXCEPT !.up = FALSE].role = pod.role
                          /\ [pod EXCEPT !.up = FALSE].up = FALSE
    BY Zenon DEF Pods
  <2>2. pods'[o] = [pods[o] EXCEPT !.up = FALSE]
    BY <1>2, <1>3, Zenon DEF Stop
  <2> QED
    BY <1>1, <1>2, <1>3, <2>1, <2>2, Zenon DEF Stop
<1>5. MasterInv(m)'
  <2>1. \A p \in DOMAIN pods' \ {m} : pods'[p].role # "master"
    BY <1>3, <1>4, Zenon DEF KeptInv, MasterInv
  <2> QED
    BY <1>2, <1>3, <1>4, <2>1, MasterKeptBy, Zenon DEF KeptInv, UpPods
<1>6. StatusInv(m)'
  BY <1>2, <1>3, <1>4, Zenon DEF KeptInv, StatusInv
<1>7. Shrunk /\ pc \in {"idle", "scale"}
  BY <1>2, Zenon DEF KeptInv, SizeInv, Grown
<1>8. UpPods' = UpPods \ {o}
  BY <1>2, <1>3, <1>4, Zenon DEF UpPods
<1>9. Cardinality(UpPods') \in Nat /\ Cardinality(UpPods') <= Cardinality(UpPods)
  <2>1. IsFiniteSet(UpPods \ {o}) /\ Cardinality(UpPods \ {o}) <= Cardinality(UpPods)
    BY PodsFinite, FS_Subset
  <2> QED
    BY <1>8, <2>1, FS_CardinalityType, Zenon
<1>10. SizeInv'
  <2>1. Cardinality(UpPods') <= readyReplicas
    <3>1. Cardinality(UpPods) <= readyReplicas /\ readyReplicas \in Nat /\ Cardinality(UpPods) \in Nat
      BY <1>7, Numbers, PodsFinite, Zenon DEF Shrunk
    <3> QED
      BY <1>9, <3>1
  <2>2. Shrunk'
    BY <1>2, <1>7, <1>8, <2>1, Zenon DEF Shrunk
  <2> QED
    BY <1>2, <1>7, <2>2, Zenon DEF SizeInv
<1>11. ListInv(m)'
  BY <1>2, <1>7, Zenon DEF ListInv
<1> QED
  BY <1>5, <1>6, <1>10, <1>11 DEF KeptInv

\* The list is as good as before if the pods that are up keep their ips and m
\* keeps its role.
LEMMA ListKept ==
  ASSUME NEW m, KeptInv(m), UNCHANGED <<sts, pc, inst, stsNodes, masterIP, pos>>,
         \A p \in UpPods : pods'[p].ip = pods[p].ip,
         pods[m].role = "master" => pods'[m].role = "master"
  PROVE  ListInv(m)'
<1> SUFFICES ASSUME pc \in {"master", "roles", "resize", "pvc"} PROVE ListInv(m)'
  BY Zenon DEF ListInv
<1>1. UpPods = Desired(sts) /\ m \in UpPods
  BY Zenon DEF KeptInv, SizeInv, MasterInv
<1>2. \A j \in 1..Len(stsNodes) : stsNodes[j].idx \in UpPods
  BY <1>1, Zenon DEF KeptInv, ListInv, IdxOf
<1> QED
  BY <1>1, <1>2, Zenon DEF KeptInv, ListInv, Tells

\* A stopped pod goes.
LEMMA KeptGone ==
  ASSUME TypeInv, NEW m, KeptInv(m), NEW o \in Ordinals, PodGone(o)
  PROVE  KeptInv(m)'
<1>1. /\ o \in DOMAIN pods /\ o \notin UpPods
      /\ DOMAIN pods' = DOMAIN pods \ {o} /\ \A p \in DOMAIN pods' : pods'[p] = pods[p]
      /\ UNCHANGED <<kv, cache, sts, readyReplicas, watched, pc, inst, stsNodes, masterIP, pos>>
  BY Zenon DEF PodGone, workerVars
<1>2. UpPods' = UpPods /\ UpPods \subseteq DOMAIN pods' /\ m \in UpPods
  BY <1>1, Zenon DEF UpPods, KeptInv, MasterInv
<1>3. MasterInv(m)'
  <2>1. \A p \in DOMAIN pods' \ {m} : pods'[p].role # "master"
    BY <1>1, Zenon DEF KeptInv, MasterInv
  <2> QED
    BY <1>1, <1>2, <2>1, MasterKeptBy, Zenon DEF KeptInv, UpPods
<1>4. StatusInv(m)'
  BY <1>1, <1>2, Zenon DEF KeptInv, StatusInv
<1>5. SizeInv'
  <2>1. Shrunk
    BY <1>1, Zenon DEF KeptInv, SizeInv, Grown
  <2> QED
    BY <1>1, <1>2, <2>1, Zenon DEF KeptInv, SizeInv, Shrunk
<1>6. ListInv(m)'
  BY <1>1, <1>2, ListKept, Zenon
<1> QED
  BY <1>3, <1>4, <1>5, <1>6 DEF KeptInv

\* The status of the StatefulSet is brought up to date.
LEMMA KeptSync ==
  ASSUME TypeInv, NEW m, KeptInv(m), StatusSync
  PROVE  KeptInv(m)'
<1>1. /\ readyReplicas' = Cardinality(UpPods)
      /\ UNCHANGED <<kv, cache, sts, pods, watched, pc, inst, stsNodes, masterIP, pos>>
  BY Zenon DEF StatusSync, workerVars
<1>2. UpPods' = UpPods
  BY <1>1, Zenon DEF UpPods
<1>3. Cardinality(UpPods) <= Cardinality(UpPods)
  BY PodsFinite, SMTT(60)
<1>4. MasterInv(m)' /\ StatusInv(m)' /\ ListInv(m)'
  BY <1>1, <1>2, ListKept, Zenon DEF KeptInv, MasterInv, StatusInv
<1>5. SizeInv'
  BY <1>1, <1>2, <1>3, Numbers, Zenon DEF KeptInv, SizeInv, Grown, Shrunk
<1> QED
  BY <1>4, <1>5 DEF KeptInv

\* The first part of ensureKubernetes: with one edit it scales up a StatefulSet
\* that has never been resized, and it goes on only when every pod that the
\* StatefulSet wants, and no other, is up.
LEMMA KeptScaleUp ==
  ASSUME TypeInv, EditInv, NEW m, KeptInv(m), ScaleUp
  PROVE  KeptInv(m)'
<1>1. /\ pc = "scale"
      /\ UNCHANGED <<kv, cache, readyReplicas, pods, watched>>
      /\ \/ EndReconcile
         \/ pc' = "list" /\ readyReplicas = sts'.replicas /\ UNCHANGED inst
  BY Zenon DEF ScaleUp
<1>2. UpPods' = UpPods
  BY <1>1, Zenon DEF UpPods
<1>3. (Grown \/ Shrunk)' /\ Desired(sts) \subseteq Desired(sts)'
  <2>2. CASE inst.replicas > sts.replicas
    <3>1. inst.replicas \in Nat /\ sts.replicas \in Nat /\ InitialSize \in Nat
      BY Numbers
    <3>2. sts.replicas = InitialSize
      <4>1. inst.replicas # sts.replicas
        BY <2>2, <3>1
      <4> QED
        BY <4>1, Zenon DEF EditInv
    <3>3. Grown
      <4>1. ~(sts.replicas < InitialSize)
        BY <3>1, <3>2, SMTT(60)
      <4> QED
        BY <4>1, Zenon DEF KeptInv, SizeInv, Shrunk
    <3>4. sts' = [replicas |-> inst.replicas,
                  reserve |-> Unreserved(sts.reserve, inst.replicas - sts.replicas)]
      BY <2>2, Zenon DEF ScaleUp
    <3>5. Unreserved(sts.reserve, inst.replicas - sts.replicas) = <<>>
      <4>1. sts.reserve = <<>> /\ inst.replicas - sts.replicas >= 0
        BY <2>2, <3>1, <3>3, SMTT(60) DEF Grown
      <4> QED
        BY <4>1 DEF Unreserved
    <3>6. sts'.replicas = inst.replicas /\ sts'.reserve = <<>>
      BY <3>4, <3>5, Zenon
    <3>7. Desired(sts) = 0..(sts.replicas - 1)
      BY <3>1, <3>3, DesiredFirst DEF Grown
    <3>8. Desired(sts)' = 0..(sts'.replicas - 1)
      BY <3>1, <3>6, DesiredFirst, Zenon
    <3>9. Desired(sts) \subseteq Desired(sts)'
      BY <2>2, <3>1, <3>6, <3>7, <3>8, SMTT(60)
    <3>10. sts'.replicas >= InitialSize
      BY <2>2, <3>1, <3>2, <3>6, SMTT(60)
    <3>11. Grown'
      BY <1>1, <1>2, <3>3, <3>6, <3>9, <3>10, Zenon DEF Grown
    <3> QED
      BY <3>9, <3>11
  <2>3. CASE ~(inst.replicas > sts.replicas)
    <3>1. sts' = sts
      BY <2>3, Zenon DEF ScaleUp
    <3> QED
      BY <1>1, <1>2, <3>1, Zenon DEF KeptInv, SizeInv, Grown, Shrunk
  <2> QED
    BY <2>2, <2>3
<1>4. MasterInv(m)'
  BY <1>1, <1>2, <1>3, Zenon DEF KeptInv, MasterInv
<1>5. StatusInv(m)'
  BY <1>1, Zenon DEF KeptInv, StatusInv, EndReconcile
<1>6. SizeInv'
  <2>1. CASE EndReconcile
    BY <1>3, <2>1, Zenon DEF SizeInv, EndReconcile
  <2>2. CASE pc' = "list" /\ readyReplicas = sts'.replicas
    <3> DEFINE D == Desired(sts)'
               U == UpPods
    <3>1. sts'.replicas \in Nat /\ IsFiniteSet(D) /\ Cardinality(D) = sts'.replicas
      <4>1. PodsOK'
        BY PodsStep, Zenon DEF Next, WorkerStep
      <4> QED
        BY <4>1, WantedCount, Zenon DEF PodsOK
    <3>2. IsFiniteSet(U) /\ Cardinality(U) \in Nat
      BY PodsFinite, Zenon
    <3>3. \/ U \subseteq D /\ Cardinality(D) <= Cardinality(U)
          \/ D \subseteq U /\ Cardinality(U) <= Cardinality(D)
      BY <1>1, <1>2, <1>3, <2>2, <3>1, Zenon DEF Grown, Shrunk
    <3> HIDE DEF D, U
    <3>4. U = D
      BY <3>1, <3>2, <3>3, FS_Subset, SMTT(60)
    <3> QED
      BY <1>1, <1>2, <1>3, <2>2, <3>4, Zenon DEF SizeInv, D, U
  <2> QED
    BY <1>1, <2>1, <2>2, Zenon
<1>7. ListInv(m)'
  BY <1>1, Zenon DEF ListInv, EndReconcile
<1> QED
  BY <1>4, <1>5, <1>6, <1>7, Zenon DEF KeptInv

\* The ordinals of a list, position by position.
LEMMA IdxOfAll ==
  ASSUME NEW s, NEW n, Len(s) = n, NEW f, \A j \in 1..n : s[j].idx = f[j]
  PROVE  IdxOf(s) = {f[j] : j \in 1..n}
BY DEF IdxOf

\* Lists with the same ordinals in the same places have the same order.
LEMMA IdxOfSame ==
  ASSUME NEW s, NEW t, Len(s) = Len(t), \A j \in 1..Len(t) : s[j].idx = t[j].idx
  PROVE  /\ IdxOf(s) = IdxOf(t)
         /\ (\A j, k \in 1..Len(t) : j < k => t[j].idx < t[k].idx)
              => \A j, k \in 1..Len(s) : j < k => s[j].idx < s[k].idx
<1>1. IdxOf(s) = {s[j].idx : j \in 1..Len(t)}
  BY Zenon DEF IdxOf
<1>2. IdxOf(s) = IdxOf(t)
  BY <1>1, Zenon DEF IdxOf
<1>3. ASSUME \A j, k \in 1..Len(t) : j < k => t[j].idx < t[k].idx,
             NEW j \in 1..Len(s), NEW k \in 1..Len(s), j < k
      PROVE  s[j].idx < s[k].idx
  <2>1. t[j].idx < t[k].idx /\ s[j].idx = t[j].idx /\ s[k].idx = t[k].idx
    BY <1>3, Zenon
  <2> QED
    BY <2>1, Zenon
<1> QED
  BY <1>2, <1>3, Zenon

\* The rest of ensureKubernetes lists what the StatefulSet wants.
LEMMA KeptListPods ==
  ASSUME TypeInv, NEW m, KeptInv(m), ListPods
  PROVE  KeptInv(m)'
<1>1. CASE Abort
  BY <1>1, KeptEnd, Zenon DEF Abort, envVars
<1> DEFINE order == Ascending(DOMAIN pods)
           Listed(j) == [ip |-> pods[order[j]].ip, idx |-> order[j], role |-> pods[order[j]].role]
<1>2. CASE /\ UpPods = DOMAIN pods
           /\ stsNodes' = [j \in 1..Len(order) |-> Listed(j)]
           /\ pc' = "master"
           /\ UNCHANGED <<kv, cache, sts, readyReplicas, pods, watched, inst, pos>>
  <2>1. pc = "list" /\ pos = 1 /\ DOMAIN pods = Desired(sts) /\ readyReplicas = sts.replicas
    <3>1. pc = "list"
      BY Zenon DEF ListPods
    <3> QED
      BY <1>2, <3>1, Zenon DEF KeptInv, SizeInv, TypeInv
  <2>2. /\ order \in Seq(DOMAIN pods) /\ Len(order) = Cardinality(DOMAIN pods)
        /\ Range(order) = DOMAIN pods
        /\ \A j, k \in 1..Cardinality(DOMAIN pods) : j < k => order[j] < order[k]
    BY PodsFinite, AscendingFacts, Zenon
  <2>3. UpPods' = UpPods
    BY <1>2, Zenon DEF UpPods
  <2>4. MasterInv(m)' /\ StatusInv(m)' /\ SizeInv'
    BY <1>2, <2>1, <2>3, Zenon DEF KeptInv, MasterInv, StatusInv, SizeInv, Grown, Shrunk
  <2> HIDE DEF order
  <2>5. Len(order) = sts.replicas /\ Len(order) \in Nat
    BY <2>1, <2>2, Numbers, Zenon
  <2>6. /\ Len(stsNodes') = Len(order)
        /\ \A j \in 1..Len(order) : /\ stsNodes'[j].idx = order[j]
                                    /\ stsNodes'[j].ip = pods[order[j]].ip
                                    /\ stsNodes'[j].role = pods[order[j]].role
    BY <1>2, <2>5
  <2>7. IdxOf(stsNodes') = Desired(sts)
    <3>1. Range(order) = {order[j] : j \in 1..Len(order)}
      <4>1. DOMAIN order = 1..Len(order)
        BY <2>2
      <4> QED
        BY <4>1, Zenon DEF Range
    <3>2. IdxOf(stsNodes') = {order[j] : j \in 1..Len(order)}
      <4> DEFINE n == Len(order)
      <4>1. Len(stsNodes') = n /\ \A j \in 1..n : stsNodes'[j].idx = order[j]
        BY <2>6, Zenon
      <4> HIDE DEF n
      <4>2. IdxOf(stsNodes') = {order[j] : j \in 1..n}
        BY <4>1, IdxOfAll, SMTT(60)
      <4> QED
        BY <4>2, Zenon DEF n
    <3> QED
      BY <2>1, <2>2, <3>1, <3>2, Zenon
  <2>8. \A j \in 1..Len(order) : order[j] \in DOMAIN pods
    BY <2>2
  <2>9. ASSUME NEW j \in 1..Len(order), inst.status = "Running"
        PROVE  IsMaster(stsNodes'[j]) <=> stsNodes'[j].idx = m
    <3>1. pods[m].role = "master"
      BY <2>9, Zenon DEF KeptInv, StatusInv
    <3>2. stsNodes'[j].role = "master" <=> order[j] = m
      <4>1. order[j] # m => pods[order[j]].role # "master"
        BY <2>8, Zenon DEF KeptInv, MasterInv
      <4>2. stsNodes'[j].role = pods[order[j]].role
        BY <2>6
      <4> QED
        BY <3>1, <4>1, <4>2, Zenon
    <3>3. stsNodes'[j].idx = order[j]
      BY <2>6
    <3> QED
      BY <3>2, <3>3, Zenon DEF IsMaster
  <2>10. ~(pos > 1) /\ \A j \in 1..Len(order) : ~(j < pos)
    BY <2>1, <2>5
  <2>11. ListInv(m)'
    <3>1. /\ IdxOf(stsNodes)' = Desired(sts)' /\ Len(stsNodes') = sts'.replicas
          /\ pc' = "master" /\ ~(pos' > 1)
      BY <1>2, <2>5, <2>6, <2>7, <2>10, Zenon
    <3>2. \A j, k \in 1..Len(stsNodes') : j < k => stsNodes'[j].idx < stsNodes'[k].idx
      <4> SUFFICES ASSUME NEW j \in 1..Len(order), NEW k \in 1..Len(order), j < k
                   PROVE  stsNodes'[j].idx < stsNodes'[k].idx
        BY <2>6, Zenon
      <4>1. order[j] < order[k]
        BY <2>2, Zenon
      <4>2. stsNodes'[j].idx = order[j] /\ stsNodes'[k].idx = order[k]
        BY <2>6, Zenon
      <4> QED
        BY <4>1, <4>2, Zenon
    <3>3. \A j \in 1..Len(stsNodes') : stsNodes'[j].ip = pods'[stsNodes'[j].idx].ip
      BY <1>2, <2>6, Zenon
    <3>4. \A j \in 1..Len(stsNodes') : /\ inst'.status = "Running" => Tells(m, j)'
                                       /\ ~(j < pos')
      BY <1>2, <2>6, <2>9, <2>10, Zenon DEF Tells
    <3> QED
      BY <3>1, <3>2, <3>3, <3>4, Zenon DEF ListInv
  <2> QED
    BY <2>4, <2>11 DEF KeptInv
<1> QED
  BY <1>1, <1>2, Zenon DEF ListPods, envVars

\* What the worker knows of m when it has listed the pods.
LEMMA ListedFacts ==
  ASSUME TypeInv, NEW m, KeptInv(m), pc \in {"master", "roles", "resize", "pvc"}
  PROVE  /\ Len(stsNodes) \in Nat /\ Len(stsNodes) >= 1 /\ m \in Nat
         /\ \A j \in 1..Len(stsNodes) :
              stsNodes[j].idx \in UpPods /\ stsNodes[j].idx \in Nat
         /\ \E j \in 1..Len(stsNodes) : stsNodes[j].idx = m
         /\ m = 0 => stsNodes[1].idx = m
<1>1. /\ Len(stsNodes) = sts.replicas /\ IdxOf(stsNodes) = Desired(sts) /\ UpPods = Desired(sts)
      /\ m \in Desired(sts)
      /\ \A j, k \in 1..Len(stsNodes) : j < k => stsNodes[j].idx < stsNodes[k].idx
  BY Zenon DEF KeptInv, ListInv, SizeInv, MasterInv
<1>2. Len(stsNodes) \in Nat /\ Len(stsNodes) >= 1 /\ Desired(sts) \subseteq Nat
  BY <1>1, Numbers, WantedCount, Zenon
<1>3. \A j \in 1..Len(stsNodes) : stsNodes[j].idx \in UpPods /\ stsNodes[j].idx \in Nat
  BY <1>1, <1>2, Zenon DEF IdxOf
<1>4. PICK j \in 1..Len(stsNodes) : stsNodes[j].idx = m
  BY <1>1, Zenon DEF IdxOf
<1>5. m = 0 => stsNodes[1].idx = m
  <2> SUFFICES ASSUME m = 0, j # 1 PROVE FALSE
    BY <1>4
  <2>1. 1 \in 1..Len(stsNodes) /\ 1 < j
    BY <1>2
  <2>2. stsNodes[1].idx < stsNodes[j].idx /\ stsNodes[1].idx \in Nat
    BY <1>1, <1>3, <2>1, Zenon
  <2> QED
    BY <1>4, <2>2
<1> QED
  BY <1>1, <1>2, <1>3, <1>4, <1>5, Zenon

\* ensureKVRocksReplication decides on m.
LEMMA KeptFindMaster ==
  ASSUME TypeInv, NEW m, KeptInv(m), FindMaster
  PROVE  KeptInv(m)'
<1>1. CASE Abort
  BY <1>1, KeptEnd, Zenon DEF Abort, envVars
<1> DEFINE masters == IF inst.status # "Creating" THEN MastersOf(stsNodes)
                      ELSE {stsNodes[j].ip : j \in {1} \cap 1..Len(stsNodes)}
<1>2. CASE /\ \E ip \in masters : masterIP' = ip
           /\ pc' = "roles"
           /\ UNCHANGED <<kv, cache, sts, readyReplicas, pods, watched, inst, stsNodes, pos>>
  <2>1. pc = "master"
    BY Zenon DEF FindMaster
  <2>2. UpPods' = UpPods
    BY <1>2, Zenon DEF UpPods
  <2>3. MasterInv(m)' /\ StatusInv(m)' /\ SizeInv'
    BY <1>2, <2>1, <2>2, Zenon DEF KeptInv, MasterInv, StatusInv, SizeInv, Grown, Shrunk
  <2>4. \A j \in 1..Len(stsNodes) : stsNodes[j].ip = pods[stsNodes[j].idx].ip
    BY <2>1, Zenon DEF KeptInv, ListInv
  <2>5. ASSUME NEW ip \in masters PROVE ip = pods[m].ip
    <3>1. CASE inst.status # "Creating"
      <4>1. inst.status = "Running"
        BY <3>1, TypeFacts, Zenon DEF KVs
      <4>2. \A j \in 1..Len(stsNodes) : IsMaster(stsNodes[j]) => stsNodes[j].idx = m
        BY <2>1, <4>1, Zenon DEF KeptInv, ListInv, Tells
      <4> QED
        BY <2>4, <3>1, <4>2, Zenon DEF MastersOf
    <3>2. CASE inst.status = "Creating"
      <4>1. m = 0
        BY <3>2, Zenon DEF KeptInv, StatusInv
      <4>2. stsNodes[1].idx = m
        BY <2>1, <4>1, ListedFacts, Zenon
      <4> QED
        BY <2>4, <3>2, <4>2, Zenon
    <3> QED
      BY <3>1, <3>2
  <2>6. masterIP' = pods[m].ip
    BY <1>2, <2>5, Zenon
  <2>7. ListInv(m)'
    BY <1>2, <2>1, <2>6, Zenon DEF KeptInv, ListInv, Tells
  <2> QED
    BY <2>3, <2>7 DEF KeptInv
<1> QED
  BY <1>1, <1>2, Zenon DEF FindMaster, envVars

\* One iteration of the loop: it makes m the master, and no other pod.
LEMMA KeptRole ==
  ASSUME TypeInv, IPsInv, NEW m, KeptInv(m), EnsureRole
  PROVE  KeptInv(m)'
<1>1. CASE Abort
  BY <1>1, KeptEnd, Zenon DEF Abort, envVars
<1> DEFINE node == stsNodes[pos]
           isMaster == node.ip = masterIP
<1>2. CASE RoleGivenTo(node, isMaster)
  <2>1. /\ pc = "roles" /\ pos \in Nat /\ pos >= 1 /\ pos <= Len(stsNodes)
        /\ pos \in 1..Len(stsNodes) /\ Len(stsNodes) \in Nat
    <3>1. pc = "roles" /\ pos <= Len(stsNodes) /\ pos \in 1..(Len(stsNodes) + 1)
      BY Zenon DEF EnsureRole, TypeInv, TypeOK
    <3>2. Len(stsNodes) \in Nat
      BY TypeFacts
    <3> QED
      BY <3>1, <3>2, SMTT(60)
  <2>2. /\ m \in UpPods /\ m \in DOMAIN pods /\ node.idx \in DOMAIN pods
        /\ masterIP = pods[m].ip /\ node.ip = pods[node.idx].ip
    BY <1>2, <2>1, Zenon DEF KeptInv, MasterInv, UpPods, ListInv, RoleGivenTo
  <2>3. isMaster <=> node.idx = m
    BY <2>2, Zenon DEF IPsInv
  <2>4. "slave" # "master"
    OBVIOUS
  <2>5. inst.status \in {"Creating", "Running"}
    BY TypeFacts, Zenon DEF KVs
  <2>6. pods[m].role = "master" => pods'[m].role = "master"
    BY <1>2, <2>2, <2>3, Zenon DEF RoleGivenTo
  <2>7. pods'[m].role = "master"
    <3>1. CASE inst.status = "Running"
      BY <2>6, <3>1, Zenon DEF KeptInv, StatusInv
    <3>2. CASE inst.status = "Creating" /\ isMaster
      BY <1>2, <2>3, <3>2, Zenon DEF RoleGivenTo
    <3>3. CASE inst.status = "Creating" /\ ~isMaster
      <4>1. m = 0
        BY <3>3, Zenon DEF KeptInv, StatusInv
      <4>2. stsNodes[1].idx = m
        BY <2>1, <4>1, ListedFacts, Zenon
      <4>3. pos # 1
        BY <2>3, <3>3, <4>2, Zenon
      <4>4. pos > 1
        BY <2>1, <4>3
      <4> QED
        BY <2>1, <2>6, <4>4, Zenon DEF KeptInv, ListInv
    <3> QED
      BY <2>5, <3>1, <3>2, <3>3, Zenon
  <2>8. \A o \in DOMAIN pods \ {m} : pods'[o].role # "master"
    <3> SUFFICES ASSUME NEW o \in DOMAIN pods \ {m} PROVE pods'[o].role # "master"
      BY Zenon
    <3>1. pods[o].role # "master"
      BY Zenon DEF KeptInv, MasterInv
    <3>2. CASE o # node.idx
      BY <1>2, <3>1, <3>2, Zenon DEF RoleGivenTo
    <3>3. CASE o = node.idx
      BY <1>2, <2>3, <2>4, <3>1, <3>3, Zenon DEF RoleGivenTo
    <3> QED
      BY <3>2, <3>3, Zenon
  <2>9. UpPods' = UpPods /\ DOMAIN pods' = DOMAIN pods /\ pods'[m].ip = pods[m].ip
    BY <1>2, <2>2, Zenon DEF RoleGivenTo, UpPods
  <2>10. UNCHANGED <<kv, cache, sts, readyReplicas, watched, pc, inst, masterIP>> /\ pos' = pos + 1
    BY <1>2, Zenon DEF RoleGivenTo
  <2>11. MasterInv(m)'
    BY <2>7, <2>8, <2>9, <2>10, Zenon DEF KeptInv, MasterInv
  <2>12. StatusInv(m)'
    BY <2>7, <2>10, Zenon DEF KeptInv, StatusInv
  <2>13. SizeInv'
    BY <2>9, <2>10, Zenon DEF KeptInv, SizeInv, Grown, Shrunk
  <2>14. stsNodes' = [stsNodes EXCEPT ![pos].role = IF isMaster THEN "master" ELSE "slave"]
    BY <1>2, Zenon DEF RoleGivenTo
  <2>15. /\ Len(stsNodes') = Len(stsNodes)
         /\ \A j \in 1..Len(stsNodes) : j # pos => stsNodes'[j] = stsNodes[j]
         /\ stsNodes'[pos] = [stsNodes[pos] EXCEPT !.role = IF isMaster THEN "master" ELSE "slave"]
    <3>1. stsNodes \in Seq(Nodes)
      BY TypeFacts, Zenon
    <3> HIDE DEF isMaster
    <3> QED
      BY <2>1, <2>14, <3>1, SMTT(60)
  <2>16. /\ stsNodes'[pos].idx = node.idx /\ stsNodes'[pos].ip = node.ip
         /\ IsMaster(stsNodes'[pos]) <=> isMaster
    <3>1. stsNodes[pos] \in Nodes
      <4>1. stsNodes \in Seq(Nodes)
        BY TypeFacts
      <4> QED
        BY <2>1, <4>1, SMTT(60)
    <3> HIDE DEF isMaster
    <3>2. CASE isMaster
      <4>1. stsNodes'[pos] = [stsNodes[pos] EXCEPT !.role = "master"]
        BY <2>15, <3>2, Zenon
      <4> QED
        BY <3>1, <3>2, <4>1, Zenon DEF IsMaster, Nodes
    <3>3. CASE ~isMaster
      <4>1. stsNodes'[pos] = [stsNodes[pos] EXCEPT !.role = "slave"]
        BY <2>15, <3>3, Zenon
      <4>2. stsNodes'[pos].role = "slave"
        BY <3>1, <4>1, Zenon DEF Nodes
      <4> QED
        BY <2>4, <3>1, <3>3, <4>1, <4>2, Zenon DEF IsMaster, Nodes
    <3> QED
      BY <3>2, <3>3, Zenon
  <2>17. ListInv(m)'
    <3>1. \A j \in 1..Len(stsNodes) :
            /\ stsNodes'[j].idx = stsNodes[j].idx /\ stsNodes'[j].ip = stsNodes[j].ip
      BY <2>15, <2>16, Zenon
    <3>2. \A j \in 1..Len(stsNodes) : stsNodes[j].idx \in DOMAIN pods
      BY <2>1, ListedFacts, Zenon DEF UpPods
    <3>3. IdxOf(stsNodes)' = Desired(sts)'
      <4>1. IdxOf(stsNodes') = IdxOf(stsNodes)
        BY <2>15, <3>1, IdxOfSame, Zenon
      <4> QED
        BY <2>1, <2>10, <4>1, Zenon DEF KeptInv, ListInv
    <3>4. \A j, k \in 1..Len(stsNodes') : j < k => stsNodes'[j].idx < stsNodes'[k].idx
      <4>1. \A j, k \in 1..Len(stsNodes) : j < k => stsNodes[j].idx < stsNodes[k].idx
        BY <2>1, Zenon DEF KeptInv, ListInv
      <4> QED
        BY <2>15, <3>1, <4>1, IdxOfSame, Zenon
    <3>5. \A j \in 1..Len(stsNodes') : stsNodes'[j].ip = pods'[stsNodes'[j].idx].ip
      <4> SUFFICES ASSUME NEW j \in 1..Len(stsNodes)
                   PROVE  stsNodes'[j].ip = pods'[stsNodes'[j].idx].ip
        BY <2>15, Zenon
      <4>1. stsNodes[j].ip = pods[stsNodes[j].idx].ip
        BY <2>1, Zenon DEF KeptInv, ListInv
      <4>2. pods'[stsNodes[j].idx].ip = pods[stsNodes[j].idx].ip
        BY <1>2, <3>2, Zenon DEF RoleGivenTo
      <4> QED
        BY <3>1, <4>1, <4>2, Zenon
    <3>6. masterIP' = pods'[m].ip /\ Len(stsNodes') = sts'.replicas
      BY <2>1, <2>2, <2>9, <2>10, <2>15, Zenon DEF KeptInv, ListInv
    <3>7. ASSUME NEW j \in 1..Len(stsNodes'), inst'.status = "Running" \/ j < pos'
          PROVE  Tells(m, j)'
      <4>1. CASE j = pos
        BY <2>3, <2>16, <4>1, Zenon DEF Tells
      <4>2. CASE j # pos
        <5>1. j \in 1..Len(stsNodes) /\ stsNodes'[j] = stsNodes[j]
          BY <2>15, <4>2, Zenon
        <5>2. j < pos' => j < pos
          BY <2>1, <2>10, <4>2, <5>1, SMTT(60)
        <5>3. Tells(m, j)
          BY <2>1, <2>10, <3>7, <5>1, <5>2, Zenon DEF KeptInv, ListInv
        <5> QED
          BY <5>1, <5>3, Zenon DEF Tells
      <4> QED
        BY <4>1, <4>2
    <3> QED
      BY <2>1, <2>7, <2>10, <3>3, <3>4, <3>5, <3>6, <3>7, Zenon DEF ListInv
  <2> QED
    BY <2>11, <2>12, <2>13, <2>17, SMTT(60) DEF KeptInv
<1> QED
  BY <1>1, <1>2, RoleGiven, Zenon

\* The end of ensureKVRocksReplication: m is the master by now.
LEMMA KeptUpdate ==
  ASSUME TypeInv, CopyInv, NEW m, KeptInv(m), UpdateInstance
  PROVE  KeptInv(m)'
<1>1. CASE Abort
  BY <1>1, KeptEnd, Zenon DEF Abort, envVars
<1>2. CASE /\ UNCHANGED <<cache, sts, readyReplicas, pods, watched, stsNodes, masterIP, pos>>
           /\ pc' = "resize"
           /\ \/ UNCHANGED <<kv, inst>> /\ inst.status = "Running"
              \/ inst = kv /\ inst' = kv' /\ kv'.status = "Running"
  <2>1. pc = "roles" /\ pos > Len(stsNodes)
    BY Zenon DEF UpdateInstance
  <2>2. pos > 1 /\ \A j \in 1..Len(stsNodes) : j < pos
    <3>1. Len(stsNodes) \in Nat /\ Len(stsNodes) >= 1
      BY <2>1, ListedFacts, Zenon
    <3>2. pos \in 1..(Len(stsNodes) + 1)
      BY Zenon DEF TypeInv, TypeOK
    <3> QED
      BY <2>1, <3>1, <3>2, SMTT(60)
  <2>3. pods[m].role = "master" /\ \A j \in 1..Len(stsNodes) : Tells(m, j)
    BY <2>1, <2>2, Zenon DEF KeptInv, ListInv
  <2>4. UpPods' = UpPods
    BY <1>2, Zenon DEF UpPods
  <2>5. MasterInv(m)' /\ SizeInv'
    BY <1>2, <2>1, <2>4, Zenon DEF KeptInv, MasterInv, SizeInv, Grown, Shrunk
  <2>6. StatusInv(m)'
    BY <1>2, <2>3, Zenon DEF KeptInv, StatusInv
  <2>7. ListInv(m)'
    BY <1>2, <2>1, <2>3, Zenon DEF KeptInv, ListInv, Tells
  <2> QED
    BY <2>5, <2>6, <2>7, Zenon DEF KeptInv
<1> QED
  BY <1>1, <1>2, Updated, Zenon DEF envVars

\* Scaling down: with one edit the StatefulSet has no reserved ordinals before,
\* so those it is given are enough to keep the master.
LEMMA KeptResize ==
  ASSUME TypeInv, EditInv, NEW m, KeptInv(m), resizeStatefulSet
  PROVE  KeptInv(m)'
<1> DEFINE n == Len(stsNodes)
           r == inst.replicas
           reserve == Reserve(stsNodes, n - r)
<1>1. pc = "resize"
  BY Zenon DEF resizeStatefulSet
<1>2. CASE /\ pc' = "pvc"
           /\ UNCHANGED <<kv, cache, sts, readyReplicas, pods, watched, inst, stsNodes, masterIP, pos>>
  <2>1. UpPods' = UpPods
    BY <1>2, Zenon DEF UpPods
  <2> QED
    BY <1>1, <1>2, <2>1, Zenon
       DEF KeptInv, MasterInv, StatusInv, SizeInv, Grown, Shrunk, ListInv, Tells
<1>3. CASE /\ n > r
           /\ sts' = [replicas |-> r, reserve |-> reserve]
           /\ EndReconcile
           /\ UNCHANGED <<kv, cache, readyReplicas, pods, watched>>
  <2>1. /\ n \in Nat /\ r \in Nat /\ r >= 1 /\ sts.replicas = n /\ InitialSize \in Nat
        /\ sts.replicas \in Nat /\ sts.reserve \in Seq(Nat)
        /\ Cardinality(Desired(sts)) = n
    BY <1>1, Numbers, Zenon DEF KeptInv, ListInv
  <2>2. sts.replicas = InitialSize
    <3>1. inst.replicas # sts.replicas
      BY <1>3, <2>1
    <3> QED
      BY <3>1, Zenon DEF EditInv
  <2>3. sts.reserve = <<>>
    <3>1. ~(sts.replicas < InitialSize)
      BY <2>1, <2>2, SMTT(60)
    <3> QED
      BY <3>1, Zenon DEF KeptInv, SizeInv, Shrunk, Grown
  <2>4. r \in 1..n
    BY <1>3, <2>1
  <2>5. PICK j \in 1..n : stsNodes[j].idx = m
    BY <1>1, ListedFacts, Zenon
  <2>6. IsListing(stsNodes, j) /\ IdxOf(stsNodes) = Desired(sts)
    <3>1. \A i, k \in 1..n : i < k => stsNodes[i].idx < stsNodes[k].idx
      BY <1>1, Zenon DEF KeptInv, ListInv
    <3>2. \A k \in 1..n : IsMaster(stsNodes[k]) <=> stsNodes[k].idx = m
      BY <1>1, Zenon DEF KeptInv, ListInv, Tells
    <3>3. IdxOf(stsNodes) = Desired(sts)
      BY <1>1, Zenon DEF KeptInv, ListInv
    <3>4. \A k \in 1..n : stsNodes[k].idx \in Nat
      BY <1>1, ListedFacts, Zenon
    <3>5. \A k \in 1..n : stsNodes[k].idx = m => k = j
      <4> SUFFICES ASSUME NEW k \in 1..n, stsNodes[k].idx = m, k # j PROVE FALSE
        OBVIOUS
      <4>1. k < j \/ j < k
        BY <2>1
      <4>2. m < m /\ m \in Nat
        BY <2>5, <3>1, <3>4, <4>1, Zenon
      <4> QED
        BY <4>2
    <3> HIDE DEF n
    <3>6. IsListing(stsNodes, j)
      BY <2>1, <2>5, <3>1, <3>2, <3>4, <3>5, Zenon DEF IsListing, IdxOf, n
    <3> QED
      BY <3>3, <3>6
  <2> DEFINE new == [replicas |-> r, reserve |-> sts.reserve \o reserve]
  <2>7. Desired(new) = Desired(sts) \ Victims(stsNodes, n - r) /\ stsNodes[j].idx \in Desired(new)
    <3> HIDE DEF r
    <3> QED
      BY <2>1, <2>4, <2>6, ShrinkExact, MasterKept, Zenon
  <2>8. sts' = new
    <3>1. reserve \in Seq(Ordinals)
      BY ReserveOrdinalsOK, Zenon
    <3>2. <<>> \o reserve = reserve
      <4> HIDE DEF reserve
      <4> QED
        BY <3>1
    <3> QED
      BY <1>3, <2>3, <3>2, Zenon
  <2>9. Desired(sts)' = Desired(sts) \ Victims(stsNodes, n - r) /\ m \in Desired(sts)'
    <3> HIDE DEF new
    <3> QED
      BY <2>5, <2>7, <2>8, Zenon
  <2>10. UpPods' = UpPods /\ UpPods = Desired(sts) /\ readyReplicas = sts.replicas
    BY <1>1, <1>3, Zenon DEF UpPods, KeptInv, SizeInv
  <2>11. MasterInv(m)'
    BY <1>3, <2>9, <2>10, Zenon DEF KeptInv, MasterInv
  <2>12. StatusInv(m)'
    BY <1>3, Zenon DEF KeptInv, StatusInv, EndReconcile
  <2>13. Shrunk'
    <3>1. sts'.replicas < InitialSize
      BY <1>3, <2>1, <2>2, Zenon
    <3>2. Cardinality(UpPods) <= readyReplicas
      BY <2>1, <2>10, SMTT(60)
    <3> QED
      BY <1>3, <2>9, <2>10, <3>1, <3>2, Zenon DEF Shrunk
  <2>14. SizeInv' /\ ListInv(m)'
    BY <1>3, <2>13, Zenon DEF SizeInv, ListInv, EndReconcile
  <2> QED
    BY <2>11, <2>12, <2>14, Zenon DEF KeptInv
<1> QED
  BY <1>2, <1>3, Zenon DEF resizeStatefulSet, envVars

\* While no pod is evicted, every step keeps the master where it is.
LEMMA KeptStep ==
  ASSUME TypeInv, CopyInv, EditInv, IPsInv, NEW m, KeptInv(m), [Next]_vars, ~evicted'
  PROVE  KeptInv(m)'
<1>1. CASE UNCHANGED <<kv, cache, sts, readyReplicas, pods, watched, workerVars>>
  <2>1. UpPods' = UpPods
    BY <1>1, Zenon DEF UpPods
  <2> QED
    BY <1>1, <2>1, Zenon
       DEF KeptInv, MasterInv, StatusInv, SizeInv, Grown, Shrunk, ListInv, Tells, workerVars
<1>2. CASE \/ CacheSync \/ Reconcile \/ \E n \in Sizes : EditReplicas(n)
  <2>1. /\ UNCHANGED <<sts, readyReplicas, pods, watched, stsNodes, masterIP, pos>>
        /\ \/ UNCHANGED <<pc, inst>>
           \/ pc' = "scale" /\ pc = "idle" /\ inst' = cache
        /\ \/ UNCHANGED <<kv, cache>>
           \/ UNCHANGED kv /\ cache' = kv
           \/ UNCHANGED cache /\ kv'.status = kv.status
    <3>1. ASSUME NEW n \in Sizes, EditReplicas(n) PROVE kv'.status = kv.status
      <4>1. kv \in KVs
        BY TypeFacts
      <4>2. [kv EXCEPT !.replicas = n] \in KVs /\ [kv EXCEPT !.replicas = n].status = kv.status
        BY <4>1, Zenon DEF KVs
      <4> QED
        BY <3>1, <4>1, <4>2, StoredFacts, Zenon DEF EditReplicas
    <3> QED
      BY <1>2, <3>1, Zenon DEF CacheSync, Reconcile, EditReplicas, envVars, workerVars
  <2>2. UpPods' = UpPods
    BY <2>1, Zenon DEF UpPods
  <2>3. MasterInv(m)' /\ SizeInv'
    BY <2>1, <2>2, Zenon DEF KeptInv, MasterInv, SizeInv, Grown, Shrunk
  <2>4. StatusInv(m)'
    BY <2>1, Zenon DEF KeptInv, StatusInv
  <2>5. ListInv(m)'
    BY <2>1, Zenon DEF KeptInv, ListInv, Tells
  <2> QED
    BY <2>3, <2>4, <2>5, Zenon DEF KeptInv
<1>3. ASSUME NEW o \in Ordinals, SentinelFailover(o) PROVE KeptInv(m)'
  BY <1>3, Zenon DEF SentinelFailover, KeptInv, MasterInv
<1>4. CASE EnsureMonitor
  <2>1. /\ watched' = pods[m].ip /\ pods[m].role = "master"
        /\ UNCHANGED <<kv, cache, sts, readyReplicas, pods, workerVars>>
    BY <1>4, Zenon DEF EnsureMonitor, KeptInv, MasterInv, UpPods
  <2>2. UpPods' = UpPods
    BY <2>1, Zenon DEF UpPods
  <2> QED
    BY <2>1, <2>2, Zenon
       DEF KeptInv, MasterInv, StatusInv, SizeInv, Grown, Shrunk, ListInv, Tells, workerVars
<1>5. CASE cleanPersistentVolumeClaim \/ OperatorKilled
  BY <1>5, KeptEnd, Zenon DEF cleanPersistentVolumeClaim, OperatorKilled, envVars
<1>6. CASE Environment
  BY <1>2, <1>3, <1>6, KeptCreate, KeptScaleDown, KeptGone, KeptSync, Zenon DEF Environment
<1>7. CASE WorkerStep
  BY <1>2, <1>5, <1>7, KeptScaleUp, KeptListPods, KeptFindMaster, KeptRole, KeptUpdate,
     KeptResize, Zenon DEF WorkerStep
<1>8. CASE UNCHANGED vars
  BY <1>1, <1>8, Zenon DEF vars, envVars
<1>9. ~\E o \in Ordinals : PodEvict(o)
  BY Zenon DEF PodEvict
<1> QED
  BY <1>2, <1>4, <1>5, <1>6, <1>7, <1>8, <1>9, Zenon DEF Next

\* The invariant holds at the start, if there is at most one edit.
LEMMA SingleEditInit == Init /\ budget.edit <= 1 => SingleEditInv
<1> SUFFICES ASSUME Init, budget.edit <= 1 PROVE SingleEditInv
  OBVIOUS
<1> DEFINE first == 0..(InitialSize - 1)
<1>1. InitialSize \in Nat /\ InitialSize >= 1 /\ 0 \in first /\ first \subseteq Ordinals
  BY SizesFacts, OrdinalsFacts, SMTT(60)
<1>2. kv.replicas = InitialSize /\ kv.rv = 1
  BY DEF Init, KV
<1>3. cache = kv /\ inst = kv /\ sts = [replicas |-> InitialSize, reserve |-> <<>>]
  BY Zenon DEF Init
<1>4. CopyInv
  BY <1>2, <1>3 DEF CopyInv
<1>5. sts.replicas = InitialSize /\ sts.reserve = <<>>
  BY <1>3
<1>6. EditInv
  BY <1>2, <1>3, <1>5, Zenon DEF EditInv
<1>7. Desired(sts) = first
  BY <1>1, <1>5, DesiredFirst, SMTT(60)
<1>8. PICK m \in first :
        \/ /\ kv = KV("Creating", FALSE) /\ m = 0
           /\ pods = [o \in first |-> Pod(o + 1, "slave", 0, "none")]
           /\ watched = 0
        \/ /\ kv = KV("Running", TRUE)
           /\ pods = [o \in first |-> IF o = m THEN Pod(o + 1, "master", 0, "master")
                                      ELSE Pod(o + 1, "slave", m + 1, "slave")]
           /\ watched = m + 1
  BY <1>1, Zenon DEF Init
<1>9. /\ DOMAIN pods = first
      /\ \A o \in first : /\ pods[o].ip = o + 1 /\ pods[o].up
                          /\ o # m => pods[o].role = "slave"
  <2>1. ASSUME NEW ip, NEW role, NEW master, NEW label
        PROVE  /\ Pod(ip, role, master, label).ip = ip /\ Pod(ip, role, master, label).up
               /\ Pod(ip, role, master, label).role = role
    BY DEF Pod
  <2>2. DOMAIN pods = first
    BY <1>8, Zenon
  <2>3. ASSUME NEW o \in first
        PROVE  pods[o].ip = o + 1 /\ pods[o].up /\ (o # m => pods[o].role = "slave")
    <3>1. \/ pods[o] = Pod(o + 1, "slave", 0, "none")
          \/ pods[o] = Pod(o + 1, "slave", m + 1, "slave")
          \/ o = m /\ pods[o] = Pod(o + 1, "master", 0, "master")
      BY <1>8, Zenon
    <3>2. CASE pods[o] = Pod(o + 1, "slave", 0, "none")
      BY <2>1, <3>2, SMTT(60)
    <3>3. CASE pods[o] = Pod(o + 1, "slave", m + 1, "slave")
      BY <2>1, <3>3, SMTT(60)
    <3>4. CASE o = m /\ pods[o] = Pod(o + 1, "master", 0, "master")
      BY <2>1, <3>4
    <3> QED
      BY <3>1, <3>2, <3>3, <3>4, Zenon
  <2> QED
    BY <2>2, <2>3, Zenon
<1>10. UpPods = first
  BY <1>9, Zenon DEF UpPods
<1>11. IPsInv
  <2>1. \A o \in first : o \in Nat /\ o < InitialSize
    BY <1>1, SMTT(60)
  <2>2. \A o, p \in Nat : o + 1 = p + 1 => o = p
    OBVIOUS
  <2>3. \A o \in Nat : o < InitialSize => o + 1 < InitialSize + 1
    BY <1>1
  <2>4. nextIP = InitialSize + 1
    BY Zenon DEF Init
  <2> HIDE DEF first
  <2>5. ASSUME NEW o \in first, NEW p \in first, pods[o].ip = pods[p].ip PROVE o = p
    <3>1. o + 1 = p + 1
      BY <1>9, <2>5, Zenon
    <3> QED
      BY <2>1, <2>2, <3>1, Zenon
  <2>6. ASSUME NEW o \in first PROVE pods[o].ip < nextIP
    BY <1>9, <2>1, <2>3, <2>4, Zenon
  <2> QED
    BY <1>9, <2>5, <2>6, Zenon DEF IPsInv
<1>12. KeptInv(m)
  <2>1. KV("Creating", FALSE).status = "Creating" /\ KV("Running", TRUE).status = "Running"
    BY DEF KV
  <2>2. "slave" # "master" /\ "Creating" # "Running"
    BY SMTT(60)
  <2>3. kv.status = "Running" => pods[m].role = "master" /\ watched = pods[m].ip
    <3> SUFFICES ASSUME kv.status = "Running"
                 PROVE  pods[m].role = "master" /\ watched = pods[m].ip
      OBVIOUS
    <3>1. kv # KV("Creating", FALSE)
      BY <2>1, <2>2, Zenon
    <3>2. pods[m] = Pod(m + 1, "master", 0, "master") /\ watched = m + 1
      BY <1>8, <3>1, Zenon
    <3> QED
      BY <3>2, SMTT(60) DEF Pod
  <2>4. \/ kv.status = "Creating" /\ m = 0 /\ watched = 0
        \/ kv.status = "Running"
    BY <1>8, <2>1, Zenon
  <2>5. MasterInv(m)
    BY <1>7, <1>9, <1>10, <2>2, <2>3, <2>4, Zenon DEF MasterInv
  <2>6. StatusInv(m)
    BY <1>3, <2>2, <2>3, <2>4, Zenon DEF StatusInv
  <2>7. SizeInv
    <3>1. readyReplicas <= Cardinality(first) /\ sts.replicas >= InitialSize
      <4>1. readyReplicas = InitialSize
        BY Zenon DEF Init
      <4> QED
        BY <1>1, <1>5, <4>1, CountInitial, SMTT(60)
    <3>2. Grown
      BY <1>5, <1>7, <1>9, <1>10, <3>1, Zenon DEF Grown
    <3>3. pc = "idle"
      BY Zenon DEF Init
    <3> QED
      BY <3>2, <3>3, Zenon DEF SizeInv
  <2>8. ListInv(m)
    <3>1. pc = "idle"
      BY Zenon DEF Init
    <3> QED
      BY <3>1, Zenon DEF ListInv
  <2> QED
    BY <2>5, <2>6, <2>7, <2>8, Zenon DEF KeptInv
<1>13. m \in Ordinals
  BY <1>1, Zenon
<1> QED
  BY <1>4, <1>6, <1>11, <1>12, <1>13, Zenon DEF SingleEditInv

\* Every step keeps the invariant.
LEMMA SingleEditStep == TypeInv /\ SingleEditInv /\ [Next]_vars => SingleEditInv'
<1> SUFFICES ASSUME TypeInv, SingleEditInv, [Next]_vars PROVE SingleEditInv'
  OBVIOUS
<1>1. CopyInv /\ EditInv /\ IPsInv
  BY Zenon DEF SingleEditInv
<1>2. CopyInv' /\ EditInv' /\ IPsInv'
  BY <1>1, EditStep, IPsStep, Zenon
<1>3. ASSUME ~evicted' PROVE \E m \in Ordinals : KeptInv(m)'
  <2>1. ~evicted
    <3>1. evicted' = evicted \/ evicted' = TRUE
      <4>1. CASE Environment
        BY <4>1, ZenonT(60) DEF Environment, CacheSync, StatusSync, PodCreate, PodScaleDown,
                                PodGone, SentinelFailover
      <4>2. CASE WorkerStep
        BY <4>2, ZenonT(60)
           DEF WorkerStep, Reconcile, ScaleUp, ListPods, FindMaster, EnsureRole, UpdateInstance,
               resizeStatefulSet, cleanPersistentVolumeClaim, Abort
      <4>3. CASE \/ \E n \in Sizes : EditReplicas(n)
                 \/ \E o \in Ordinals : PodEvict(o)
                 \/ EnsureMonitor \/ OperatorKilled \/ UNCHANGED vars
        BY <4>3, Zenon DEF EditReplicas, PodEvict, EnsureMonitor, OperatorKilled, vars
      <4> QED
        BY <4>1, <4>2, <4>3, Zenon DEF Next
    <3> QED
      BY <1>3, <3>1, Zenon
  <2>2. PICK m \in Ordinals : KeptInv(m)
    BY <2>1, Zenon DEF SingleEditInv
  <2>3. KeptInv(m)'
    BY <1>1, <1>3, <2>2, KeptStep, Zenon
  <2> QED
    BY <2>3
<1> QED
  BY <1>2, <1>3, Zenon DEF SingleEditInv

\* With one edit of spec.replicas the StatefulSet never stops the master, for
\* any sizes, wherever the master is, and however often the operator is killed
\* on the way, unless a pod is evicted.  With a second edit it may: the reserved
\* ordinals of the first are forgotten.
THEOREM OneEditKeepsMaster == Spec /\ budget.edit <= 1 => MasterSurvivesShrink
<1>1. TypeInv /\ SingleEditInv /\ [Next]_vars
        => [~evicted => \A o \in Masters : o \notin Desired(sts) => o \in Masters']_vars
  <2> SUFFICES ASSUME SingleEditInv, ~evicted, NEW o \in Masters, o \notin Desired(sts) PROVE FALSE
    BY Zenon
  <2>1. PICK m \in Ordinals : KeptInv(m)
    BY Zenon DEF SingleEditInv
  <2> QED
    BY <2>1, Zenon DEF KeptInv, MasterInv, Masters, UpPods
<1> QED
  BY <1>1, InitType, TypeStep, SingleEditInit, SingleEditStep, PTL DEF Spec, MasterSurvivesShrink

\* Nor does the operator delete the claim of a pod that the StatefulSet wants.
THEOREM OneEditKeepsVolumes == Spec /\ budget.edit <= 1 => KeepsVolumes
<1>1. TypeInv /\ SingleEditInv /\ [Next]_vars
        => [~evicted => (pvcs \ doomed) \cap Desired(sts) \subseteq pvcs' \ doomed']_vars
  <2> SUFFICES ASSUME SingleEditInv, [Next]_vars, ~evicted
               PROVE  (pvcs \ doomed) \cap Desired(sts) \subseteq pvcs' \ doomed'
    BY Zenon
  <2>1. CASE UNCHANGED claimVars
    BY <2>1, Zenon DEF claimVars
  <2>2. CASE cleanPersistentVolumeClaim
    <3>1. PICK m \in Ordinals : KeptInv(m)
      BY Zenon DEF SingleEditInv
    <3>2. Desired(sts) = {stsNodes[j].idx : j \in 1..Len(stsNodes)}
      BY <2>2, <3>1, Zenon DEF cleanPersistentVolumeClaim, KeptInv, ListInv, IdxOf
    <3> QED
      BY <2>2, <3>2, Zenon DEF cleanPersistentVolumeClaim, DeleteClaims
  <2>3. CASE Environment
    BY <2>1, <2>3, ZenonT(60)
       DEF Environment, CacheSync, StatusSync, PodCreate, PodScaleDown, PodGone,
           SentinelFailover, envVars
  <2>4. CASE WorkerStep
    BY <2>1, <2>2, <2>4, ZenonT(60)
       DEF WorkerStep, Reconcile, ScaleUp, ListPods, FindMaster, EnsureRole, UpdateInstance,
           resizeStatefulSet, Abort, envVars
  <2>5. CASE \/ \E n \in Sizes : EditReplicas(n)
             \/ \E o \in Ordinals : PodEvict(o)
             \/ EnsureMonitor \/ OperatorKilled \/ UNCHANGED vars
    BY <2>1, <2>5, Zenon DEF EditReplicas, PodEvict, EnsureMonitor, OperatorKilled, vars, envVars
  <2> QED
    BY <2>3, <2>4, <2>5, Zenon DEF Next
<1> QED
  BY <1>1, InitType, TypeStep, SingleEditInit, SingleEditStep, PTL DEF Spec, KeepsVolumes
=============================================================================
