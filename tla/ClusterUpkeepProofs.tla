------------------------ MODULE ClusterUpkeepProofs ------------------------
(***************************************************************************)
(* Proofs about ClusterUpkeep, for every number of shards and slots, all   *)
(* passwords, configurations and migrations, any number of edits and every *)
(* combination of faults: types, that a roll-out of a password reports no  *)
(* node that answers, that no slot is moved twice, and that the lists of   *)
(* ranges in the status are the shortest and can be read back.             *)
(***************************************************************************)
EXTENDS ClusterUpkeep, TLAPS

-----------------------------------------------------------------------------
(* Types, and copies of the instance *)

\* Between two reconciles the worker has no copy.
LEMMA IdleType == Idle \in Workers /\ Idle.pc = "idle" /\ ~Idle.fresh /\ Idle.fresh \in BOOLEAN
<1>1. 1 \in Shards
  BY ShardsAssumption DEF Shards
<1>2. [s \in Shards |-> {}] \in SlotMaps
  BY DEF SlotMaps
<1> QED
  BY <1>1, <1>2 DEF Idle, Workers, Steps

\* The status gets lists of slots of the cluster.
LEMMA WithSlotsType ==
  ASSUME NEW inst \in KVs, NEW slots \in SlotMaps
  PROVE  WithSlots(inst, slots) \in KVs /\ WithSlots(inst, slots).moves = inst.moves
<1> DEFINE status == [s \in Shards |-> SlotsToString(slots[s])]
<1>1. status \in SlotStatus
  BY DEF SlotLists, SlotMaps, SlotStatus
<1> HIDE DEF status
<1>2. [inst EXCEPT !.slots = status] \in KVs /\ [inst EXCEPT !.slots = status].moves = inst.moves
  BY <1>1 DEF KVs
<1> QED
  BY <1>2 DEF WithSlots, status

\* The list of migrations of a shard can be replaced.
LEMMA WithMovesType ==
  ASSUME NEW inst \in KVs, NEW s \in Shards, NEW moves \in Seq(Migrations)
  PROVE  /\ [inst EXCEPT !.moves[s] = moves] \in KVs
         /\ [inst EXCEPT !.moves[s] = moves].moves = [inst.moves EXCEPT ![s] = moves]
<1>1. [inst.moves EXCEPT ![s] = moves] \in SlotPlans
  BY DEF KVs, SlotPlans
<1>2. [inst EXCEPT !.moves[s] = moves] = [inst EXCEPT !.moves = [inst.moves EXCEPT ![s] = moves]]
  OBVIOUS
<1> QED
  BY <1>1, <1>2 DEF KVs

\* What the user may write is an instance.
LEMMA EditsType == ASSUME kv \in KVs, NEW new \in Edits PROVE new \in KVs
<1>1. ASSUME NEW password \in Passwords PROVE [kv EXCEPT !.password = password] \in KVs
  BY DEF KVs
<1>2. ASSUME NEW config \in Configs PROVE [kv EXCEPT !.config = config] \in KVs
  BY DEF KVs
<1>3. ASSUME NEW plan \in Plans PROVE [kv EXCEPT !.moves[plan.shard] = plan.moves] \in KVs
  BY PlansAssumption, WithMovesType
<1> QED
  BY <1>1, <1>2, <1>3 DEF Edits

\* The initial states are of the right type.
LEMMA InitType == Init => TypeOK
<1> SUFFICES ASSUME Init PROVE TypeOK
  OBVIOUS
<1>1. ctl \in SlotMaps
  BY DEF Init, Slots, SlotMaps
<1> DEFINE status == [s \in Shards |-> SlotsToString(ctl[s])]
           none == [s \in Shards |-> <<>>]
<1>2. status \in SlotStatus
  BY <1>1 DEF SlotLists, SlotMaps, SlotStatus
<1>3. none \in SlotPlans
  BY DEF SlotPlans
<1>4. kv = [password |-> kv.password, config |-> kv.config, slots |-> status, moves |-> none]
  BY DEF Init
<1>5. kv.password \in Passwords /\ kv.config \in Configs
  BY ValuesAssumption DEF Init
<1> HIDE DEF status, none
<1>6. kv \in KVs
  BY <1>2, <1>3, <1>4, <1>5 DEF KVs
<1>7. faults \subseteq {"kill", "outage", "restart", "lost", "stale"} \ met
  BY ScenariosAssumption DEF Init
<1>8. cache = kv /\ fresh \in BOOLEAN /\ queued \in BOOLEAN /\ edits \in 0..MaxEdits
  BY BoundsAssumption DEF Init
<1>9. {cm, cmCache} \subseteq ConfigMaps
  BY <1>5 DEF Init, ConfigMaps
<1>10. nodes \in [Shards -> Nodes] /\ accused \subseteq Shards
  BY <1>5 DEF Init, Nodes
<1>11. w \in Workers /\ w.pc = "idle" /\ ~w.fresh
  BY IdleType DEF Init
<1> QED
  BY <1>1, <1>6, <1>7, <1>8, <1>9, <1>10, <1>11 DEF TypeOK

\* An Update is accepted only from a current copy, and makes it the stored one.
LEMMA UpdateType ==
  ASSUME TypeOK, NEW new \in KVs, NEW slots \in SlotMaps,
         NEW pc \in {"publish", "migrate", "moved"}, UpdateKVRocks(new, pc, slots)
  PROVE  /\ {kv', cache'} \subseteq KVs /\ w' \in Workers
         /\ w'.pc # "idle" => w'.inst \in KVs
         /\ w'.pc # "move"
         /\ fresh' \in BOOLEAN /\ queued' \in BOOLEAN
         /\ fresh' => cache' = kv'
         /\ w'.fresh => w'.inst = kv'
<1>1. CASE ~w.fresh /\ Return(TRUE) /\ UNCHANGED kvVars
  <2>1. w' \in Workers /\ w'.pc = "idle" /\ ~w'.fresh /\ queued' \in BOOLEAN
    BY <1>1, IdleType DEF Return
  <2> QED
    BY <1>1, <2>1 DEF TypeOK, kvVars
<1>2. CASE /\ w.fresh
           /\ kv' = new
           /\ fresh' = (fresh /\ new = kv)
           /\ w' = [w EXCEPT !.inst = new, !.pc = pc, !.slots = slots]
           /\ UNCHANGED <<cache, queued>>
  <2>1. w' \in Workers /\ w'.inst = new /\ w'.pc = pc
    <3>1. w \in Workers /\ pc \in Steps
      BY DEF TypeOK, Steps
    <3>2. w' = [w EXCEPT !.inst = new, !.pc = pc, !.slots = slots]
      BY <1>2
    <3> QED
      BY <3>1, <3>2, Zenon DEF Workers
  <2>2. fresh' \in BOOLEAN
    BY <1>2
  <2>3. fresh' => cache' = kv'
    BY <1>2, Zenon DEF TypeOK
  <2>4. cache' \in KVs /\ queued' \in BOOLEAN
    BY <1>2 DEF TypeOK
  <2> QED
    BY <1>2, <2>1, <2>2, <2>3, <2>4
<1> QED
  BY <1>1, <1>2, Zenon DEF UpdateKVRocks

\* The worker leaves, or goes to its next step.
LEMMA ReturnType ==
  ASSUME NEW again \in BOOLEAN, Return(again)
  PROVE  w' \in Workers /\ w'.pc = "idle" /\ ~w'.fresh /\ queued' \in BOOLEAN
BY IdleType DEF Return

\* Going to another step keeps the copy and starts the next loop at shard 1.
LEMMA GotoType ==
  ASSUME TypeOK, NEW pc \in Steps, Goto(pc)
  PROVE  /\ w' \in Workers /\ w'.inst = w.inst /\ w'.fresh = w.fresh /\ w'.pc = pc
         /\ queued' \in BOOLEAN
<1>1. w \in Workers /\ 1 \in Shards /\ queued' \in BOOLEAN
  BY ShardsAssumption DEF TypeOK, Goto, Shards
<1>2. w' = [w EXCEPT !.pc = pc, !.next = 1]
  BY DEF Goto
<1> QED
  BY <1>1, <1>2, Zenon DEF Workers

\* A fault that has happened is not available again.
LEMMA FaultType ==
  ASSUME TypeOK, NEW kind, Fault(kind)
  PROVE  faults' \subseteq {"kill", "outage", "restart", "lost", "stale"} \ met'
BY DEF TypeOK, Fault

\* Every step keeps the types, and the copies marked as current.
LEMMA TypeStep == TypeOK /\ [Next]_vars => TypeOK'
<1> SUFFICES ASSUME TypeOK, [Next]_vars PROVE TypeOK'
  OBVIOUS
<1> USE DEF kvVars, cmVars, faultVars
<1>1. CASE Reconcile
  <2>1. Idle \in Workers /\ cache \in KVs /\ fresh \in BOOLEAN /\ KnownPassword \in Passwords
    BY IdleType DEF TypeOK, KnownPassword, ConfigMaps
  <2>2. w' = [Idle EXCEPT !.pc = "ping", !.inst = cache, !.fresh = fresh, !.password = KnownPassword]
    BY <1>1 DEF Reconcile
  <2>3. "ping" \in Steps
    BY DEF Steps
  <2>4. w' \in Workers /\ w'.inst = cache /\ w'.fresh = fresh /\ w'.pc = "ping"
    BY <2>1, <2>2, <2>3, Zenon DEF Workers
  <2> QED
    BY <1>1, <2>1, <2>4, Zenon DEF Reconcile, TypeOK
<1>2. CASE Ping
  <2>1. accused' \subseteq Shards
    BY <1>2 DEF Ping, TypeOK
  <2>2. /\ w' \in Workers /\ queued' \in BOOLEAN
        /\ \/ w'.pc = "idle" /\ ~w'.fresh
           \/ w'.inst = w.inst /\ w'.fresh = w.fresh /\ w'.pc # "move"
    BY <1>2, ReturnType, GotoType, Zenon DEF Ping, Steps
  <2>3. w.inst \in KVs
    BY <1>2 DEF Ping, TypeOK
  <2> QED
    BY <1>2, <2>1, <2>2, <2>3 DEF Ping, TypeOK
<1>3. CASE EnsureConfig
  <2>1. w.inst \in KVs /\ w \in Workers
    BY <1>3 DEF EnsureConfig, TypeOK
  <2>2. nodes' \in [Shards -> Nodes]
    <3>1. ASSUME NEW node \in Nodes PROVE Configured(node) \in Nodes
      BY <2>1, Zenon DEF Configured, Nodes, KVs
    <3>2. w.next \in Shards /\ nodes \in [Shards -> Nodes]
      BY <2>1 DEF TypeOK, Workers
    <3>3. UNCHANGED nodes \/ nodes' = [nodes EXCEPT ![w.next] = Configured(@)]
      BY <1>3, Zenon DEF EnsureConfig
    <3> QED
      BY <3>1, <3>2, <3>3
  <2>3. /\ w' \in Workers /\ queued' \in BOOLEAN
        /\ \/ w'.pc = "idle" /\ ~w'.fresh
           \/ w'.inst = w.inst /\ w'.fresh = w.fresh /\ w'.pc # "move"
    <3>1. CASE Return(TRUE)
      BY <3>1, ReturnType, Zenon
    <3>2. CASE Goto("configmap")
      BY <3>2, GotoType DEF Steps
    <3>3. CASE w.next # NumShards /\ w' = [w EXCEPT !.next = @ + 1] /\ UNCHANGED queued
      <4>1. w.next + 1 \in Shards
        BY <2>1, <3>3, ShardsAssumption DEF Workers, Shards
      <4>2. w' \in Workers /\ w'.inst = w.inst /\ w'.fresh = w.fresh /\ w'.pc = w.pc
        BY <2>1, <3>3, <4>1, Zenon DEF Workers
      <4> QED
        BY <1>3, <3>3, <4>2 DEF EnsureConfig, TypeOK
    <3> QED
      BY <1>3, <3>1, <3>2, <3>3, Zenon DEF EnsureConfig
  <2> QED
    BY <1>3, <2>1, <2>2, <2>3 DEF EnsureConfig, TypeOK
<1>4. CASE UpdateConfigMap
  <2>1. w.inst \in KVs /\ w \in Workers
    BY <1>4 DEF UpdateConfigMap, TypeOK
  <2>2. cm' \in ConfigMaps /\ cmCache' \in ConfigMaps
    BY <1>4, <2>1 DEF UpdateConfigMap, TypeOK, ConfigMaps, KVs
  <2>3. w.inst.password \in Passwords /\ 1 \in Shards /\ "update" \in Steps
    BY <2>1, ShardsAssumption DEF KVs, Shards, Steps
  <2>4. w' \in Workers /\ w'.inst = w.inst /\ w'.fresh = w.fresh /\ w'.pc = "update"
    BY <1>4, <2>1, <2>3, Zenon DEF UpdateConfigMap, Workers
  <2>5. faults' \subseteq {"kill", "outage", "restart", "lost", "stale"} \ met'
    BY <1>4, FaultType DEF UpdateConfigMap, TypeOK
  <2> QED
    BY <1>4, <2>1, <2>2, <2>4, <2>5 DEF UpdateConfigMap, TypeOK
<1>5. CASE EnsureCluster
  <2>1. w.inst \in KVs /\ ctl \in SlotMaps
    BY <1>5 DEF EnsureCluster, TypeOK
  <2> QED
    BY <1>5, <2>1, UpdateType DEF EnsureCluster, TypeOK
<1>6. CASE Publish
  <2>1. w.inst \in KVs /\ w.slots \in SlotMaps
    BY <1>6 DEF Publish, TypeOK, Workers
  <2> QED
    BY <1>6, <2>1, WithSlotsType, UpdateType, Zenon DEF Publish, TypeOK
<1>7. CASE EnsureMigrate
  <2>1. w.inst \in KVs /\ w \in Workers
    BY <1>7, Zenon DEF EnsureMigrate, TypeOK
  <2>2. CASE Return(~w.fresh)
    BY <1>7, <2>1, <2>2, ReturnType, Zenon DEF EnsureMigrate, TypeOK, Workers
  <2>3. ASSUME NEW s \in Shards, w.inst.moves[s] # <<>>, UNCHANGED queued,
               w' = [w EXCEPT !.pc = "move", !.next = s, !.left = Head(w.inst.moves[s]).slots]
        PROVE  TypeOK'
    <3>1. w.inst.moves[s] \in Seq(Migrations)
      BY <2>1 DEF KVs, SlotPlans
    <3>2. Head(w.inst.moves[s]) \in Migrations
      BY <2>3, <3>1
    <3>3. Head(w.inst.moves[s]).slots \in SUBSET Slots /\ "move" \in Steps
      BY <3>2 DEF Migrations, Steps
    <3>4. w' \in Workers /\ w'.inst = w.inst /\ w'.fresh = w.fresh /\ w'.pc = "move" /\ w'.next = s
      BY <2>1, <2>3, <3>3, Zenon DEF Workers
    <3> QED
      BY <1>7, <2>1, <2>3, <3>4, Zenon DEF EnsureMigrate, TypeOK
  <2> QED
    BY <1>7, <2>2, <2>3, Zenon DEF EnsureMigrate
<1>8. CASE FinishMove
  <2> DEFINE s == w.next
             slots == [w.slots EXCEPT ![s] = Dropped(@, Cardinality(Head(w.inst.moves[s]).slots))]
             new == [WithSlots(w.inst, slots) EXCEPT !.moves[s] = Tail(w.inst.moves[s])]
  <2>1. w.inst \in KVs /\ s \in Shards /\ w.slots \in SlotMaps /\ w.inst.moves[s] # <<>>
    BY <1>8 DEF FinishMove, TypeOK, Workers
  <2>2. slots \in SlotMaps
    BY <2>1 DEF SlotMaps, Dropped
  <2>3. w.inst.moves[s] \in Seq(Migrations)
    BY <2>1 DEF KVs, SlotPlans
  <2>4. Tail(w.inst.moves[s]) \in Seq(Migrations)
    BY <2>1, <2>3
  <2>5. new \in KVs
    BY <2>1, <2>2, <2>4, WithSlotsType, WithMovesType, Zenon
  <2>6. UpdateKVRocks(new, "moved", slots)
    BY <1>8, Zenon DEF FinishMove
  <2> HIDE DEF s, slots, new
  <2> QED
    BY <1>8, <2>2, <2>5, <2>6, UpdateType, Zenon DEF FinishMove, TypeOK
<1>9. CASE NextMove
  <2>1. w.inst \in KVs /\ w \in Workers /\ w.next \in Shards
    BY <1>9 DEF NextMove, TypeOK, Workers
  <2>2. CASE Return(TRUE)
    BY <1>9, <2>2, ReturnType, Zenon DEF NextMove, TypeOK
  <2>3. CASE /\ w.inst.moves[w.next] # <<>>
             /\ w' = [w EXCEPT !.pc = "move", !.left = Head(w.inst.moves[w.next]).slots]
             /\ UNCHANGED queued
    <3>1. w.inst.moves[w.next] \in Seq(Migrations)
      BY <2>1 DEF KVs, SlotPlans
    <3>2. Head(w.inst.moves[w.next]) \in Migrations
      BY <2>3, <3>1
    <3>3. Head(w.inst.moves[w.next]).slots \in SUBSET Slots /\ "move" \in Steps
      BY <3>2 DEF Migrations, Steps
    <3>4. w' \in Workers /\ w'.inst = w.inst /\ w'.fresh = w.fresh /\ w'.pc = "move"
          /\ w'.next = w.next
      BY <2>1, <2>3, <3>3, Zenon DEF Workers
    <3> QED
      BY <1>9, <2>1, <2>3, <3>4, Zenon DEF NextMove, TypeOK
  <2> QED
    BY <1>9, <2>2, <2>3, Zenon DEF NextMove
<1>10. ASSUME NEW slot \in w.left, MigrateSlot(slot) PROVE TypeOK'
  <2>1. w \in Workers /\ w.next \in Shards /\ slot \in Slots /\ w.inst \in KVs
        /\ w.inst.moves[w.next] # <<>>
    BY <1>10 DEF MigrateSlot, TypeOK, Workers
  <2>2. ctl' \in SlotMaps
    <3>1. w.inst.moves[w.next] \in Seq(Migrations)
      BY <2>1 DEF KVs, SlotPlans
    <3>2. Head(w.inst.moves[w.next]) \in Migrations
      BY <2>1, <3>1
    <3> DEFINE to == Head(w.inst.moves[w.next]).shard
    <3>3. to \in Shards
      BY <3>2 DEF Migrations
    <3> HIDE DEF to
    <3>4. Moved(slot) \/ UNCHANGED ctl
      BY <1>10, Zenon DEF MigrateSlot
    <3>5. ctl \in SlotMaps
      BY DEF TypeOK
    <3>6. CASE Moved(slot)
      <4>1. ctl' = [ctl EXCEPT ![w.next] = @ \ {slot}, ![to] = @ \cup {slot}]
        BY <3>6 DEF Moved, to
      <4> QED
        BY <2>1, <3>3, <3>5, <4>1, Zenon DEF SlotMaps
    <3> QED
      BY <3>4, <3>5, <3>6
  <2>3. faults' \subseteq {"kill", "outage", "restart", "lost", "stale"} \ met'
    <3>1. Fault("lost") \/ UNCHANGED faultVars
      BY <1>10, Zenon DEF MigrateSlot
    <3> QED
      BY <3>1, FaultType, Zenon DEF TypeOK
  <2>4. CASE w' = [w EXCEPT !.left = @ \ {slot}] /\ UNCHANGED queued
    <3>1. w.left \ {slot} \in SUBSET Slots
      BY <2>1 DEF Workers
    <3>2. w' \in Workers /\ w'.inst = w.inst /\ w'.fresh = w.fresh /\ w'.pc = w.pc
          /\ w'.next = w.next
      BY <2>1, <2>4, <3>1, Zenon DEF Workers
    <3> QED
      BY <1>10, <2>1, <2>2, <2>3, <2>4, <3>2, Zenon DEF MigrateSlot, TypeOK
  <2>5. CASE UNCHANGED <<w, queued>>
    BY <1>10, <2>2, <2>3, <2>5, Zenon DEF MigrateSlot, TypeOK
  <2>6. CASE Return(TRUE)
    BY <1>10, <2>2, <2>3, <2>6, ReturnType, Zenon DEF MigrateSlot, TypeOK
  <2> QED
    BY <1>10, <2>4, <2>5, <2>6, Zenon DEF MigrateSlot
<1>11. CASE CacheSync
  BY <1>11 DEF CacheSync, TypeOK
<1>12. CASE ConfigMapSync
  BY <1>12 DEF ConfigMapSync, TypeOK
<1>13. CASE Kill
  <2>1. faults' \subseteq {"kill", "outage", "restart", "lost", "stale"} \ met'
    BY <1>13, FaultType DEF Kill
  <2> QED
    BY <1>13, <2>1, IdleType DEF Kill, TypeOK
<1>14. ASSUME NEW new \in Edits, UserEdit(new) PROVE TypeOK'
  <2>1. new \in KVs
    BY EditsType DEF TypeOK
  <2>2. w \in Workers /\ w' = [w EXCEPT !.fresh = FALSE]
    BY <1>14 DEF UserEdit, TypeOK
  <2>3. w' \in Workers /\ w'.inst = w.inst /\ ~w'.fresh /\ w'.pc = w.pc /\ w'.next = w.next
    BY <2>2, Zenon DEF Workers
  <2>4. edits' \in 0..MaxEdits /\ fresh' = FALSE
    BY <1>14, BoundsAssumption DEF UserEdit, TypeOK
  <2>5. faults' \subseteq {"kill", "outage", "restart", "lost", "stale"} \ met'
    BY <1>14 DEF UserEdit, TypeOK
  <2> QED
    BY <1>14, <2>1, <2>3, <2>4, <2>5, Zenon DEF UserEdit, TypeOK
<1>15. ASSUME NEW s \in Shards, NodeRestart(s) \/ Outage(s) \/ OutageEnds(s) PROVE TypeOK'
  <2>1. nodes \in [Shards -> Nodes] /\ cm \in ConfigMaps
    BY DEF TypeOK
  <2>2. nodes' \in [Shards -> Nodes]
    <3>1. CASE NodeRestart(s)
      BY <2>1, <3>1 DEF NodeRestart, Nodes, ConfigMaps
    <3>2. CASE Outage(s)
      BY <2>1, <3>2, Zenon DEF Outage, Nodes
    <3>3. CASE OutageEnds(s)
      BY <2>1, <3>3, Zenon DEF OutageEnds, Nodes
    <3> QED
      BY <1>15, <3>1, <3>2, <3>3
  <2>3. faults' \subseteq {"kill", "outage", "restart", "lost", "stale"} \ met'
    BY <1>15, FaultType DEF NodeRestart, Outage, OutageEnds, TypeOK
  <2>4. UNCHANGED <<kvVars, cmVars, ctl, w, edits, accused>> /\ queued' \in BOOLEAN
    BY <1>15, Zenon DEF NodeRestart, Outage, OutageEnds, TypeOK
  <2> QED
    BY <2>2, <2>3, <2>4, Zenon DEF TypeOK
<1>16. CASE UNCHANGED vars
  BY <1>16 DEF vars, TypeOK
<1> QED
  BY <1>1, <1>2, <1>3, <1>4, <1>5, <1>6, <1>7, <1>8, <1>9, <1>10, <1>11, <1>12, <1>13, <1>14,
     <1>15, <1>16, Zenon DEF Next, Worker

\* Types, current copies and migrations that are listed: what the API server's check of
\* the resourceVersion gives UpdateKVRocks, for every configuration of the cluster.
THEOREM TypeCorrect == Spec => []TypeOK
BY InitType, TypeStep, PTL DEF Spec

\* The facts about the worker and the nodes that the next proofs use.
LEMMA TypeFacts ==
  ASSUME TypeOK
  PROVE  /\ w \in Workers /\ w.pc \in Steps /\ w.next \in Shards
         /\ nodes \in [Shards -> Nodes] /\ ctl \in [Shards -> SUBSET Slots]
         /\ w.pc # "idle" => w.inst \in KVs
BY DEF TypeOK, Workers, SlotMaps

-----------------------------------------------------------------------------
(* Passwords: the nodes follow the ConfigMap *)

\* What can make a roll-out of a password go wrong.
RolloutFaults == {"kill", "outage", "restart", "stale"}

\* The password a node has: the new one from EnsureConfig's visit on, and that of the
\* ConfigMap before it and between two roll-outs.
PasswordOf(s) ==
  IF w.pc = "configmap" \/ (w.pc = "config" /\ s < w.next) THEN w.inst.password ELSE cm.password

\* Without these faults every node answers to the password the worker has for it, at
\* every point of a roll-out.
Rollout ==
  /\ accused = {} /\ cmCache = cm
  /\ w.pc \in {"ping", "config"} => w.password = cm.password
  /\ \A s \in Shards : nodes[s].up /\ nodes[s].password = PasswordOf(s)

\* The invariant of a roll-out.
RolloutInv == met \cap RolloutFaults = {} => Rollout

\* A step that leaves nodes and ConfigMap alone, outside of a roll-out.
LEMMA RolloutOutside ==
  ASSUME Rollout, UNCHANGED <<nodes, cmVars, accused>>,
         w.pc \notin {"config", "configmap"}, w'.pc \notin {"ping", "config", "configmap"}
  PROVE  Rollout'
BY DEF Rollout, PasswordOf, cmVars

\* After an Update the worker is at the step after it, or it has left.
LEMMA UpdateGoes ==
  ASSUME TypeOK, NEW new, NEW pc, NEW slots, UpdateKVRocks(new, pc, slots)
  PROVE  w'.pc \in {pc, "idle"}
<1>1. CASE w' = [w EXCEPT !.inst = new, !.pc = pc, !.slots = slots]
  BY <1>1, TypeFacts, Zenon DEF Workers
<1> QED
  BY <1>1, IdleType, Zenon DEF UpdateKVRocks, Return

\* In the beginning no password is being rolled out.
LEMMA RolloutInit == Init => RolloutInv
<1> SUFFICES ASSUME Init PROVE Rollout
  BY DEF RolloutInv
<1>1. w.pc = "idle"
  BY IdleType DEF Init
<1> QED
  BY <1>1 DEF Init, Rollout, PasswordOf

\* Every step keeps the passwords in agreement.
LEMMA RolloutStep == TypeOK /\ RolloutInv /\ [Next]_vars => RolloutInv'
<1> SUFFICES ASSUME TypeOK, RolloutInv, [Next]_vars, met' \cap RolloutFaults = {} PROVE Rollout'
  BY DEF RolloutInv
<1> USE DEF kvVars, cmVars, faultVars
<1>1. met \subseteq met'
  BY Zenon DEF Next, Worker, Reconcile, Ping, EnsureConfig, UpdateConfigMap, EnsureCluster, Publish,
     EnsureMigrate, FinishMove, NextMove, MigrateSlot, CacheSync, ConfigMapSync, Kill, UserEdit,
     NodeRestart, Outage, OutageEnds, Fault, vars
<1>2. Rollout
  BY <1>1 DEF RolloutInv
<1>3. CASE Reconcile
  <2>1. w' = [Idle EXCEPT !.pc = "ping", !.inst = cache, !.fresh = fresh, !.password = KnownPassword]
    BY <1>3 DEF Reconcile
  <2>2. w'.pc = "ping" /\ w'.password = cmCache.password
    BY <2>1, IdleType, Zenon DEF Workers, KnownPassword
  <2> QED
    BY <1>2, <1>3, <2>2 DEF Reconcile, Rollout, PasswordOf
<1>4. CASE Ping
  <2>1. \A s \in Shards : Answers(s)
    BY <1>2, <1>4 DEF Ping, Rollout, PasswordOf, Answers
  <2>2. accused' = {} /\ UNCHANGED <<cm, cmCache, nodes>> /\ Goto("config")
    BY <1>2, <1>4, <2>1, Zenon DEF Ping, Rollout
  <2>3. w' = [w EXCEPT !.pc = "config", !.next = 1] /\ w \in Workers
    BY <2>2, TypeFacts DEF Goto
  <2>4. w'.pc = "config" /\ w'.next = 1 /\ w'.password = w.password
    BY <2>3, Zenon DEF Workers
  <2>5. \A s \in Shards : ~(s < 1)
    BY ShardsAssumption DEF Shards
  <2> QED
    BY <1>2, <1>4, <2>2, <2>4, <2>5 DEF Ping, Rollout, PasswordOf
<1>5. CASE EnsureConfig
  <2>1. w \in Workers /\ w.next \in Shards /\ w.pc = "config" /\ nodes \in [Shards -> Nodes]
    BY <1>5, TypeFacts DEF EnsureConfig
  <2>2. ~(w.next < w.next)
    BY <2>1, ShardsAssumption DEF Shards
  <2>3. Answers(w.next)
    BY <1>2, <2>1, <2>2 DEF Rollout, PasswordOf, Answers
  <2>4. /\ nodes' = [nodes EXCEPT ![w.next] = Configured(@)]
        /\ UNCHANGED <<cm, cmCache, accused>>
    BY <1>5, <2>3, Zenon DEF EnsureConfig
  <2>5. /\ nodes'[w.next].up = nodes[w.next].up
        /\ nodes'[w.next].password = w.inst.password
        /\ \A s \in Shards : s # w.next => nodes'[s] = nodes[s]
    <3>1. nodes[w.next] \in Nodes
      BY <2>1
    <3>2. /\ Configured(nodes[w.next]).up = nodes[w.next].up
          /\ Configured(nodes[w.next]).password = w.inst.password
      BY <3>1 DEF Configured, Nodes
    <3> QED
      BY <2>1, <2>4, <3>2
  <2>6. CASE w.next = NumShards /\ Goto("configmap")
    <3>1. w' = [w EXCEPT !.pc = "configmap", !.next = 1]
      BY <2>6 DEF Goto
    <3>2. w'.pc = "configmap" /\ w'.inst = w.inst
      BY <2>1, <3>1, Zenon DEF Workers
    <3>3. \A s \in Shards : s # w.next => s < w.next
      BY <2>6, ShardsAssumption DEF Shards
    <3> QED
      BY <1>2, <2>1, <2>4, <2>5, <3>2, <3>3 DEF Rollout, PasswordOf
  <2>7. CASE w.next # NumShards /\ w' = [w EXCEPT !.next = @ + 1]
    <3>1. w'.pc = "config" /\ w'.inst = w.inst /\ w'.next = w.next + 1 /\ w'.password = w.password
      BY <2>1, <2>7, Zenon DEF Workers
    <3>2. \A s \in Shards : s < w.next + 1 <=> s < w.next \/ s = w.next
      BY <2>1, ShardsAssumption DEF Shards
    <3> QED
      BY <1>2, <2>1, <2>4, <2>5, <3>1, <3>2 DEF Rollout, PasswordOf
  <2> QED
    BY <1>5, <2>3, <2>6, <2>7, Zenon DEF EnsureConfig
<1>6. CASE UpdateConfigMap
  <2>1. w \in Workers /\ w.pc = "configmap" /\ UNCHANGED <<nodes, accused>>
    BY <1>6, TypeFacts DEF UpdateConfigMap
  <2>2. w'.pc = "update"
    BY <1>6, <2>1, Zenon DEF UpdateConfigMap, Workers
  <2>3. cm'.password = w.inst.password
    BY <1>6 DEF UpdateConfigMap
  <2>4. cmCache' = cm'
    BY <1>6 DEF UpdateConfigMap, Fault, RolloutFaults
  <2> QED
    BY <1>2, <2>1, <2>2, <2>3, <2>4 DEF Rollout, PasswordOf
<1>7. CASE EnsureCluster
  <2>1. w.pc = "update" /\ w'.pc \in {"publish", "idle"} /\ UNCHANGED <<nodes, cmVars, accused>>
    BY <1>7, UpdateGoes DEF EnsureCluster
  <2> QED
    BY <1>2, <2>1, RolloutOutside
<1>8. CASE Publish
  <2>1. w.pc = "publish" /\ w'.pc \in {"migrate", "idle"} /\ UNCHANGED <<nodes, cmVars, accused>>
    BY <1>8, UpdateGoes DEF Publish
  <2> QED
    BY <1>2, <2>1, RolloutOutside
<1>9. CASE EnsureMigrate
  <2>1. w.pc = "migrate" /\ UNCHANGED <<nodes, cmVars, accused>>
    BY <1>9, Zenon DEF EnsureMigrate
  <2>2. w'.pc \in {"move", "idle"}
    <3>1. ASSUME NEW s, w' = [w EXCEPT !.pc = "move", !.next = s,
                                       !.left = Head(w.inst.moves[s]).slots]
          PROVE  w'.pc = "move"
      BY <3>1, TypeFacts, Zenon DEF Workers
    <3> QED
      BY <1>9, <3>1, IdleType, Zenon DEF EnsureMigrate, Return
  <2> QED
    BY <1>2, <2>1, <2>2, RolloutOutside
<1>10. CASE FinishMove
  <2>1. w.pc = "move" /\ w'.pc \in {"moved", "idle"} /\ UNCHANGED <<nodes, cmVars, accused>>
    BY <1>10, UpdateGoes, Zenon DEF FinishMove
  <2> QED
    BY <1>2, <2>1, RolloutOutside
<1>11. CASE NextMove
  <2>1. w.pc = "moved" /\ UNCHANGED <<nodes, cmVars, accused>>
    BY <1>11 DEF NextMove
  <2>2. w'.pc \in {"move", "idle"}
    <3>1. CASE w' = [w EXCEPT !.pc = "move", !.left = Head(w.inst.moves[w.next]).slots]
      BY <3>1, TypeFacts, Zenon DEF Workers
    <3> QED
      BY <1>11, <3>1, IdleType, Zenon DEF NextMove, Return
  <2> QED
    BY <1>2, <2>1, <2>2, RolloutOutside
<1>12. ASSUME NEW slot \in w.left, MigrateSlot(slot) PROVE Rollout'
  <2>1. w.pc = "move" /\ UNCHANGED <<nodes, cmVars, accused>>
    BY <1>12, Zenon DEF MigrateSlot
  <2>2. w'.pc \in {"move", "idle"}
    <3>1. CASE w' = [w EXCEPT !.left = @ \ {slot}]
      BY <2>1, <3>1, TypeFacts, Zenon DEF Workers
    <3> QED
      BY <1>12, <2>1, <3>1, IdleType, Zenon DEF MigrateSlot, Return
  <2> QED
    BY <1>2, <2>1, <2>2, RolloutOutside
<1>13. CASE CacheSync \/ ConfigMapSync \/ UNCHANGED vars
  BY <1>2, <1>13 DEF CacheSync, ConfigMapSync, vars, Rollout, PasswordOf
<1>14. ASSUME NEW new \in Edits, UserEdit(new) PROVE Rollout'
  <2>1. w' = [w EXCEPT !.fresh = FALSE] /\ w \in Workers
    BY <1>14, TypeFacts DEF UserEdit
  <2>2. w'.pc = w.pc /\ w'.next = w.next /\ w'.inst = w.inst /\ w'.password = w.password
    BY <2>1, Zenon DEF Workers
  <2> QED
    BY <1>2, <1>14, <2>2 DEF UserEdit, Rollout, PasswordOf
<1>15. ~Kill /\ \A s \in Shards : ~NodeRestart(s) /\ ~Outage(s)
  BY DEF Kill, NodeRestart, Outage, Fault, RolloutFaults
<1>16. \A s \in Shards : ~OutageEnds(s)
  BY <1>2 DEF OutageEnds, Rollout
<1> QED
  BY <1>3, <1>4, <1>5, <1>6, <1>7, <1>8, <1>9, <1>10, <1>11, <1>12, <1>13, <1>14, <1>15, <1>16,
     Zenon DEF Next, Worker

\* ensureFailover reports no node that answers, for every number of nodes, passwords
\* and edits and however copies of the instance lag behind, until a roll-out is
\* interrupted, a node goes away or the ConfigMap is read from a cache that lags behind.
THEOREM RolloutSafe == Spec => []OnlyDownNodesReported
<1>1. RolloutInv => OnlyDownNodesReported
  BY DEF RolloutInv, Rollout, RolloutFaults, OnlyDownNodesReported
<1> QED
  BY TypeCorrect, RolloutInit, RolloutStep, <1>1, PTL DEF Spec

-----------------------------------------------------------------------------
(* Migrations: a slot that is listed has not moved yet *)

\* No list of migrations names a slot twice.
SlotsNamedOnce ==
  \A plan \in Plans : \A i, j \in DOMAIN plan.moves :
    i # j => plan.moves[i].slots \cap plan.moves[j].slots = {}

\* The stored migrations do not name a slot twice either.
PlannedInv ==
  \A s \in Shards : \A i, j \in DOMAIN kv.moves[s] :
    i # j => kv.moves[s][i].slots \cap kv.moves[s][j].slots = {}

\* What can make a slot move twice.
MigrationFaults == {"kill", "lost", "edit"}

\* From the Update of ensureStatusTopoMsg on the worker's copy is current; the slots of
\* every listed migration are where they have to be moved from, except those that the
\* migration under way has moved.
Migration ==
  /\ w.pc \in {"migrate", "move", "moved"} => w.fresh
  /\ \A s \in Shards : \A j \in DOMAIN kv.moves[s] :
       kv.moves[s][j].slots \subseteq ctl[s] \/ (w.pc = "move" /\ s = w.next /\ j = 1)
  /\ w.pc = "move" => w.left \subseteq ctl[w.next] \cap kv.moves[w.next][1].slots

\* The invariant of the migrations.
MigrationInv == met \cap MigrationFaults = {} => Migration

\* What an Update leaves: the stored migrations, or those of the new instance.
LEMMA UpdateMoves ==
  ASSUME TypeOK, NEW new, NEW pc, NEW slots, UpdateKVRocks(new, pc, slots)
  PROVE  \/ w.fresh /\ w.inst = kv /\ kv' = new /\ w'.fresh /\ w'.pc = pc
         \/ ~w.fresh /\ kv' = kv /\ w'.pc = "idle"
<1>1. CASE /\ w.fresh /\ kv' = new
           /\ w' = [w EXCEPT !.inst = new, !.pc = pc, !.slots = slots]
  <2>1. w'.fresh = w.fresh /\ w'.pc = pc
    BY <1>1, TypeFacts, Zenon DEF Workers
  <2> QED
    BY <1>1, <2>1, Zenon DEF TypeOK
<1>2. CASE ~w.fresh /\ Return(TRUE) /\ UNCHANGED kvVars
  BY <1>2, IdleType, Zenon DEF Return, kvVars
<1> QED
  BY <1>1, <1>2, Zenon DEF UpdateKVRocks

\* What FinishMove writes: the list of the shard without its first migration.
LEMMA FinishedMoves ==
  ASSUME TypeOK, FinishMove
  PROVE  \/ /\ w.fresh /\ w.inst = kv /\ w'.fresh /\ w'.pc = "moved"
            /\ kv'.moves = [kv.moves EXCEPT ![w.next] = Tail(kv.moves[w.next])]
         \/ ~w.fresh /\ kv' = kv /\ w'.pc = "idle"
<1> DEFINE s == w.next
           slots == [w.slots EXCEPT ![s] = Dropped(@, Cardinality(Head(w.inst.moves[s]).slots))]
           new == [WithSlots(w.inst, slots) EXCEPT !.moves[s] = Tail(w.inst.moves[s])]
<1>1. w.inst \in KVs /\ s \in Shards /\ w.slots \in SlotMaps /\ w.inst.moves[s] # <<>>
  BY DEF FinishMove, TypeOK, Workers
<1>2. slots \in SlotMaps
  BY <1>1 DEF SlotMaps, Dropped
<1>3. w.inst.moves[s] \in Seq(Migrations)
  BY <1>1 DEF KVs, SlotPlans
<1>4. Tail(w.inst.moves[s]) \in Seq(Migrations)
  BY <1>1, <1>3
<1>5. new.moves = [w.inst.moves EXCEPT ![s] = Tail(w.inst.moves[s])]
  <2> DEFINE published == WithSlots(w.inst, slots)
  <2>1. published \in KVs /\ published.moves = w.inst.moves
    BY <1>1, <1>2, WithSlotsType
  <2> HIDE DEF published
  <2>2. [published EXCEPT !.moves[s] = Tail(w.inst.moves[s])].moves
          = [published.moves EXCEPT ![s] = Tail(w.inst.moves[s])]
    BY <1>1, <1>4, <2>1, WithMovesType
  <2> QED
    BY <2>1, <2>2, Zenon DEF published
<1>6. UpdateKVRocks(new, "moved", slots)
  BY Zenon DEF FinishMove
<1> HIDE DEF slots, new
<1> QED
  BY <1>5, <1>6, UpdateMoves, ZenonT(60)

\* A listed migration is one that the user wrote, and lists only get shorter.
LEMMA PlannedStep ==
  ASSUME SlotsNamedOnce PROVE TypeOK /\ PlannedInv /\ [Next]_vars => PlannedInv'
<1> SUFFICES ASSUME TypeOK, PlannedInv, [Next]_vars PROVE PlannedInv'
  OBVIOUS
<1>1. CASE kv'.moves = kv.moves
  BY <1>1 DEF PlannedInv
<1>2. CASE EnsureCluster
  BY <1>1, <1>2, UpdateMoves, Zenon DEF EnsureCluster
<1>3. CASE Publish
  <2>1. w.inst \in KVs /\ w.slots \in SlotMaps
    BY <1>3 DEF Publish, TypeOK, Workers
  <2> QED
    BY <1>1, <1>3, <2>1, WithSlotsType, UpdateMoves, ZenonT(60) DEF Publish
<1>4. CASE FinishMove
  <2>1. CASE /\ w.inst = kv
             /\ kv'.moves = [kv.moves EXCEPT ![w.next] = Tail(kv.moves[w.next])]
    <3>1. kv.moves \in [Shards -> Seq(Migrations)] /\ kv.moves[w.next] # <<>>
      BY <1>4, <2>1 DEF FinishMove, TypeOK, KVs, SlotPlans
    <3>2. w.next \in Shards
      BY TypeFacts
    <3>3. /\ \A s \in Shards : s # w.next => kv'.moves[s] = kv.moves[s]
          /\ kv'.moves[w.next] = Tail(kv.moves[w.next])
      BY <2>1, <3>1, <3>2
    <3>4. kv.moves[w.next] \in Seq(Migrations)
      BY <3>1, <3>2
    <3>5. \A j \in DOMAIN Tail(kv.moves[w.next]) :
            j + 1 \in DOMAIN kv.moves[w.next] /\ Tail(kv.moves[w.next])[j] = kv.moves[w.next][j + 1]
      BY <3>1, <3>4
    <3>6. \A i, j \in DOMAIN Tail(kv.moves[w.next]) : i # j => i + 1 # j + 1
      BY <3>1, <3>4
    <3> DEFINE rest == Tail(kv.moves[w.next])
    <3>7. \A i, j \in DOMAIN rest : i # j => rest[i].slots \cap rest[j].slots = {}
      <4> SUFFICES ASSUME NEW i \in DOMAIN rest, NEW j \in DOMAIN rest, i # j
                   PROVE  kv.moves[w.next][i + 1].slots \cap kv.moves[w.next][j + 1].slots = {}
        BY <3>5
      <4> QED
        BY <3>2, <3>5, <3>6, Zenon DEF PlannedInv
    <3> HIDE DEF rest
    <3>8. kv'.moves[w.next] = rest
      BY <3>3 DEF rest
    <3> QED
      BY <3>2, <3>3, <3>7, <3>8, Zenon DEF PlannedInv
  <2> QED
    BY <1>1, <1>4, <2>1, FinishedMoves
<1>5. ASSUME NEW new \in Edits, UserEdit(new) PROVE PlannedInv'
  <2>1. kv \in KVs /\ kv' = new
    BY <1>5 DEF UserEdit, TypeOK
  <2>2. ASSUME NEW password \in Passwords, new = [kv EXCEPT !.password = password] PROVE PlannedInv'
    BY <1>1, <2>1, <2>2 DEF KVs
  <2>3. ASSUME NEW config \in Configs, new = [kv EXCEPT !.config = config] PROVE PlannedInv'
    BY <1>1, <2>1, <2>3 DEF KVs
  <2>4. ASSUME NEW plan \in Plans, new = [kv EXCEPT !.moves[plan.shard] = plan.moves]
        PROVE  PlannedInv'
    <3>1. plan.shard \in Shards /\ plan.moves \in Seq(Migrations)
      BY PlansAssumption
    <3>2. kv'.moves = [kv.moves EXCEPT ![plan.shard] = plan.moves]
      BY <2>1, <2>4, <3>1, WithMovesType
    <3>3. kv.moves \in [Shards -> Seq(Migrations)]
      BY <2>1 DEF KVs, SlotPlans
    <3>4. /\ \A s \in Shards : s # plan.shard => kv'.moves[s] = kv.moves[s]
          /\ kv'.moves[plan.shard] = plan.moves
      BY <3>1, <3>2, <3>3
    <3> QED
      BY <3>4 DEF PlannedInv, SlotsNamedOnce
  <2> QED
    BY <2>2, <2>3, <2>4, Zenon DEF Edits
<1>6. CASE UNCHANGED kv
  BY <1>1, <1>6
<1> QED
  BY <1>2, <1>3, <1>4, <1>5, <1>6, Zenon DEF Next, Worker, Reconcile, Ping, EnsureConfig, UpdateConfigMap,
     EnsureMigrate, NextMove, MigrateSlot, CacheSync, ConfigMapSync, Kill, NodeRestart, Outage,
     OutageEnds, vars, kvVars

\* In the beginning no migration is listed.
LEMMA MigrationInit == Init => MigrationInv /\ PlannedInv
<1> SUFFICES ASSUME Init PROVE Migration /\ PlannedInv
  BY DEF MigrationInv
<1>1. w.pc = "idle" /\ \A s \in Shards : kv.moves[s] = <<>>
  BY IdleType DEF Init
<1> QED
  BY <1>1 DEF Migration, PlannedInv

\* A step that moves no slot and leaves the lists alone.
LEMMA MigrationOutside ==
  ASSUME Migration, UNCHANGED ctl, kv'.moves = kv.moves,
         w.pc # "move", w'.pc \in {"migrate", "moved"} => w'.fresh, w'.pc # "move"
  PROVE  Migration'
BY DEF Migration

\* Every step keeps the slots of listed migrations in place.
LEMMA MigrationStep ==
  TypeOK /\ PlannedInv /\ MigrationInv /\ [Next]_vars => MigrationInv'
<1> SUFFICES ASSUME TypeOK, PlannedInv, MigrationInv, [Next]_vars,
                    met' \cap MigrationFaults = {}
             PROVE  Migration'
  BY DEF MigrationInv
<1> USE DEF kvVars, cmVars, faultVars
<1>1. met \subseteq met'
  BY Zenon DEF Next, Worker, Reconcile, Ping, EnsureConfig, UpdateConfigMap, EnsureCluster, Publish,
     EnsureMigrate, FinishMove, NextMove, MigrateSlot, CacheSync, ConfigMapSync, Kill, UserEdit,
     NodeRestart, Outage, OutageEnds, Fault, vars
<1>2. Migration
  BY <1>1 DEF MigrationInv
<1>3. w \in Workers /\ w.next \in Shards /\ ctl \in [Shards -> SUBSET Slots]
  BY TypeFacts
<1>4. kv.moves \in [Shards -> Seq(Migrations)]
  BY DEF TypeOK, KVs, SlotPlans
<1>5. w.pc \in {"migrate", "move", "moved"} => w.fresh /\ w.inst = kv
  BY <1>2, Zenon DEF Migration, TypeOK
<1>6. CASE Reconcile
  <2>1. w' = [Idle EXCEPT !.pc = "ping", !.inst = cache, !.fresh = fresh, !.password = KnownPassword]
    BY <1>6 DEF Reconcile
  <2>2. w'.pc = "ping"
    BY <2>1, IdleType, Zenon DEF Workers
  <2>3. w.pc = "idle" /\ UNCHANGED <<kv, ctl>>
    BY <1>6 DEF Reconcile
  <2> QED
    BY <1>2, <2>2, <2>3, MigrationOutside
<1>7. CASE Ping \/ EnsureConfig \/ UpdateConfigMap
  <2>1. w.pc \in {"ping", "config", "configmap"} /\ UNCHANGED <<kv, ctl>>
    BY <1>7, Zenon DEF Ping, EnsureConfig, UpdateConfigMap
  <2>2. \/ w' = [w EXCEPT !.pc = "config", !.next = 1]
        \/ w' = [w EXCEPT !.pc = "configmap", !.next = 1]
        \/ w' = [w EXCEPT !.pc = "update", !.next = 1, !.password = w.inst.password]
        \/ w' = [w EXCEPT !.next = @ + 1]
        \/ w' = Idle
    BY <1>7, Zenon DEF Ping, EnsureConfig, UpdateConfigMap, Return, Goto
  <2>3. w'.pc \in {w.pc, "config", "configmap", "update", "idle"}
    BY <1>3, <2>2, IdleType, Zenon DEF Workers
  <2>4. w'.pc \notin {"migrate", "move", "moved"}
    BY <2>1, <2>3
  <2> QED
    BY <1>2, <2>1, <2>4, MigrationOutside
<1>8. CASE EnsureCluster
  <2>1. w.pc = "update" /\ w'.pc \in {"publish", "idle"} /\ UNCHANGED <<kv, ctl>>
    BY <1>8, UpdateMoves, Zenon DEF EnsureCluster
  <2> QED
    BY <1>2, <2>1, MigrationOutside
<1>9. CASE Publish
  <2>1. w.inst \in KVs /\ w.slots \in SlotMaps /\ w.pc = "publish" /\ UNCHANGED ctl
    BY <1>9 DEF Publish, TypeOK, Workers
  <2>2. UpdateKVRocks(WithSlots(w.inst, w.slots), "migrate", w.slots)
    BY <1>9 DEF Publish
  <2>3. kv'.moves = kv.moves /\ ((w'.pc = "migrate" /\ w'.fresh) \/ w'.pc = "idle")
    <3>1. WithSlots(w.inst, w.slots).moves = w.inst.moves
      BY <2>1, WithSlotsType
    <3> QED
      BY <2>2, <3>1, UpdateMoves
  <2> QED
    BY <1>2, <2>1, <2>3, MigrationOutside
<1>10. CASE EnsureMigrate
  <2>1. w.pc = "migrate" /\ UNCHANGED <<kv, ctl>>
    BY <1>10, Zenon DEF EnsureMigrate
  <2>2. CASE w' = Idle
    BY <1>2, <2>1, <2>2, IdleType, MigrationOutside
  <2>3. ASSUME NEW s \in Shards, w.inst.moves[s] # <<>>,
               w' = [w EXCEPT !.pc = "move", !.next = s, !.left = Head(w.inst.moves[s]).slots]
        PROVE  Migration'
    <3>1. w'.pc = "move" /\ w'.next = s /\ w'.left = Head(w.inst.moves[s]).slots /\ w'.fresh = w.fresh
      BY <1>3, <2>3, Zenon DEF Workers
    <3>2. w.fresh /\ w.inst = kv
      BY <1>5, <2>1
    <3>3. kv.moves[s] \in Seq(Migrations) /\ kv.moves[s] # <<>>
      BY <1>4, <2>3, <3>2
    <3>4. Head(kv.moves[s]) = kv.moves[s][1] /\ 1 \in DOMAIN kv.moves[s]
      BY <3>3
    <3>5. w'.left \subseteq ctl[s] \cap kv.moves[s][1].slots
      BY <1>2, <2>1, <3>1, <3>2, <3>4, Zenon DEF Migration
    <3> QED
      BY <1>2, <2>1, <3>1, <3>2, <3>5 DEF Migration
  <2> QED
    BY <1>10, <2>2, <2>3, Zenon DEF EnsureMigrate, Return
<1>11. CASE FinishMove
  <2>1. w.pc = "move" /\ UNCHANGED ctl
    BY <1>11, Zenon DEF FinishMove
  <2>2. /\ w'.fresh /\ w'.pc = "moved"
        /\ kv'.moves = [kv.moves EXCEPT ![w.next] = Tail(kv.moves[w.next])]
    BY <1>5, <1>11, <2>1, FinishedMoves
  <2>3. kv.moves[w.next] \in Seq(Migrations) /\ kv.moves[w.next] # <<>>
    BY <1>3, <1>4, <1>5, <2>1 DEF TypeOK
  <2>4. /\ \A s \in Shards : s # w.next => kv'.moves[s] = kv.moves[s]
        /\ kv'.moves[w.next] = Tail(kv.moves[w.next])
    BY <1>3, <1>4, <2>2
  <2>5. \A j \in DOMAIN Tail(kv.moves[w.next]) :
          /\ j + 1 \in DOMAIN kv.moves[w.next] /\ j + 1 # 1
          /\ Tail(kv.moves[w.next])[j] = kv.moves[w.next][j + 1]
    BY <2>3
  <2> DEFINE rest == Tail(kv.moves[w.next])
  <2>6. \A j \in DOMAIN rest : rest[j].slots \subseteq ctl[w.next]
    <3> SUFFICES ASSUME NEW j \in DOMAIN rest
                 PROVE  kv.moves[w.next][j + 1].slots \subseteq ctl[w.next]
      BY <2>5
    <3> QED
      BY <1>2, <1>3, <2>5 DEF Migration
  <2> HIDE DEF rest
  <2>7. kv'.moves[w.next] = rest
    BY <2>4 DEF rest
  <2> QED
    BY <1>2, <2>1, <2>2, <2>4, <2>6, <2>7, Zenon DEF Migration
<1>12. CASE NextMove
  <2>1. w.pc = "moved" /\ UNCHANGED <<kv, ctl>>
    BY <1>12 DEF NextMove
  <2>2. CASE w' = Idle
    BY <1>2, <2>1, <2>2, IdleType, MigrationOutside, Zenon
  <2>3. CASE /\ w.inst.moves[w.next] # <<>>
             /\ w' = [w EXCEPT !.pc = "move", !.left = Head(w.inst.moves[w.next]).slots]
    <3>1. w'.pc = "move" /\ w'.next = w.next /\ w'.left = Head(w.inst.moves[w.next]).slots
          /\ w'.fresh = w.fresh
      BY <1>3, <2>3, Zenon DEF Workers
    <3>2. w.fresh /\ w.inst = kv
      BY <1>5, <2>1
    <3>3. kv.moves[w.next] \in Seq(Migrations) /\ kv.moves[w.next] # <<>>
      BY <1>3, <1>4, <2>3, <3>2
    <3>4. Head(kv.moves[w.next]) = kv.moves[w.next][1] /\ 1 \in DOMAIN kv.moves[w.next]
      BY <3>3, SMTT(60)
    <3>5. w'.left \subseteq ctl[w.next] \cap kv.moves[w.next][1].slots
      BY <1>2, <1>3, <2>1, <3>1, <3>2, <3>4, Zenon DEF Migration
    <3> QED
      BY <1>2, <2>1, <3>1, <3>2, <3>5 DEF Migration
  <2> QED
    BY <1>12, <2>2, <2>3, Zenon DEF NextMove, Return
<1>13. ASSUME NEW slot \in w.left, MigrateSlot(slot) PROVE Migration'
  <2>1. w.pc = "move" /\ UNCHANGED kv /\ slot \in ctl[w.next]
    BY <1>2, <1>13 DEF MigrateSlot, Migration
  <2>2. Moved(slot) /\ w' = [w EXCEPT !.left = @ \ {slot}]
    BY <1>13, <2>1, Zenon DEF MigrateSlot, Fault, MigrationFaults
  <2>3. w'.pc = "move" /\ w'.next = w.next /\ w'.left = w.left \ {slot} /\ w'.fresh = w.fresh
    BY <1>3, <2>1, <2>2, Zenon DEF Workers
  <2> DEFINE to == Head(w.inst.moves[w.next]).shard
  <2>4. ctl' = [ctl EXCEPT ![w.next] = @ \ {slot}, ![to] = @ \cup {slot}]
    BY <2>2 DEF Moved
  <2> HIDE DEF to
  <2>5. /\ ctl[w.next] \ {slot} \subseteq ctl'[w.next]
        /\ \A s \in Shards : s # w.next => ctl[s] \subseteq ctl'[s]
    BY <1>3, <2>4
  <2>6. slot \in kv.moves[w.next][1].slots
    BY <1>2, <2>1 DEF Migration
  <2>7. 1 \in DOMAIN kv.moves[w.next]
    <3>1. kv.moves[w.next] \in Seq(Migrations) /\ kv.moves[w.next] # <<>>
      BY <1>3, <1>4, <1>5, <2>1 DEF TypeOK
    <3> QED
      BY <3>1
  <2>8. \A j \in DOMAIN kv.moves[w.next] : j # 1 => slot \notin kv.moves[w.next][j].slots
    BY <1>3, <2>6, <2>7, Zenon DEF PlannedInv
  <2>9. \A j \in DOMAIN kv.moves[w.next] : j # 1 => kv.moves[w.next][j].slots \subseteq ctl'[w.next]
    BY <1>2, <1>3, <2>5, <2>8 DEF Migration
  <2>10. w'.left \subseteq ctl'[w.next] \cap kv.moves[w.next][1].slots
    BY <1>2, <2>1, <2>3, <2>5, Zenon DEF Migration
  <2>11. \A s \in Shards : s # w.next => \A j \in DOMAIN kv.moves[s] :
           kv.moves[s][j].slots \subseteq ctl'[s]
    BY <1>2, <2>5 DEF Migration
  <2> QED
    BY <1>2, <2>1, <2>3, <2>9, <2>10, <2>11 DEF Migration
<1>14. ASSUME NEW new \in Edits, UserEdit(new) PROVE Migration'
  <2>1. w' = [w EXCEPT !.fresh = FALSE] /\ kv' = new /\ UNCHANGED ctl /\ kv \in KVs
    BY <1>14 DEF UserEdit, TypeOK
  <2>2. w.pc \notin {"migrate", "move", "moved"}
    BY <1>14 DEF UserEdit, MigrationFaults
  <2>3. w'.pc = w.pc
    BY <1>3, <2>1, Zenon DEF Workers
  <2>4. CASE kv'.moves = kv.moves
    BY <1>2, <2>1, <2>2, <2>3, <2>4, MigrationOutside
  <2>5. ASSUME NEW plan \in Plans, new = [kv EXCEPT !.moves[plan.shard] = plan.moves],
               \A j \in DOMAIN plan.moves : plan.moves[j].slots \subseteq ctl[plan.shard]
        PROVE  Migration'
    <3>1. plan.shard \in Shards /\ plan.moves \in Seq(Migrations)
      BY PlansAssumption
    <3>2. kv'.moves = [kv.moves EXCEPT ![plan.shard] = plan.moves]
      BY <2>1, <2>5, <3>1, WithMovesType
    <3>3. /\ \A s \in Shards : s # plan.shard => kv'.moves[s] = kv.moves[s]
          /\ kv'.moves[plan.shard] = plan.moves
      BY <1>4, <3>1, <3>2
    <3> QED
      BY <1>2, <2>1, <2>2, <2>3, <2>5, <3>3 DEF Migration
  <2>6. ASSUME NEW password \in Passwords, new = [kv EXCEPT !.password = password]
        PROVE  kv'.moves = kv.moves
    BY <2>1, <2>6 DEF KVs
  <2>7. ASSUME NEW config \in Configs, new = [kv EXCEPT !.config = config]
        PROVE  kv'.moves = kv.moves
    BY <2>1, <2>7 DEF KVs
  <2> QED
    BY <2>4, <2>5, <2>6, <2>7, Zenon DEF Edits
<1>15. ~Kill
  BY DEF Kill, Fault, MigrationFaults
<1>16. CASE UNCHANGED <<kv, ctl, w>>
  BY <1>2, <1>16 DEF Migration
<1> QED
  BY <1>6, <1>7, <1>8, <1>9, <1>10, <1>11, <1>12, <1>13, <1>14, <1>15, <1>16, Zenon
     DEF Next, Worker, CacheSync, ConfigMapSync, NodeRestart, Outage, OutageEnds, vars

\* A slot is asked for only from the shard that has it, for every number of shards and
\* slots and all migrations that name a slot once, until a migration is interrupted, a
\* reply is lost or an edit makes the Update after a migration fail.
THEOREM MigrationSafe ==
  ASSUME SlotsNamedOnce PROVE Spec => []MovesOnce
<1>1. MigrationInv => MovesOnce
  BY DEF MigrationInv, Migration, MigrationFaults, MovesOnce
<1>2. TypeOK /\ PlannedInv /\ [Next]_vars => PlannedInv'
  BY PlannedStep
<1> QED
  BY TypeCorrect, MigrationInit, <1>2, MigrationStep, <1>1, PTL DEF Spec

-----------------------------------------------------------------------------
(* Lists of slots *)

INSTANCE FiniteSetTheorems

\* A set of natural numbers has a least one: induction, as the proofs below use it.
LEMMA LeastNat ==
  ASSUME NEW T, T \subseteq Nat, T # {}
  PROVE  \E n \in T : \A m \in T : n <= m
<1>1. PICK n \in T : \A m \in T : <<m, n>> \notin OpToRel(<, Nat)
  BY NatLessThanWellFounded, WFMin, Zenon
<1>2. OpToRel(<, Nat) = {p \in Nat \X Nat : p[1] < p[2]}
  BY Zenon DEF OpToRel
<1>3. \A m \in T : <<m, n>> \notin {p \in Nat \X Nat : p[1] < p[2]}
  BY <1>1, <1>2, Zenon
<1>4. ASSUME NEW m \in T PROVE n <= m
  <2>1. m \in Nat /\ n \in Nat /\ <<m, n>> \notin {p \in Nat \X Nat : p[1] < p[2]}
    BY <1>3
  <2> QED
    BY <2>1
<1> QED
  BY <1>4

\* A function on 1..n is a sequence of length n.
LEMMA IsSequence ==
  ASSUME NEW S, NEW n \in Nat, NEW f \in [1..n -> S]
  PROVE  f \in Seq(S) /\ Len(f) = n
OBVIOUS

\* g[i] is the state of a loop after i iterations: a is the first, F the next one.
IsLoop(g, n, a, F) == \A i \in 1..n : g[i] = IF i = 1 THEN a ELSE F[<<g[i - 1], i>>]

\* A loop of n iterations has a state after each of them.
LEMMA LoopExists ==
  ASSUME NEW A, NEW a \in A, NEW n \in Nat, NEW F \in [A \X (1..n) -> A]
  PROVE  \E g \in [1..n -> A] : IsLoop(g, n, a, F)
<1> DEFINE Runs(m, g) == /\ g \in [1..m -> A]
                         /\ \A i \in 1..m : g[i] = IF i = 1 THEN a ELSE F[<<g[i - 1], i>>]
           Bad == {m \in 0..n : ~\E g : Runs(m, g)}
<1>1. Bad = {}
  <2> SUFFICES ASSUME Bad # {} PROVE FALSE
    OBVIOUS
  <2>1. PICK m \in Bad : \A k \in Bad : m <= k
    <3>1. Bad \subseteq Nat
      OBVIOUS
    <3> HIDE DEF Bad
    <3> QED
      BY <3>1, LeastNat, Zenon
  <2>2. m \in 0..n /\ ~\E g : Runs(m, g)
    OBVIOUS
  <2>3. m # 0
    <3>1. Runs(0, [i \in 1..0 |-> a])
      OBVIOUS
    <3> QED
      BY <2>2, <3>1, Zenon
  <2>4. m - 1 \in 0..n /\ m - 1 \notin Bad
    <3>1. m - 1 \in 0..n /\ ~(m <= m - 1)
      BY <2>2, <2>3, SMTT(60)
    <3> QED
      BY <2>1, <3>1, Zenon
  <2>5. PICK g : Runs(m - 1, g)
    BY <2>4, Zenon
  <2> DEFINE last == IF m = 1 THEN a ELSE F[<<g[m - 1], m>>]
             h == [i \in 1..m |-> IF i = m THEN last ELSE g[i]]
  <2>6. last \in A
    <3>1. CASE m = 1
      BY <3>1
    <3>2. CASE m # 1
      <4>1. m - 1 \in 1..m - 1 /\ m \in 1..n
        BY <2>2, <2>3, <3>2, SMTT(30)
      <4>2. <<g[m - 1], m>> \in A \X (1..n)
        BY <2>5, <4>1, Zenon
      <4> QED
        BY <3>2, <4>2
    <3> QED
      BY <3>1, <3>2
  <2>7. h \in [1..m -> A]
    BY <2>2, <2>5, <2>6
  <2>8. ASSUME NEW i \in 1..m PROVE h[i] = IF i = 1 THEN a ELSE F[<<h[i - 1], i>>]
    <3>1. CASE i = m
      <4>1. i # 1 => i - 1 \in 1..m /\ i - 1 # m
        BY <2>2, <3>1
      <4> QED
        BY <3>1, <4>1, Zenon
    <3>2. CASE i # m
      <4>1. i \in 1..m - 1 /\ (i # 1 => i - 1 \in 1..m /\ i - 1 # m)
        BY <2>2, <3>2, SMTT(60)
      <4>2. h[i] = g[i] /\ (i # 1 => h[i - 1] = g[i - 1])
        BY <3>2, <4>1, Zenon
      <4> QED
        BY <2>5, <4>1, <4>2, Zenon
    <3> QED
      BY <3>1, <3>2, Zenon
  <2>9. Runs(m, h)
    BY <2>7, <2>8, Zenon
  <2> QED
    BY <2>2, <2>9, Zenon
<1>2. n \notin Bad /\ n \in 0..n
  BY <1>1
<1>3. PICK g : Runs(n, g)
  BY <1>2
<1> QED
  BY <1>3, Zenon DEF IsLoop

\* Every set of slots can be sorted: the position of a slot is the number of slots
\* up to it.
LEMMA SortedExists ==
  ASSUME NEW S \in SUBSET Nat, IsFiniteSet(S)
  PROVE  /\ Cardinality(S) \in Nat
         /\ Sorted(S) \in [1..Cardinality(S) -> S]
         /\ \A i \in 2..Cardinality(S) : Sorted(S)[i - 1] < Sorted(S)[i]
<1> DEFINE n == Cardinality(S)
           UpTo(x) == {y \in S : y <= x}
           rank == [x \in S |-> Cardinality(UpTo(x))]
<1>1. n \in Nat
  BY FS_CardinalityType, SMTT(60)
<1>2. ASSUME NEW x \in S PROVE IsFiniteSet(UpTo(x)) /\ rank[x] \in 1..n
  <2>1. UpTo(x) \in SUBSET S /\ x \in UpTo(x)
    OBVIOUS
  <2> HIDE DEF UpTo
  <2>2. IsFiniteSet(UpTo(x)) /\ Cardinality(UpTo(x)) <= n
    BY <2>1, FS_Subset, Zenon
  <2>3. Cardinality(UpTo(x)) \in Nat
    BY <2>2, FS_CardinalityType, Zenon
  <2>4. Cardinality(UpTo(x)) # 0
    BY <2>1, <2>2, FS_EmptySet, Zenon
  <2> QED
    BY <1>1, <2>2, <2>3, <2>4, SMTT(60)
<1>3. ASSUME NEW x \in S, NEW y \in S, x < y PROVE rank[x] < rank[y]
  <2>1. UpTo(x) \in SUBSET UpTo(y) /\ UpTo(x) # UpTo(y)
    <3>1. y \in UpTo(y) /\ y \notin UpTo(x)
      <4>1. x \in Nat /\ y \in Nat /\ y <= y /\ ~(y <= x)
        BY <1>3
      <4> QED
        BY <4>1, Zenon
    <3>2. ASSUME NEW z \in S, z <= x PROVE z <= y
      <4>1. x \in Nat /\ y \in Nat /\ z \in Nat
        OBVIOUS
      <4> QED
        BY <1>3, <3>2, <4>1
    <3> QED
      BY <3>1, <3>2, Zenon
  <2> HIDE DEF UpTo
  <2>2. IsFiniteSet(UpTo(y)) /\ rank[x] \in 1..n /\ rank[y] \in 1..n
    BY <1>2
  <2>3. Cardinality(UpTo(x)) <= Cardinality(UpTo(y)) /\ Cardinality(UpTo(y)) # Cardinality(UpTo(x))
    BY <2>1, <2>2, FS_Subset, Zenon
  <2> QED
    BY <2>2, <2>3
<1> HIDE DEF UpTo, rank
<1>4. rank \in [S -> 1..n]
  <2>1. rank = [x \in S |-> rank[x]]
    BY DEF rank
  <2> QED
    BY <1>2, <2>1
<1>5. rank \in Injection(S, 1..n)
  <2>1. ASSUME NEW x \in S, NEW y \in S, rank[x] = rank[y] PROVE x = y
    <3>1. rank[x] \in Nat /\ rank[y] \in Nat /\ x \in Nat /\ y \in Nat
      BY <1>2
    <3> QED
      BY <1>3, <2>1, <3>1
  <2> QED
    BY <1>4, <2>1, Zenon DEF Injection, IsInjective
<1>6. rank \in Surjection(S, 1..n)
  <2>1. IsFiniteSet(1..n) /\ Cardinality(1..n) = n
    BY <1>1, FS_Interval
  <2> QED
    BY <1>5, <2>1, FS_Injection, Zenon
<1>7. \A i \in 1..n : \E x \in S : rank[x] = i
  BY <1>6, Zenon DEF Surjection
<1> DEFINE s == [i \in 1..n |-> CHOOSE x \in S : rank[x] = i]
<1>8. ASSUME NEW i \in 1..n PROVE s[i] \in S /\ rank[s[i]] = i
  BY <1>7
<1>9. s \in [1..n -> S]
  BY <1>8
<1>10. ASSUME NEW i \in 2..n PROVE s[i - 1] < s[i]
  <2>1. i \in 1..n /\ i - 1 \in 1..n /\ i \in Nat
    BY <1>1
  <2>2. s[i] \in S /\ s[i - 1] \in S /\ rank[s[i]] = i /\ rank[s[i - 1]] = i - 1
    BY <1>8, <2>1
  <2> HIDE DEF s
  <2>3. s[i] # s[i - 1] /\ ~(s[i] < s[i - 1])
    <3>1. i # i - 1 /\ ~(i < i - 1)
      BY <2>1
    <3> QED
      BY <1>3, <2>2, <3>1, Zenon
  <2>4. s[i] \in Nat /\ s[i - 1] \in Nat
    BY <2>2, Zenon
  <2> QED
    BY <2>3, <2>4
<1> HIDE DEF s, n
<1>11. \E r \in [1..n -> S] : \A i \in 2..n : r[i - 1] < r[i]
  BY <1>9, <1>10, Zenon
<1> QED
  BY <1>1, <1>11, Zenon DEF Sorted, n

\* What ShortestRanges says of one list of ranges.
Apart(r) ==
  /\ \A j \in DOMAIN r : Len(r[j]) = 1 \/ (Len(r[j]) = 2 /\ r[j][1] < r[j][2])
  /\ \A j \in DOMAIN r : j > 1 => r[j][1] > EndOf(r[j - 1]) + 1

RangeLists == Seq(Seq(Nat))

\* The list of ranges r ends before the slot a, and not next to it.
EndsBefore(r, a) == r # <<>> => a > EndOf(r[Len(r)]) + 1

\* A range as it is written.
LEMMA RangeFacts ==
  ASSUME NEW a \in Nat, NEW b \in Nat, a <= b
  PROVE  /\ RangeOf(a, b) \in Seq(Nat)
         /\ Len(RangeOf(a, b)) = 1 \/ (Len(RangeOf(a, b)) = 2 /\ RangeOf(a, b)[1] < RangeOf(a, b)[2])
         /\ RangeOf(a, b)[1] = a /\ EndOf(RangeOf(a, b)) = b
<1>1. CASE a = b
  BY <1>1 DEF RangeOf, EndOf
<1>2. CASE a # b
  BY <1>2 DEF RangeOf, EndOf
<1> QED
  BY <1>1, <1>2, Zenon

\* Another range after a gap.
LEMMA CloseRange ==
  ASSUME NEW r \in RangeLists, Apart(r), NEW a \in Nat, NEW b \in Nat, a <= b, EndsBefore(r, a)
  PROVE  LET q == Append(r, RangeOf(a, b))
         IN /\ q \in RangeLists /\ Apart(q)
            /\ SlotsToInt(q) = SlotsToInt(r) \cup (a..b)
            /\ \A c \in Nat : c > b + 1 => EndsBefore(q, c)
<1> DEFINE e == RangeOf(a, b)
           q == Append(r, e)
<1>1. /\ e \in Seq(Nat)
      /\ Len(e) = 1 \/ (Len(e) = 2 /\ e[1] < e[2])
      /\ e[1] = a /\ EndOf(e) = b
  BY RangeFacts, Zenon
<1> HIDE DEF e
<1>2. /\ q \in RangeLists /\ Len(r) \in Nat
      /\ Len(q) = Len(r) + 1 /\ DOMAIN q = 1..Len(r) + 1 /\ DOMAIN r = 1..Len(r)
      /\ q[Len(r) + 1] = e /\ \A j \in 1..Len(r) : q[j] = r[j]
  BY <1>1 DEF RangeLists
<1> HIDE DEF q
<1>3. Apart(q)
  <2>1. ASSUME NEW j \in DOMAIN q PROVE Len(q[j]) = 1 \/ (Len(q[j]) = 2 /\ q[j][1] < q[j][2])
    <3>1. CASE j = Len(r) + 1
      BY <1>1, <1>2, <3>1, Zenon
    <3>2. CASE j # Len(r) + 1
      <4>1. j \in 1..Len(r)
        BY <1>2, <3>2, SMTT(30)
      <4> QED
        BY <1>2, <4>1, Zenon DEF Apart
    <3> QED
      BY <3>1, <3>2
  <2>2. ASSUME NEW j \in DOMAIN q, j > 1 PROVE q[j][1] > EndOf(q[j - 1]) + 1
    <3>1. CASE j = Len(r) + 1
      <4>1. r # <<>> /\ j - 1 = Len(r) /\ Len(r) \in 1..Len(r)
        BY <1>2, <2>2, <3>1 DEF RangeLists
      <4>2. a > EndOf(r[Len(r)]) + 1
        BY <4>1, Zenon DEF EndsBefore
      <4>3. q[j] = e /\ q[j - 1] = r[Len(r)]
        BY <1>2, <3>1, <4>1, Zenon
      <4> QED
        BY <1>1, <4>2, <4>3, Zenon
    <3>2. CASE j # Len(r) + 1
      <4>1. j \in 1..Len(r) /\ j - 1 \in 1..Len(r)
        BY <1>2, <2>2, <3>2, SMTT(30)
      <4> QED
        BY <1>2, <2>2, <4>1, Zenon DEF Apart
    <3> QED
      BY <3>1, <3>2
  <2> QED
    BY <2>1, <2>2, Zenon DEF Apart
<1>4. SlotsToInt(q) = SlotsToInt(r) \cup (a..b)
  <2>1. ASSUME NEW x PROVE x \in SlotsToInt(q) <=> \E j \in 1..Len(r) + 1 : x \in q[j][1]..EndOf(q[j])
    BY <1>2, Zenon DEF SlotsToInt
  <2>2. ASSUME NEW x PROVE x \in SlotsToInt(r) <=> \E j \in 1..Len(r) : x \in r[j][1]..EndOf(r[j])
    BY <1>2, Zenon DEF SlotsToInt
  <2>3. \A j : j \in 1..Len(r) + 1 <=> j \in 1..Len(r) \/ j = Len(r) + 1
    BY <1>2
  <2>4. ASSUME NEW x PROVE x \in SlotsToInt(q) <=> x \in SlotsToInt(r) \/ x \in a..b
    <3>1. x \in SlotsToInt(q) <=> \/ \E j \in 1..Len(r) : x \in q[j][1]..EndOf(q[j])
                                  \/ x \in e[1]..EndOf(e)
      BY <1>2, <2>1, <2>3, Zenon
    <3>2. (\E j \in 1..Len(r) : x \in q[j][1]..EndOf(q[j])) <=> x \in SlotsToInt(r)
      BY <1>2, <2>2, Zenon
    <3> QED
      BY <1>1, <3>1, <3>2, Zenon
  <2> QED
    BY <2>4, Zenon
<1>5. ASSUME NEW c \in Nat, c > b + 1 PROVE EndsBefore(q, c)
  BY <1>1, <1>2, <1>5, Zenon DEF EndsBefore
<1> QED
  BY <1>2, <1>3, <1>4, <1>5, Zenon DEF q, e

Accs == [head : Nat, ranges : RangeLists]

\* After the first slots up to slot the loop has their ranges: all of them are
\* closed but the last, which begins at head.
LoopInv(acc, slot, seen) ==
  /\ acc \in Accs
  /\ Apart(acc.ranges) /\ EndsBefore(acc.ranges, acc.head)
  /\ acc.head <= slot
  /\ SlotsToInt(acc.ranges) \cup (acc.head..slot) = seen

\* An iteration of the loop.
LEMMA NextSlotFacts ==
  ASSUME NEW acc, NEW prev \in Nat, NEW slot \in Nat, prev < slot, NEW seen, LoopInv(acc, prev, seen)
  PROVE  LoopInv(NextSlot(acc, prev, slot), slot, seen \cup {slot})
<1>1. /\ acc.head \in Nat /\ acc.ranges \in RangeLists /\ acc.head <= prev
      /\ Apart(acc.ranges) /\ EndsBefore(acc.ranges, acc.head)
      /\ SlotsToInt(acc.ranges) \cup (acc.head..prev) = seen
  BY Zenon DEF LoopInv, Accs
<1>2. CASE slot - prev = 1
  <2>1. NextSlot(acc, prev, slot) = acc
    BY <1>2, Zenon DEF NextSlot
  <2>2. acc.head <= slot /\ acc.head..slot = (acc.head..prev) \cup {slot}
    BY <1>1, <1>2
  <2>3. SlotsToInt(acc.ranges) \cup (acc.head..slot) = seen \cup {slot}
    BY <1>1, <2>2, Zenon
  <2> QED
    BY <1>1, <2>1, <2>2, <2>3, Zenon DEF LoopInv
<1>3. CASE slot - prev # 1
  <2> DEFINE q == Append(acc.ranges, RangeOf(acc.head, prev))
  <2>1. /\ q \in RangeLists /\ Apart(q)
        /\ SlotsToInt(q) = SlotsToInt(acc.ranges) \cup (acc.head..prev)
        /\ \A c \in Nat : c > prev + 1 => EndsBefore(q, c)
    BY <1>1, CloseRange, Zenon
  <2> HIDE DEF q
  <2>2. slot > prev + 1 /\ slot <= slot /\ slot..slot = {slot}
    BY <1>3
  <2>3. NextSlot(acc, prev, slot) = [head |-> slot, ranges |-> q]
    BY <1>3, Zenon DEF NextSlot, q
  <2>4. [head |-> slot, ranges |-> q] \in Accs
    BY <2>1 DEF Accs
  <2>5. SlotsToInt(q) \cup (slot..slot) = seen \cup {slot}
    BY <1>1, <2>1, <2>2, Zenon
  <2>6. EndsBefore(q, slot)
    BY <2>1, <2>2, Zenon
  <2>7. [head |-> slot, ranges |-> q].head = slot /\ [head |-> slot, ranges |-> q].ranges = q
    OBVIOUS
  <2> QED
    BY <2>1, <2>2, <2>3, <2>4, <2>5, <2>6, <2>7, Zenon DEF LoopInv
<1> QED
  BY <1>2, <1>3

\* The sorted list of a set of slots has each of them.
LEMMA SortedFacts ==
  ASSUME NEW S \in SUBSET Slots, S # {}
  PROVE  LET s == Sorted(S)
             n == Len(s)
         IN /\ n \in Nat \ {0} /\ s \in [1..n -> Nat] /\ s \in Seq(Nat)
            /\ \A i \in 2..n : s[i - 1] < s[i]
            /\ {s[k] : k \in 1..n} = S
<1> DEFINE n == Cardinality(S)
           s == Sorted(S)
<1>1. S \in SUBSET Nat /\ IsFiniteSet(S)
  <2>1. S \in SUBSET (0..MaxSlotID) /\ MaxSlotID \in Int /\ 0 \in Int
    <3>1. S \in SUBSET (0..MaxSlotID)
      BY SlotsAssumption, Zenon
    <3>2. MaxSlotID \in Int /\ 0 \in Int
      BY DEF MaxSlotID
    <3> QED
      BY <3>1, <3>2, Zenon
  <2>2. IsFiniteSet(0..MaxSlotID)
    BY <2>1, FS_Interval, Zenon
  <2>3. IsFiniteSet(S)
    BY <2>1, <2>2, FS_Subset, Zenon
  <2>4. 0..MaxSlotID \subseteq Nat
    BY <2>1
  <2> QED
    BY <2>1, <2>3, <2>4, Zenon
<1>2. /\ n \in Nat /\ n # 0
      /\ s \in [1..n -> S]
      /\ \A i \in 2..n : s[i - 1] < s[i]
  BY <1>1, SortedExists, FS_EmptySet, Zenon
<1> HIDE DEF s, n
<1>3. s \in [1..n -> Nat] /\ s \in Seq(Nat) /\ Len(s) = n
  <2>1. s \in [1..n -> Nat]
    BY <1>1, <1>2, Zenon
  <2> QED
    BY <1>2, <2>1, IsSequence, Zenon
<1>4. ASSUME NEW i \in 1..n, NEW j \in 1..n, i < j PROVE s[i] < s[j]
  <2> DEFINE Bad == {k \in 1..n : i < k /\ ~(s[i] < s[k])}
  <2> SUFFICES ASSUME Bad # {} PROVE FALSE
    BY <1>4
  <2>1. Bad \subseteq Nat
    BY <1>2
  <2>2. PICK k \in Bad : \A m \in Bad : k <= m
    <3> HIDE DEF Bad
    <3> QED
      BY <2>1, LeastNat, Zenon
  <2>3. k \in 1..n /\ i < k /\ ~(s[i] < s[k]) /\ k \in 2..n /\ k - 1 \in 1..n /\ ~(k <= k - 1)
    BY <1>2
  <2>4. s[k - 1] < s[k]
    BY <1>2, <2>3, Zenon
  <2>5. s[i] \in Nat /\ s[k] \in Nat /\ s[k - 1] \in Nat
    BY <1>3, <2>3, Zenon
  <2>6. k - 1 \notin Bad
    BY <2>2, <2>3, Zenon
  <2>7. CASE i = k - 1
    BY <2>3, <2>4, <2>7
  <2>8. CASE i # k - 1
    <3>1. i < k - 1
      BY <1>2, <2>3, <2>8, SMTT(60)
    <3>2. s[i] < s[k - 1]
      BY <2>3, <2>6, <3>1, Zenon
    <3> QED
      BY <2>3, <2>4, <2>5, <3>2, SMTT(60)
  <2> QED
    BY <2>7, <2>8
<1>5. s \in Injection(1..n, S)
  <2>1. ASSUME NEW i \in 1..n, NEW j \in 1..n, s[i] = s[j] PROVE i = j
    <3>1. s[i] \in Nat /\ s[j] \in Nat /\ i \in Nat /\ j \in Nat
      BY <1>2, <1>3
    <3> QED
      BY <1>4, <2>1, <3>1, SMTT(60)
  <2> QED
    BY <1>2, <2>1, Zenon DEF Injection, IsInjective
<1>6. s \in Surjection(1..n, S)
  <2>1. Cardinality(1..n) = Cardinality(S)
    BY <1>2, FS_Interval DEF n
  <2> QED
    BY <1>1, <1>5, <2>1, FS_Injection, Zenon
<1>7. {s[k] : k \in 1..n} = S
  BY <1>2, <1>6, Zenon DEF Surjection
<1> QED
  BY <1>2, <1>3, <1>7, Zenon DEF s

\* SlotsToString writes ranges that are apart, and SlotsToInt reads the same slots.
LEMMA SlotsToStringFacts ==
  ASSUME NEW S \in SUBSET Slots
  PROVE  /\ SlotsToString(S) \in RangeLists
         /\ Apart(SlotsToString(S))
         /\ SlotsToInt(SlotsToString(S)) = S
<1>1. CASE S = {}
  <2>1. SlotsToString(S) = <<>>
    BY <1>1, Zenon DEF SlotsToString
  <2>2. <<>> \in RangeLists /\ Apart(<<>>)
    BY DEF RangeLists, Apart
  <2>3. SlotsToInt(<<>>) = {}
    BY DEF SlotsToInt
  <2> QED
    BY <1>1, <2>1, <2>2, <2>3, Zenon
<1>2. CASE S # {}
  <2> DEFINE s == Sorted(S)
             n == Len(s)
             first == [head |-> s[1], ranges |-> <<>>]
             Runs(g) == g = [i \in 1..n |-> IF i = 1 THEN first ELSE NextSlot(g[i - 1], s[i - 1], s[i])]
             loop == CHOOSE g : Runs(g)
             Seen(i) == {s[k] : k \in 1..i}
  <2>1. /\ n \in Nat \ {0} /\ s \in [1..n -> Nat] /\ s \in Seq(Nat)
        /\ \A i \in 2..n : s[i - 1] < s[i]
        /\ Seen(n) = S
    BY <1>2, SortedFacts, Zenon
  <2>2. SlotsToString(S) = Append(loop[n].ranges, RangeOf(loop[n].head, s[n]))
    BY <1>2, Zenon DEF SlotsToString
  <2> HIDE DEF s
  <2>3. first \in Accs
    BY <2>1 DEF Accs, RangeLists
  <2>4. \E g : Runs(g)
    <3> DEFINE F == [x \in Accs \X (1..n) |-> IF x[2] = 1 THEN first ELSE NextSlot(x[1], s[x[2] - 1], s[x[2]])]
    <3>1. ASSUME NEW acc \in Accs, NEW i \in 2..n PROVE NextSlot(acc, s[i - 1], s[i]) \in Accs
      <4>1. s[i - 1] \in Nat /\ s[i] \in Nat
        BY <2>1
      <4>2. RangeOf(acc.head, s[i - 1]) \in Seq(Nat)
        BY <4>1 DEF RangeOf, Accs
      <4> QED
        BY <4>1, <4>2, SMTT(30) DEF NextSlot, Accs, RangeLists
    <3>2. F \in [Accs \X (1..n) -> Accs]
      <4>1. ASSUME NEW x \in Accs \X (1..n) PROVE F[x] \in Accs
        <5>1. x[1] \in Accs /\ x[2] \in 1..n
          OBVIOUS
        <5>2. x[2] # 1 => x[2] \in 2..n
          BY <2>1, <5>1, SMTT(60)
        <5> QED
          BY <2>3, <3>1, <5>1, <5>2, Zenon
      <4> QED
        BY <4>1, Zenon
    <3>3. ASSUME NEW acc \in Accs, NEW i \in 1..n, i # 1 PROVE F[<<acc, i>>] = NextSlot(acc, s[i - 1], s[i])
      BY <3>3
    <3> HIDE DEF F, first
    <3>4. PICK g \in [1..n -> Accs] : IsLoop(g, n, first, F)
      <4>1. n \in Nat
        BY <2>1
      <4> QED
        BY <2>3, <3>2, <4>1, LoopExists, Zenon
    <3>5. ASSUME NEW i \in 1..n
          PROVE  g[i] = IF i = 1 THEN first ELSE NextSlot(g[i - 1], s[i - 1], s[i])
      <4>1. i # 1 => g[i - 1] \in Accs
        <5>1. i # 1 => i - 1 \in 1..n
          BY <2>1
        <5> QED
          BY <5>1, Zenon
      <4> QED
        BY <3>3, <3>4, <4>1, Zenon DEF IsLoop
    <3>6. Runs(g)
      BY <3>5, Zenon
    <3> QED
      BY <3>6, SMTT(60)
  <2>5. Runs(loop)
    BY <2>4, Zenon
  <2> HIDE DEF loop
  <2>6. ASSUME NEW i \in 1..n PROVE loop[i] = IF i = 1 THEN first ELSE NextSlot(loop[i - 1], s[i - 1], s[i])
    BY <2>5, Zenon
  <2> HIDE DEF Runs
  <2>7. ASSUME NEW i \in 1..n PROVE LoopInv(loop[i], s[i], Seen(i))
    <3> DEFINE Bad == {k \in 1..n : ~LoopInv(loop[k], s[k], Seen(k))}
    <3> SUFFICES ASSUME Bad # {} PROVE FALSE
      BY Zenon
    <3>1. Bad \subseteq Nat
      BY <2>1
    <3>2. PICK k \in Bad : \A m \in Bad : k <= m
      <4> HIDE DEF Bad
      <4> QED
        BY <3>1, LeastNat, Zenon
    <3>3. k \in 1..n /\ ~LoopInv(loop[k], s[k], Seen(k))
      BY Zenon
    <3>4. CASE k = 1
      <4>1. loop[k] = first /\ first.head = s[1] /\ first.ranges = <<>>
        BY <2>6, <3>3, <3>4, Zenon
      <4>2. s[1] \in Nat /\ s[1] <= s[1] /\ s[1]..s[1] = {s[1]}
        BY <2>1
      <4>3. Seen(1) = {s[1]}
        <5>1. 1..1 = {1}
          BY SMTT(60)
        <5> QED
          BY <5>1
      <4>4. Apart(<<>>) /\ EndsBefore(<<>>, s[1]) /\ SlotsToInt(<<>>) = {}
        BY DEF Apart, EndsBefore, SlotsToInt
      <4> HIDE DEF first, Seen
      <4>5. LoopInv(first, s[1], Seen(1))
        BY <2>3, <4>1, <4>2, <4>3, <4>4, Zenon DEF LoopInv
      <4> QED
        BY <3>3, <3>4, <4>1, <4>5, Zenon
    <3>5. CASE k # 1
      <4>1. k \in 2..n /\ k - 1 \in 1..n /\ ~(k <= k - 1) /\ 1..k = (1..k - 1) \cup {k}
        BY <2>1, <3>3, <3>5, SMTT(60)
      <4>2. LoopInv(loop[k - 1], s[k - 1], Seen(k - 1))
        BY <3>2, <4>1, Zenon
      <4>3. s[k] \in Nat /\ s[k - 1] \in Nat /\ s[k - 1] < s[k]
        BY <2>1, <3>3, <4>1, Zenon
      <4>4. Seen(k) = Seen(k - 1) \cup {s[k]}
        BY <4>1, Zenon
      <4>5. loop[k] = NextSlot(loop[k - 1], s[k - 1], s[k])
        BY <2>6, <3>3, <3>5, Zenon
      <4> HIDE DEF Seen, s
      <4>6. LoopInv(NextSlot(loop[k - 1], s[k - 1], s[k]), s[k], Seen(k - 1) \cup {s[k]})
        BY <4>2, <4>3, NextSlotFacts
      <4> QED
        BY <3>3, <4>4, <4>5, <4>6, Zenon
    <3> QED
      BY <3>4, <3>5, Zenon
  <2> DEFINE end == loop[n]
  <2>8. LoopInv(end, s[n], S) /\ s[n] \in Nat
    <3>1. n \in 1..n
      BY <2>1
    <3> QED
      BY <2>1, <2>7, <3>1, Zenon
  <2> HIDE DEF end
  <2>9. /\ end.head \in Nat /\ end.ranges \in RangeLists /\ end.head <= s[n]
        /\ Apart(end.ranges) /\ EndsBefore(end.ranges, end.head)
        /\ SlotsToInt(end.ranges) \cup (end.head..s[n]) = S
    BY <2>8, Zenon DEF LoopInv, Accs
  <2> DEFINE q == Append(end.ranges, RangeOf(end.head, s[n]))
  <2>10. q \in RangeLists /\ Apart(q) /\ SlotsToInt(q) = SlotsToInt(end.ranges) \cup (end.head..s[n])
    BY <2>8, <2>9, CloseRange, Zenon
  <2>11. SlotsToString(S) = q
    BY <2>2, <2>8, Zenon DEF end
  <2> HIDE DEF q
  <2> QED
    BY <2>9, <2>10, <2>11, Zenon
<1> QED
  BY <1>1, <1>2, Zenon

\* Whatever is published of the slots of a shard, by whichever write, it is the
\* shortest list of ranges.
THEOREM RangesShortest == Spec => []ShortestRanges
<1>1. ASSUME TypeOK PROVE ShortestRanges
  <2>1. ASSUME NEW s \in Shards PROVE Apart(kv.slots[s])
    <3>1. kv.slots[s] \in SlotLists
      BY <1>1 DEF TypeOK, KVs, SlotStatus
    <3>2. PICK S \in SUBSET Slots : kv.slots[s] = SlotsToString(S)
      BY <3>1, Zenon DEF SlotLists
    <3> QED
      BY <3>2, SlotsToStringFacts, Zenon
  <2> QED
    BY <2>1, Zenon DEF ShortestRanges, Apart
<1> QED
  BY <1>1, TypeCorrect, PTL

\* What SlotsToString writes, SlotsToInt reads back: no slot is lost at the end of a
\* range, and none appears in a gap.
THEOREM SlotsReadBack ==
  ASSUME NEW S \in SUBSET Slots
  PROVE  SlotsToInt(SlotsToString(S)) = S
BY SlotsToStringFacts
=============================================================================
