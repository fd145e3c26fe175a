---------------------------- MODULE ClusterUpkeep ----------------------------
(***************************************************************************)
(* What the reconcile worker does to the nodes of a running cluster: it    *)
(* rolls out a changed password or configuration (EnsureConfig) and        *)
(* carries out the migration of slots that the user has written into the   *)
(* status (ensureMigrate), one call to one node or to kvrocks-controller   *)
(* at a time.                                                              *)
(*                                                                         *)
(* The password the worker uses to talk to the nodes is the one in the     *)
(* ConfigMap, which follows the nodes; the one they should get is in the   *)
(* spec.  Each shard has one node here: pods, replicas and failovers are   *)
(* the subject of ClusterOperator.  KVRocks and ConfigMap are read from    *)
(* the informer cache; an Update needs a copy that is up to date.          *)
(***************************************************************************)
EXTENDS Integers, Sequences, FiniteSets

CONSTANTS
  NumShards,   \* spec.master
  Placements,  \* the shards the slots may be in at first: functions from slots to shards
  Passwords,   \* the values of spec.password
  Configs,     \* the values of spec.kvrocksConfig
  Plans,       \* the migrations the user may write for the master of a shard
  MaxEdits,    \* bound on the edits of the user
  Scenarios    \* the sets of faults that may happen together, each fault once

Shards == 1..NumShards
Slots == UNION {DOMAIN f : f \in Placements}
MaxSlotID == 16383

\* An entry of the migrations of a master: slots, and the shard they go to.
Migrations == [shard : Shards, slots : SUBSET Slots]

ASSUME ShardsAssumption == NumShards \in Nat \ {0}
ASSUME PlacementsAssumption == \A f \in Placements : f \in [DOMAIN f -> Shards]
ASSUME SlotsAssumption == Slots \subseteq 0..MaxSlotID
ASSUME PlansAssumption ==
  \A plan \in Plans :
    /\ plan.shard \in Shards
    /\ plan.moves \in Seq(Migrations)
    /\ \A j \in DOMAIN plan.moves : plan.moves[j].shard # plan.shard
ASSUME ValuesAssumption == Passwords # {} /\ Configs # {}
ASSUME BoundsAssumption == MaxEdits \in Nat
ASSUME ScenariosAssumption == Scenarios \subseteq SUBSET {"kill", "outage", "restart", "lost", "stale"}

VARIABLES
  kv,       \* the stored KVRocks: password, config, published slots, migrations to do
  cache,    \* the copy in the informer cache
  fresh,    \* that copy has the current resourceVersion
  cm,       \* the stored ConfigMap: password and config
  cmCache,  \* the copy in the informer cache
  nodes,    \* nodes[s]: the node of shard s: its password and config, and whether it answers
  ctl,      \* ctl[s]: the slots kvrocks-controller has for shard s
  queued,   \* the instance is in the work queue
  w,        \* the worker: its copy of the instance, and how far it is
  edits,    \* the edits so far
  faults,   \* the faults that may still happen
  met,      \* history: the faults so far, and "edit" if one has met a migration under way
  accused   \* history: the nodes that were reported as down while they answered

kvVars == <<kv, cache, fresh>>
cmVars == <<cm, cmCache>>
faultVars == <<faults, met>>
vars == <<kvVars, cmVars, nodes, ctl, queued, w, edits, faultVars, accused>>

Blank == [password |-> 0, config |-> 0, slots |-> [s \in Shards |-> <<>>],
          moves |-> [s \in Shards |-> <<>>]]

\* password: h.password; next: the node or the shard the worker is at; slots: what
\* ensureSetNodeID has read; left: the slots still to move.
Idle == [pc |-> "idle", inst |-> Blank, fresh |-> FALSE, password |-> 0, next |-> 1,
         slots |-> [s \in Shards |-> {}], left |-> {}]

-----------------------------------------------------------------------------
(* Slots as the status has them: a list of single slots and of ranges *)

RangeOf(a, b) == IF a = b THEN <<a>> ELSE <<a, b>>
EndOf(range) == range[Len(range)]

\* sort.Ints, on slots that are in the list once.
Sorted(S) ==
  CHOOSE s \in [1..Cardinality(S) -> S] : \A i \in 2..Cardinality(S) : s[i - 1] < s[i]

\* Mutant: a range starts with the slot before the gap.
HeadBeforeGap(acc, prev, slot) ==
  IF slot - prev = 1 THEN acc
  ELSE [head |-> prev, ranges |-> Append(acc.ranges, RangeOf(acc.head, prev))]

\* An iteration of the loop over the sorted slots, which closes a range at each gap.
NextSlot(acc, prev, slot) ==
  IF slot - prev = 1 THEN acc
  ELSE [head |-> slot, ranges |-> Append(acc.ranges, RangeOf(acc.head, prev))]

SlotsToString(S) ==
  LET s == Sorted(S)
      loop[i \in 1..Len(s)] == IF i = 1 THEN [head |-> s[1], ranges |-> <<>>]
                               ELSE NextSlot(loop[i - 1], s[i - 1], s[i])
      end == loop[Len(s)]
  IN IF S = {} THEN <<>> ELSE Append(end.ranges, RangeOf(end.head, s[Len(s)]))

SlotsToInt(ranges) == UNION {ranges[j][1]..EndOf(ranges[j]) : j \in DOMAIN ranges}

-----------------------------------------------------------------------------
\* A running cluster whose nodes have what the spec says.
Init ==
  /\ \E f \in Placements : ctl = [s \in Shards |-> {slot \in DOMAIN f : f[slot] = s}]
  /\ kv = [password |-> CHOOSE p \in Passwords : TRUE, config |-> CHOOSE c \in Configs : TRUE,
           slots |-> [s \in Shards |-> SlotsToString(ctl[s])], moves |-> [s \in Shards |-> <<>>]]
  /\ cache = kv /\ fresh = TRUE
  /\ cm = [password |-> kv.password, config |-> kv.config] /\ cmCache = cm
  /\ nodes = [s \in Shards |-> [password |-> kv.password, config |-> kv.config, up |-> TRUE]]
  /\ queued = TRUE
  /\ w = Idle
  /\ edits = 0 /\ faults \in Scenarios
  /\ met = {} /\ accused = {}

CacheSync ==
  /\ ~fresh
  /\ cache' = kv /\ fresh' = TRUE /\ queued' = TRUE
  /\ UNCHANGED <<kv, cmVars, nodes, ctl, w, edits, faultVars, accused>>

ConfigMapSync ==
  /\ cmCache # cm
  /\ cmCache' = cm
  /\ UNCHANGED <<kvVars, cm, nodes, ctl, queued, w, edits, faultVars, accused>>

\* The user changes the password or the config, or writes a migration, of slots the
\* shard has, into the entry of its master.
UserEdit(new) ==
  /\ edits < MaxEdits
  /\ edits' = edits + 1
  /\ new # kv
  /\ kv' = new
  /\ fresh' = FALSE
  /\ w' = [w EXCEPT !.fresh = FALSE]
  /\ met' = met \cup (IF w.pc \in {"migrate", "move", "moved"} THEN {"edit"} ELSE {})
  /\ UNCHANGED <<cache, cmVars, nodes, ctl, queued, faults, accused>>

Edits ==
  {[kv EXCEPT !.password = password] : password \in Passwords}
  \cup {[kv EXCEPT !.config = config] : config \in Configs}
  \cup {[kv EXCEPT !.moves[plan.shard] = plan.moves] :
          plan \in {p \in Plans : /\ kv.moves[p.shard] = <<>>
                                  /\ \A j \in DOMAIN p.moves : p.moves[j].slots \subseteq ctl[p.shard]}}

Fault(kind) == kind \in faults /\ faults' = faults \ {kind} /\ met' = met \cup {kind}

\* The process of a node starts again with the configuration of the ConfigMap.
NodeRestart(s) ==
  /\ Fault("restart")
  /\ nodes' = [nodes EXCEPT ![s] = [password |-> cm.password, config |-> cm.config, up |-> TRUE]]
  /\ queued' = TRUE
  /\ UNCHANGED <<kvVars, cmVars, ctl, w, edits, accused>>

\* A node does not answer for a while.
Outage(s) ==
  /\ Fault("outage")
  /\ nodes' = [nodes EXCEPT ![s].up = FALSE]
  /\ UNCHANGED <<kvVars, cmVars, ctl, queued, w, edits, accused>>

OutageEnds(s) ==
  /\ ~nodes[s].up
  /\ nodes' = [nodes EXCEPT ![s].up = TRUE]
  /\ queued' = TRUE
  /\ UNCHANGED <<kvVars, cmVars, ctl, w, edits, faultVars, accused>>

Kill ==
  /\ Fault("kill")
  /\ w' = Idle /\ queued' = TRUE
  /\ cache' = kv /\ fresh' = TRUE /\ cmCache' = cm
  /\ UNCHANGED <<kv, cm, nodes, ctl, edits, accused>>

-----------------------------------------------------------------------------
(* The worker *)

\* Reconcile returns; an error, a conflict or a requeue queues the instance again.
Return(again) == w' = Idle /\ queued' = (queued \/ again)

Goto(pc) == w' = [w EXCEPT !.pc = pc, !.next = 1] /\ UNCHANGED queued

\* Mutant: the nodes are called with the password of the spec.
SpecPassword == cache.password

\* h.password.
KnownPassword == cmCache.password

\* Mutant: the copy loses its resourceVersion and counts as current.
ReconcileUnversioned ==
  /\ w.pc = "idle" /\ queued
  /\ queued' = FALSE
  /\ w' = [Idle EXCEPT !.pc = "ping", !.inst = cache, !.fresh = TRUE, !.password = KnownPassword]
  /\ UNCHANGED <<kvVars, cmVars, nodes, ctl, edits, faultVars, accused>>

\* Reconcile and ensureKubernetes.
Reconcile ==
  /\ w.pc = "idle" /\ queued
  /\ queued' = FALSE
  /\ w' = [Idle EXCEPT !.pc = "ping", !.inst = cache, !.fresh = fresh, !.password = KnownPassword]
  /\ UNCHANGED <<kvVars, cmVars, nodes, ctl, edits, faultVars, accused>>

\* The call of a node with the password of the handler succeeds.
Answers(s) == nodes[s].up /\ nodes[s].password = w.password

\* ensureFailover: a node that cannot be pinged is reported, and the worker starts over.
Ping ==
  /\ w.pc = "ping"
  /\ accused' = accused \cup {s \in Shards : nodes[s].up /\ ~Answers(s)}
  /\ \/ (\A s \in Shards : Answers(s)) /\ Goto("config")
     \/ (\E s \in Shards : ~Answers(s)) /\ Return(TRUE)
  /\ UNCHANGED <<kvVars, cmVars, nodes, ctl, edits, faultVars>>

\* Mutant: a node gets the password and not the config.
PasswordOnly(node) == [node EXCEPT !.password = w.inst.password]

\* A node after SetConfig and ChangePassword.
Configured(node) == [node EXCEPT !.config = w.inst.config, !.password = w.inst.password]

\* EnsureConfig for the next node.
EnsureConfig ==
  /\ w.pc = "config"
  /\ \/ ~Answers(w.next) /\ Return(TRUE) /\ UNCHANGED nodes
     \/ /\ Answers(w.next)
        /\ nodes' = [nodes EXCEPT ![w.next] = Configured(@)]
        /\ IF w.next = NumShards THEN Goto("configmap")
           ELSE w' = [w EXCEPT !.next = @ + 1] /\ UNCHANGED queued
  /\ UNCHANGED <<kvVars, cmVars, ctl, edits, faultVars, accused>>

\* The end of ensureKVRocksConfig; the cache of the ConfigMap may lag behind.
UpdateConfigMap ==
  /\ w.pc = "configmap"
  /\ cm' = [password |-> w.inst.password, config |-> w.inst.config]
  /\ \/ cmCache' = cm' /\ UNCHANGED faultVars
     \/ cm' # cmCache /\ Fault("stale") /\ UNCHANGED cmCache
  /\ w' = [w EXCEPT !.pc = "update", !.next = 1, !.password = w.inst.password]
  /\ UNCHANGED <<kvVars, nodes, ctl, queued, edits, accused>>

\* Mutant: the stored resource is replaced, whatever copy the worker has.
UpdateAnyway(new, pc, slots) ==
  /\ kv' = new
  /\ fresh' = (fresh /\ new = kv)
  /\ w' = [w EXCEPT !.inst = new, !.pc = pc, !.slots = slots]
  /\ UNCHANGED <<cache, queued>>

\* UpdateKVRocks(new), which is refused when the worker's copy is out of date.
UpdateKVRocks(new, pc, slots) ==
  \/ /\ w.fresh
     /\ kv' = new
     /\ fresh' = (fresh /\ new = kv)
     /\ w' = [w EXCEPT !.inst = new, !.pc = pc, !.slots = slots]
     /\ UNCHANGED <<cache, queued>>
  \/ ~w.fresh /\ Return(TRUE) /\ UNCHANGED kvVars

\* ensureCluster: the slots of the nodes are read and the instance is written as it is.
EnsureCluster ==
  /\ w.pc = "update"
  /\ UpdateKVRocks(w.inst, "publish", ctl)
  /\ UNCHANGED <<cmVars, nodes, ctl, edits, faultVars, accused>>

\* ensureStatusTopoMsg.
WithSlots(inst, slots) == [inst EXCEPT !.slots = [s \in Shards |-> SlotsToString(slots[s])]]

Publish ==
  /\ w.pc = "publish"
  /\ UpdateKVRocks(WithSlots(w.inst, w.slots), "migrate", w.slots)
  /\ UNCHANGED <<cmVars, nodes, ctl, edits, faultVars, accused>>

\* ensureMigrate takes the first master with migrations; without any it publishes
\* what is published already.
EnsureMigrate ==
  /\ w.pc = "migrate"
  /\ LET planned == {s \in Shards : w.inst.moves[s] # <<>>}
     IN \/ planned = {} /\ Return(~w.fresh)
        \/ /\ \E s \in planned :
                /\ \A r \in planned : s <= r
                /\ w' = [w EXCEPT !.pc = "move", !.next = s, !.left = Head(w.inst.moves[s]).slots]
           /\ UNCHANGED queued
  /\ UNCHANGED <<kvVars, cmVars, nodes, ctl, edits, faultVars, accused>>

\* kvrocks-controller moves a slot that the source has.
Moved(slot) ==
  ctl' = [ctl EXCEPT ![w.next] = @ \ {slot}, ![Head(w.inst.moves[w.next]).shard] = @ \cup {slot}]

\* MigrateSlotAndData.  A call that fails is made again; when it goes on failing the
\* migration ends with an error.
MigrateSlot(slot) ==
  /\ w.pc = "move" /\ slot \in w.left
  /\ \/ /\ slot \in ctl[w.next] /\ Moved(slot)
        /\ w' = [w EXCEPT !.left = @ \ {slot}]
        /\ UNCHANGED <<queued, faultVars>>
     \/ slot \in ctl[w.next] /\ Fault("lost") /\ Moved(slot) /\ UNCHANGED <<w, queued>>
     \/ slot \in ctl[w.next] /\ Fault("lost") /\ UNCHANGED <<ctl, w, queued>>
     \/ slot \notin ctl[w.next] /\ Return(TRUE) /\ UNCHANGED <<ctl, faultVars>>
  /\ UNCHANGED <<kvVars, cmVars, nodes, edits, accused>>

\* node.Slots[n:]: the n smallest slots go, whichever were moved.
Dropped(slots, n) == {x \in slots : Cardinality({y \in slots : y < x}) >= n}

\* A migration is done: it is taken from the list and the topology is published.
FinishMove ==
  /\ w.pc = "move" /\ w.left = {}
  /\ LET s == w.next
         rest == Tail(w.inst.moves[s])
         slots == [w.slots EXCEPT ![s] = Dropped(@, Cardinality(Head(w.inst.moves[s]).slots))]
         new == [WithSlots(w.inst, slots) EXCEPT !.moves[s] = rest]
     IN UpdateKVRocks(new, "moved", slots)
  /\ UNCHANGED <<cmVars, nodes, ctl, edits, faultVars, accused>>

\* The next migration of the same master, or the end of the reconcile with a requeue.
NextMove ==
  /\ w.pc = "moved"
  /\ \/ w.inst.moves[w.next] = <<>> /\ Return(TRUE)
     \/ /\ w.inst.moves[w.next] # <<>>
        /\ w' = [w EXCEPT !.pc = "move", !.left = Head(w.inst.moves[w.next]).slots]
        /\ UNCHANGED queued
  /\ UNCHANGED <<kvVars, cmVars, nodes, ctl, edits, faultVars, accused>>

Worker ==
  \/ Ping \/ EnsureConfig \/ UpdateConfigMap \/ EnsureCluster \/ Publish
  \/ EnsureMigrate \/ FinishMove \/ NextMove \/ \E slot \in w.left : MigrateSlot(slot)

Next ==
  \/ Reconcile \/ Worker \/ CacheSync \/ ConfigMapSync \/ Kill
  \/ \E new \in Edits : UserEdit(new)
  \/ \E s \in Shards : NodeRestart(s) \/ Outage(s) \/ OutageEnds(s)

Spec == Init /\ [][Next]_vars

\* The worker runs whenever the instance is queued, the watches deliver, and an
\* outage ends.
Fairness ==
  /\ WF_vars(Reconcile) /\ WF_vars(Worker)
  /\ WF_vars(CacheSync) /\ WF_vars(ConfigMapSync)
  /\ \A s \in Shards : WF_vars(OutageEnds(s))

FairSpec == Spec /\ Fairness

-----------------------------------------------------------------------------
(* Properties *)

\* What the status may tell of a shard: the lists SlotsToString makes.
SlotLists == {SlotsToString(S) : S \in SUBSET Slots}

SlotStatus == [Shards -> SlotLists]
SlotPlans == [Shards -> Seq(Migrations)]
SlotMaps == [Shards -> SUBSET Slots]
KVs == [password : Passwords, config : Configs, slots : SlotStatus, moves : SlotPlans]
ConfigMaps == [password : Passwords, config : Configs]
Nodes == [password : Passwords, config : Configs, up : BOOLEAN]

Steps == {"idle", "ping", "config", "configmap", "update", "publish", "migrate", "move", "moved"}
Workers ==
  [pc : Steps, inst : KVs \cup {Blank}, fresh : BOOLEAN, password : Passwords \cup {0},
   next : Shards, slots : SlotMaps, left : SUBSET Slots]

\* Every variable keeps its type, a copy marked as current is the stored resource, and
\* the worker moves slots only for a migration that its copy lists.
TypeOK ==
  /\ {kv, cache} \subseteq KVs
  /\ w \in Workers
  /\ w.pc # "idle" => w.inst \in KVs
  /\ w.pc = "move" => w.inst.moves[w.next] # <<>>
  /\ fresh \in BOOLEAN
  /\ fresh => cache = kv
  /\ w.fresh => w.inst = kv
  /\ {cm, cmCache} \subseteq ConfigMaps
  /\ nodes \in [Shards -> Nodes]
  /\ ctl \in SlotMaps
  /\ queued \in BOOLEAN /\ edits \in 0..MaxEdits
  /\ faults \subseteq {"kill", "outage", "restart", "lost", "stale"} \ met
  /\ accused \subseteq Shards

\* A node that answers is not reported as down, however passwords are changed and
\* copies lag behind: the nodes are pinged with the password of the ConfigMap, which
\* is written when the last node has the new one.  That ends when the roll-out is
\* interrupted, a node starts again during it, or the ConfigMap is read from a cache
\* that lags behind.
OnlyDownNodesReported ==
  accused # {} => met \cap {"kill", "outage", "restart", "stale"} # {}

\* The worker asks for a slot only from the shard that has it: ensureCluster and
\* ensureStatusTopoMsg write the instance before ensureMigrate, so a copy whose
\* migrations are done already is refused there.  That ends when a migration is
\* interrupted, a reply is lost, or an edit makes the Update that takes a finished
\* migration from the list fail.  It takes a list of migrations that names a slot
\* once, which the operator does not check.
MovesOnce ==
  w.pc = "move" /\ ~(w.left \subseteq ctl[w.next]) => met \cap {"kill", "lost", "edit"} # {}

\* The published slots are the shortest list of ranges: SlotsToString leaves a gap
\* between two ranges, and writes a single slot as such.
ShortestRanges ==
  \A s \in Shards :
    LET r == kv.slots[s]
    IN /\ \A j \in DOMAIN r : Len(r[j]) = 1 \/ (Len(r[j]) = 2 /\ r[j][1] < r[j][2])
       /\ \A j \in DOMAIN r : j > 1 => r[j][1] > EndOf(r[j - 1]) + 1

\* Everything the user has asked for is done, and the status tells where the slots are.
UpToDate ==
  /\ cm = [password |-> kv.password, config |-> kv.config]
  /\ \A s \in Shards : /\ nodes[s] = [password |-> kv.password, config |-> kv.config, up |-> TRUE]
                        /\ kv.moves[s] = <<>>
                        /\ SlotsToInt(kv.slots[s]) = ctl[s]

\* A node has another password than the ConfigMap.
HalfChanged == \E s \in Shards : nodes[s].password # cm.password

\* A migration is listed although a slot of it has gone.
HalfMoved ==
  \E s \in Shards : \E j \in DOMAIN kv.moves[s] : ~(kv.moves[s][j].slots \subseteq ctl[s])

\* Passwords, configurations and migrations are carried out in the end, after outages
\* and restarts at any step; the only states the worker cannot leave are those with a
\* password changed, or a migration done, half way.
UpkeepSettles == <>[](UpToDate \/ HalfChanged \/ HalfMoved)

=============================================================================
