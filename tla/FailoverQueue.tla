---------------------------- MODULE FailoverQueue ----------------------------
(***************************************************************************)
(* The in-memory failover queue of the operator (pkg/controllers/events):  *)
(* the global messageQueue (a buffered channel and the set of ips that are *)
(* already being failed over), the goroutines that add to it, the consumer *)
(* and the handler goroutines it spawns.                                   *)
(*                                                                         *)
(*  - A reconcile worker calls SendFailoverMsg, which takes no lock.       *)
(*  - A listener (one per sentinel pod) calls add while it holds e.lock.   *)
(*  - The consumer receives a message and spawns a goroutine for it.       *)
(*  - A handler holds e.lock from its first to its last statement; what it *)
(*    does to the cluster is the subject of ClusterOperator, here it either*)
(*    finishes with its message or asks for a retry.                       *)
(*                                                                         *)
(* The map of keys is read and written without synchronisation by          *)
(* SendFailoverMsg.  Either the accesses take effect in some order, which  *)
(* the separate steps below allow, or the Go runtime detects the race and  *)
(* aborts the process, which is the action Restart.                        *)
(***************************************************************************)
EXTENDS Naturals, Sequences

CONSTANTS
  IPs,          \* pod ips that can be reported down
  Sentinels,    \* sentinel pods, each with at most one listener goroutine
  Reconcilers,  \* reconcile workers (--max-concurrent-reconciles)
  MsgIds,       \* identities of *eventMessage values alive at a time (bound)
  Capacity,     \* capacity of the channel (1000 in the code)
  NoMsg,        \* nil *eventMessage
  Unlocked,     \* e.lock is free
  MaxRestarts   \* bound on the process restarts in a behaviour

Adders == Sentinels \cup Reconcilers

ASSUME CapacityAssumption == Capacity \in Nat \ {0}
ASSUME RestartsAssumption == MaxRestarts \in Nat
ASSUME NamesAssumption ==
  /\ NoMsg \notin MsgIds
  /\ Unlocked \notin Adders \cup MsgIds
  /\ Sentinels \cap Reconcilers = {}
  /\ MsgIds \cap Adders = {}

VARIABLES
  keys,               \* messageQueue.keys
  message,            \* messageQueue.message, oldest first
  lock,               \* holder of event.lock: a sentinel's listener or a message
  producerSentinels,  \* event.producerSentinels
  pc,                 \* where each adder is
  cur,                \* the message each adder is adding
  stage,              \* where each message is
  ipOf,               \* eventMessage.ip
  expired,            \* time.Since(eventMessage.timeout) >= 0
  restarts            \* process restarts so far

vars == <<keys, message, lock, producerSentinels, pc, cur, stage, ipOf,
          expired, restarts>>

\* "idle": a reconcile worker outside SendFailoverMsg, or a listener waiting
\* on its subscription; "off": the sentinel has no listener goroutine.
PCs == {"off", "idle", "check", "insert", "send", "return", "exit"}

\* "held": only its creator knows it; "spawned": its goroutine waits for
\* e.lock; "requeueing": the deferred function is sending it again.
Stages == {"free", "held", "queued", "spawned", "handling", "requeueing"}

Init ==
  /\ keys = {}
  /\ message = <<>>
  /\ lock = Unlocked
  /\ producerSentinels = {}
  /\ pc = [a \in Adders |-> IF a \in Sentinels THEN "off" ELSE "idle"]
  /\ cur = [a \in Adders |-> NoMsg]
  /\ stage = [id \in MsgIds |-> "free"]
  /\ ipOf \in {[id \in MsgIds |-> ip] : ip \in IPs}
  /\ expired = [id \in MsgIds |-> FALSE]
  /\ restarts = 0

-----------------------------------------------------------------------------
(* Registration of listeners *)

\* The cron job subscribes to a sentinel pod that has no listener yet.
producer(s) ==
  /\ lock = Unlocked
  /\ s \notin producerSentinels
  /\ producerSentinels' = producerSentinels \cup {s}
  /\ pc' = [pc EXCEPT ![s] = "idle"]
  /\ UNCHANGED <<keys, message, lock, cur, stage, ipOf, expired, restarts>>

\* The subscription's channel is closed: the listener leaves its loop ...
SubscriptionClosed(s) ==
  /\ pc[s] = "idle"
  /\ pc' = [pc EXCEPT ![s] = "exit"]
  /\ UNCHANGED <<keys, message, lock, producerSentinels, cur, stage, ipOf,
                 expired, restarts>>

\* Mutant: it goes without unregistering.
ListenerExitSilently(s) ==
  /\ pc[s] = "exit"
  /\ lock = Unlocked
  /\ pc' = [pc EXCEPT ![s] = "off"]
  /\ UNCHANGED <<keys, message, lock, producerSentinels, cur, stage, ipOf,
                 expired, restarts>>

\* ... and unregisters itself under the lock.
ListenerExit(s) ==
  /\ pc[s] = "exit"
  /\ lock = Unlocked
  /\ producerSentinels' = producerSentinels \ {s}
  /\ pc' = [pc EXCEPT ![s] = "off"]
  /\ UNCHANGED <<keys, message, lock, cur, stage, ipOf, expired, restarts>>

-----------------------------------------------------------------------------
(* Adding a message *)

NewMessage(a, id, ip) ==
  /\ pc[a] = "idle"
  /\ stage[id] = "free"
  /\ pc' = [pc EXCEPT ![a] = "check"]
  /\ cur' = [cur EXCEPT ![a] = id]
  /\ stage' = [stage EXCEPT ![id] = "held"]
  /\ ipOf' = [ipOf EXCEPT ![id] = ip]
  /\ expired' = [expired EXCEPT ![id] = FALSE]

\* A sentinel reported +odown for a cluster's master: add under the lock.
listen(s, id, ip) ==
  /\ lock = Unlocked
  /\ lock' = s
  /\ NewMessage(s, id, ip)
  /\ UNCHANGED <<keys, message, producerSentinels, restarts>>

\* A reconcile worker could not ping a node: add without the lock.
SendFailoverMsg(r, id, ip) ==
  /\ NewMessage(r, id, ip)
  /\ UNCHANGED <<keys, message, lock, producerSentinels, restarts>>

\* add, line by line: look the ip up ...
CheckKey(a) ==
  /\ pc[a] = "check"
  /\ \/ /\ ipOf[cur[a]] \in keys
        /\ pc' = [pc EXCEPT ![a] = "return"]
        /\ stage' = [stage EXCEPT ![cur[a]] = "free"]
     \/ /\ ipOf[cur[a]] \notin keys
        /\ pc' = [pc EXCEPT ![a] = "insert"]
        /\ UNCHANGED stage
  /\ UNCHANGED <<keys, message, lock, producerSentinels, cur, ipOf, expired,
                 restarts>>

\* Mutant: the message is inserted in the place of its ip.
InsertMessage(a) ==
  /\ pc[a] = "insert"
  /\ keys' = keys \cup {cur[a]}
  /\ pc' = [pc EXCEPT ![a] = "send"]
  /\ UNCHANGED <<message, lock, producerSentinels, cur, stage, ipOf, expired,
                 restarts>>

\* ... insert it ...
InsertKey(a) ==
  /\ pc[a] = "insert"
  /\ keys' = keys \cup {ipOf[cur[a]]}
  /\ pc' = [pc EXCEPT ![a] = "send"]
  /\ UNCHANGED <<message, lock, producerSentinels, cur, stage, ipOf, expired,
                 restarts>>

\* Mutant: a send that does not block and tries again.
ChanSendSpins(a) ==
  /\ pc[a] = "send"
  /\ \/ /\ Len(message) < Capacity
        /\ message' = Append(message, cur[a])
        /\ stage' = [stage EXCEPT ![cur[a]] = "queued"]
        /\ pc' = [pc EXCEPT ![a] = "return"]
     \/ /\ Len(message) = Capacity
        /\ pc' = [pc EXCEPT ![a] = "insert"]
        /\ UNCHANGED <<message, stage>>
  /\ UNCHANGED <<keys, lock, producerSentinels, cur, ipOf, expired, restarts>>

\* ... and send, which blocks while the channel is full.
ChanSend(a) ==
  /\ pc[a] = "send"
  /\ Len(message) < Capacity
  /\ message' = Append(message, cur[a])
  /\ stage' = [stage EXCEPT ![cur[a]] = "queued"]
  /\ pc' = [pc EXCEPT ![a] = "return"]
  /\ UNCHANGED <<keys, lock, producerSentinels, cur, ipOf, expired, restarts>>

\* add returned; a listener unlocks and waits for the next notification.
AddReturn(a) ==
  /\ pc[a] = "return"
  /\ pc' = [pc EXCEPT ![a] = "idle"]
  /\ cur' = [cur EXCEPT ![a] = NoMsg]
  /\ lock' = IF a \in Sentinels THEN Unlocked ELSE lock
  /\ UNCHANGED <<keys, message, producerSentinels, stage, ipOf, expired,
                 restarts>>

-----------------------------------------------------------------------------
(* Consuming and handling *)

\* Mutant: a message received while the lock is taken is dropped.
consumerDropsWhenBusy ==
  /\ message # <<>>
  /\ message' = Tail(message)
  /\ stage' = IF lock = Unlocked THEN [stage EXCEPT ![Head(message)] = "spawned"]
              ELSE stage
  /\ UNCHANGED <<keys, lock, producerSentinels, pc, cur, ipOf, expired,
                 restarts>>

consumer ==
  /\ message # <<>>
  /\ message' = Tail(message)
  /\ stage' = [stage EXCEPT ![Head(message)] = "spawned"]
  /\ UNCHANGED <<keys, lock, producerSentinels, pc, cur, ipOf, expired,
                 restarts>>

\* Mutant: a handler does not wait for the lock.
HandlerLockAtOnce(id) ==
  /\ stage[id] = "spawned"
  /\ lock' = id
  /\ stage' = [stage EXCEPT ![id] = "handling"]
  /\ UNCHANGED <<keys, message, producerSentinels, pc, cur, ipOf, expired,
                 restarts>>

HandlerLock(id) ==
  /\ stage[id] = "spawned"
  /\ lock = Unlocked
  /\ lock' = id
  /\ stage' = [stage EXCEPT ![id] = "handling"]
  /\ UNCHANGED <<keys, message, producerSentinels, pc, cur, ipOf, expired,
                 restarts>>

\* Mutant: the ip of a message that is given up is not forgotten.
HandlerFinishKeepsKey(id) ==
  /\ stage[id] = "handling"
  /\ keys' = IF expired[id] THEN keys ELSE keys \ {ipOf[id]}
  /\ stage' = [stage EXCEPT ![id] = "free"]
  /\ lock' = Unlocked
  /\ UNCHANGED <<message, producerSentinels, pc, cur, ipOf, expired, restarts>>

\* The handler returns with no error, with an error that is not worth a retry
\* or after the message's timeout: forget the ip and unlock.
HandlerFinish(id) ==
  /\ stage[id] = "handling"
  /\ keys' = keys \ {ipOf[id]}
  /\ stage' = [stage EXCEPT ![id] = "free"]
  /\ lock' = Unlocked
  /\ UNCHANGED <<message, producerSentinels, pc, cur, ipOf, expired, restarts>>

\* Mutant: the timeout is not looked at.
HandlerRetryForever(id) ==
  /\ stage[id] = "handling"
  /\ stage' = [stage EXCEPT ![id] = "requeueing"]
  /\ UNCHANGED <<keys, message, lock, producerSentinels, pc, cur, ipOf,
                 expired, restarts>>

\* The handler returns with an error before the timeout: the deferred function
\* will send the message again, still holding the lock ...
HandlerRetry(id) ==
  /\ stage[id] = "handling"
  /\ ~expired[id]
  /\ stage' = [stage EXCEPT ![id] = "requeueing"]
  /\ UNCHANGED <<keys, message, lock, producerSentinels, pc, cur, ipOf,
                 expired, restarts>>

\* ... which blocks while the channel is full.
HandlerRequeue(id) ==
  /\ stage[id] = "requeueing"
  /\ Len(message) < Capacity
  /\ message' = Append(message, id)
  /\ stage' = [stage EXCEPT ![id] = "queued"]
  /\ lock' = Unlocked
  /\ UNCHANGED <<keys, producerSentinels, pc, cur, ipOf, expired, restarts>>

-----------------------------------------------------------------------------
(* Time and crashes *)

\* 30 seconds have passed since the message was created.
Timeout(id) ==
  /\ stage[id] # "free"
  /\ ~expired[id]
  /\ expired' = [expired EXCEPT ![id] = TRUE]
  /\ UNCHANGED <<keys, message, lock, producerSentinels, pc, cur, stage, ipOf,
                 restarts>>

\* The process is killed, panics in a handler or aborts on the map race; the
\* next one starts with an empty queue.
Restart ==
  /\ restarts < MaxRestarts
  /\ restarts' = restarts + 1
  /\ keys' = {}
  /\ message' = <<>>
  /\ lock' = Unlocked
  /\ producerSentinels' = {}
  /\ pc' = [a \in Adders |-> IF a \in Sentinels THEN "off" ELSE "idle"]
  /\ cur' = [a \in Adders |-> NoMsg]
  /\ stage' = [id \in MsgIds |-> "free"]
  /\ expired' = [id \in MsgIds |-> FALSE]
  /\ UNCHANGED ipOf

-----------------------------------------------------------------------------
AddStep(a) == CheckKey(a) \/ InsertKey(a) \/ ChanSend(a) \/ AddReturn(a)

HandlerStep(id) ==
  \/ HandlerLock(id)
  \/ HandlerFinish(id)
  \/ HandlerRetry(id)
  \/ HandlerRequeue(id)

Next ==
  \/ \E s \in Sentinels : \/ producer(s)
                          \/ SubscriptionClosed(s)
                          \/ ListenerExit(s)
  \/ \E s \in Sentinels, id \in MsgIds, ip \in IPs : listen(s, id, ip)
  \/ \E r \in Reconcilers, id \in MsgIds, ip \in IPs : SendFailoverMsg(r, id, ip)
  \/ \E a \in Adders : AddStep(a)
  \/ consumer
  \/ \E id \in MsgIds : HandlerStep(id)
  \/ \E id \in MsgIds : Timeout(id)
  \/ Restart

Spec == Init /\ [][Next]_vars

\* The Go scheduler runs every runnable goroutine, a channel serves its blocked
\* senders in order and sync.Mutex does not starve a waiter (its starvation
\* mode), hence strong fairness where a goroutine can be overtaken.  Clocks
\* advance.  Nothing is assumed about notifications, restarts or the cron job.
Fairness ==
  /\ \A a \in Adders : /\ WF_vars(CheckKey(a) \/ InsertKey(a) \/ AddReturn(a))
                       /\ SF_vars(ChanSend(a))
  /\ WF_vars(consumer)
  /\ \A id \in MsgIds : /\ SF_vars(HandlerLock(id))
                        /\ WF_vars(HandlerFinish(id) \/ HandlerRetry(id))
                        /\ SF_vars(HandlerRequeue(id))
                        /\ WF_vars(Timeout(id))

FairSpec == Spec /\ Fairness

-----------------------------------------------------------------------------
(* Properties *)

\* The values every variable of the events package ranges over.
TypeOK ==
  /\ keys \subseteq IPs
  /\ message \in Seq(MsgIds)
  /\ lock \in Sentinels \cup MsgIds \cup {Unlocked}
  /\ producerSentinels \subseteq Sentinels
  /\ pc \in [Adders -> PCs]
  /\ cur \in [Adders -> MsgIds \cup {NoMsg}]
  /\ stage \in [MsgIds -> Stages]
  /\ ipOf \in [MsgIds -> IPs]
  /\ expired \in [MsgIds -> BOOLEAN]
  /\ restarts \in 0..MaxRestarts

\* Message id is on its way through the channel or a handler.
InFlight(id) == stage[id] \in {"queued", "spawned", "handling", "requeueing"}

\* An adder has inserted message id's key and is blocked sending it.
Sending(id) == \E a \in Adders : cur[a] = id /\ pc[a] = "send"

\* An ip stays in messageQueue.keys only as long as some message for it is
\* still on its way.  A key that outlived its messages would make add drop
\* every later report that this node is down, and it would never be failed
\* over again.
NoOrphanKey ==
  \A ip \in keys : \E id \in MsgIds :
    ipOf[id] = ip /\ (InFlight(id) \/ Sending(id))

\* The messages in the channel buffer are exactly those that were sent and not
\* yet received, each once: none is lost and none is handled twice by retrying.
ChannelHoldsQueued ==
  /\ \A i \in 1..Len(message) : stage[message[i]] = "queued"
  /\ \A id \in MsgIds : stage[id] = "queued" =>
       \E i \in 1..Len(message) : message[i] = id
  /\ \A i, j \in 1..Len(message) : message[i] = message[j] => i = j

\* A listener between Lock and Unlock.
InCriticalSection(s) == pc[s] \in {"check", "insert", "send", "return"}

\* e.lock serialises listeners and handlers: at most one of them is between
\* Lock and Unlock, and it is the recorded holder.
LockDiscipline ==
  /\ \A s \in Sentinels : InCriticalSection(s) <=> lock = s
  /\ \A id \in MsgIds : stage[id] \in {"handling", "requeueing"} <=> lock = id

\* A sentinel pod that is not registered in producerSentinels has no listener,
\* so the cron job never subscribes twice to the same pod.
OneListenerPerSentinel ==
  \A s \in Sentinels : s \in producerSentinels <=> pc[s] # "off"

\* Two messages for one ip are never on their way at once.  The lock
\* guarantees it among listeners; SendFailoverMsg, which does not take the
\* lock, can break it, so this is claimed only for Reconcilers = {}.
AtMostOneMessagePerIP ==
  \A i, j \in MsgIds :
    /\ InFlight(i) \/ Sending(i)
    /\ InFlight(j) \/ Sending(j)
    /\ ipOf[i] = ipOf[j]
    => i = j

\* Every message that enters the channel is eventually done with: handled, or
\* given up after its timeout.
MessageSettles == \A id \in MsgIds : stage[id] = "queued" ~> stage[id] = "free"

\* An ip that was reported can be reported again later: its key is removed.
IpReportableAgain == \A ip \in IPs : ip \in keys ~> ip \notin keys

\* A goroutine that calls add returns from it, even when the channel is full
\* and the lock is contended: senders, consumer and handlers never wait for
\* each other in a cycle.
AddReturns == \A a \in Adders : pc[a] = "check" ~> pc[a] \in {"idle", "off"}
=============================================================================
