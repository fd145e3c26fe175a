------------------------ MODULE FailoverQueueProofs ------------------------
(***************************************************************************)
(* Proofs about FailoverQueue, for every number of ips, sentinels,         *)
(* reconcile workers and messages and every channel capacity: the keys,    *)
(* the channel, the lock and the listeners.                                *)
(***************************************************************************)
EXTENDS FailoverQueue, TLAPS

\* While an adder is inside add, the message it is adding is known to it alone:
\* it is neither in the channel nor in a handler, and no other adder has it.
AdderOwnsMessage ==
  /\ \A a \in Adders : pc[a] \in {"check", "insert", "send"} =>
       cur[a] \in MsgIds /\ stage[cur[a]] = "held"
  /\ \A a, b \in Adders :
       /\ pc[a] \in {"check", "insert", "send"}
       /\ pc[b] \in {"check", "insert", "send"}
       /\ cur[a] = cur[b]
       => a = b

\* The inductive invariant.
QueueInv ==
  /\ TypeOK
  /\ AdderOwnsMessage
  /\ LockDiscipline
  /\ ChannelHoldsQueued
  /\ NoOrphanKey

\* The invariant holds when the process starts: nothing is queued or locked.
LEMMA InitInv == Init => QueueInv
<1> SUFFICES ASSUME Init PROVE QueueInv
  OBVIOUS
<1> USE NamesAssumption, RestartsAssumption
<1>1. TypeOK
  BY DEF Init, TypeOK, PCs, Stages, Adders
<1>2. AdderOwnsMessage
  BY DEF Init, AdderOwnsMessage
<1>3. LockDiscipline
  BY DEF Init, LockDiscipline, InCriticalSection, Adders
<1>4. ChannelHoldsQueued
  BY DEF Init, ChannelHoldsQueued
<1>5. NoOrphanKey
  BY Zenon DEF Init, NoOrphanKey
<1> QED
  BY <1>1, <1>2, <1>3, <1>4, <1>5 DEF QueueInv

\* The invariant is preserved by the cron job registering a listener.
LEMMA ProducerStep ==
  ASSUME NEW s \in Sentinels,
         QueueInv, producer(s)
  PROVE  QueueInv'
<1> USE NamesAssumption, RestartsAssumption, CapacityAssumption
    DEF QueueInv, producer
<1>1. TypeOK'
  BY DEF TypeOK, AdderOwnsMessage, PCs, Stages, Adders
<1>2. AdderOwnsMessage'
  BY DEF TypeOK, AdderOwnsMessage, LockDiscipline, InCriticalSection,
         ChannelHoldsQueued, Adders
<1>3. LockDiscipline'
  BY DEF TypeOK, AdderOwnsMessage, LockDiscipline, InCriticalSection,
         ChannelHoldsQueued, Adders
<1>4. ChannelHoldsQueued'
  BY DEF TypeOK, AdderOwnsMessage, LockDiscipline, ChannelHoldsQueued
<1>5. NoOrphanKey'
  BY DEF TypeOK, AdderOwnsMessage, LockDiscipline, InCriticalSection,
         NoOrphanKey, InFlight, Sending, ChannelHoldsQueued, Adders
<1> QED
  BY <1>1, <1>2, <1>3, <1>4, <1>5

\* The invariant is preserved by a subscription that ends.
LEMMA SubscriptionClosedStep ==
  ASSUME NEW s \in Sentinels,
         QueueInv, SubscriptionClosed(s)
  PROVE  QueueInv'
<1> USE NamesAssumption, RestartsAssumption, CapacityAssumption
    DEF QueueInv, SubscriptionClosed
<1>1. TypeOK'
  BY DEF TypeOK, AdderOwnsMessage, PCs, Stages, Adders
<1>2. AdderOwnsMessage'
  BY DEF TypeOK, AdderOwnsMessage, LockDiscipline, InCriticalSection,
         ChannelHoldsQueued, Adders
<1>3. LockDiscipline'
  BY DEF TypeOK, AdderOwnsMessage, LockDiscipline, InCriticalSection,
         ChannelHoldsQueued, Adders
<1>4. ChannelHoldsQueued'
  BY DEF TypeOK, AdderOwnsMessage, LockDiscipline, ChannelHoldsQueued
<1>5. NoOrphanKey'
  BY DEF TypeOK, AdderOwnsMessage, LockDiscipline, InCriticalSection,
         NoOrphanKey, InFlight, Sending, ChannelHoldsQueued, Adders
<1> QED
  BY <1>1, <1>2, <1>3, <1>4, <1>5

\* The invariant is preserved by a listener unregistering itself.
LEMMA ListenerExitStep ==
  ASSUME NEW s \in Sentinels,
         QueueInv, ListenerExit(s)
  PROVE  QueueInv'
<1> USE NamesAssumption, RestartsAssumption, CapacityAssumption
    DEF QueueInv, ListenerExit
<1>1. TypeOK'
  BY DEF TypeOK, AdderOwnsMessage, PCs, Stages, Adders
<1>2. AdderOwnsMessage'
  BY DEF TypeOK, AdderOwnsMessage, LockDiscipline, InCriticalSection,
         ChannelHoldsQueued, Adders
<1>3. LockDiscipline'
  BY DEF TypeOK, AdderOwnsMessage, LockDiscipline, InCriticalSection,
         ChannelHoldsQueued, Adders
<1>4. ChannelHoldsQueued'
  BY DEF TypeOK, AdderOwnsMessage, LockDiscipline, ChannelHoldsQueued
<1>5. NoOrphanKey'
  BY DEF TypeOK, AdderOwnsMessage, LockDiscipline, InCriticalSection,
         NoOrphanKey, InFlight, Sending, ChannelHoldsQueued, Adders
<1> QED
  BY <1>1, <1>2, <1>3, <1>4, <1>5

\* The invariant is preserved by a listener that received +odown.
LEMMA ListenStep ==
  ASSUME NEW s \in Sentinels, NEW id \in MsgIds, NEW ip \in IPs,
         QueueInv, listen(s, id, ip)
  PROVE  QueueInv'
<1> USE NamesAssumption, RestartsAssumption, CapacityAssumption
    DEF QueueInv, listen, NewMessage
<1>1. TypeOK'
  BY DEF TypeOK, AdderOwnsMessage, PCs, Stages, Adders
<1>2. AdderOwnsMessage'
  BY DEF TypeOK, AdderOwnsMessage, LockDiscipline, InCriticalSection,
         ChannelHoldsQueued, Adders
<1>3. LockDiscipline'
  BY DEF TypeOK, AdderOwnsMessage, LockDiscipline, InCriticalSection,
         ChannelHoldsQueued, Adders
<1>4. ChannelHoldsQueued'
  BY DEF TypeOK, AdderOwnsMessage, LockDiscipline, ChannelHoldsQueued
<1>5. NoOrphanKey'
  BY DEF TypeOK, AdderOwnsMessage, LockDiscipline, InCriticalSection,
         NoOrphanKey, InFlight, Sending, ChannelHoldsQueued, Adders
<1> QED
  BY <1>1, <1>2, <1>3, <1>4, <1>5

\* The invariant is preserved by a reconcile worker reporting a node.
LEMMA SendFailoverMsgStep ==
  ASSUME NEW r \in Reconcilers, NEW id \in MsgIds, NEW ip \in IPs,
         QueueInv, SendFailoverMsg(r, id, ip)
  PROVE  QueueInv'
<1> USE NamesAssumption, RestartsAssumption, CapacityAssumption
    DEF QueueInv, SendFailoverMsg, NewMessage
<1>1. TypeOK'
  BY DEF TypeOK, AdderOwnsMessage, PCs, Stages, Adders
<1>2. AdderOwnsMessage'
  BY DEF TypeOK, AdderOwnsMessage, LockDiscipline, InCriticalSection,
         ChannelHoldsQueued, Adders
<1>3. LockDiscipline'
  BY DEF TypeOK, AdderOwnsMessage, LockDiscipline, InCriticalSection,
         ChannelHoldsQueued, Adders
<1>4. ChannelHoldsQueued'
  BY DEF TypeOK, AdderOwnsMessage, LockDiscipline, ChannelHoldsQueued
<1>5. NoOrphanKey'
  BY DEF TypeOK, AdderOwnsMessage, LockDiscipline, InCriticalSection,
         NoOrphanKey, InFlight, Sending, ChannelHoldsQueued, Adders
<1> QED
  BY <1>1, <1>2, <1>3, <1>4, <1>5

\* The invariant is preserved by the lookup in add.
LEMMA CheckKeyStep ==
  ASSUME NEW a \in Adders,
         QueueInv, CheckKey(a)
  PROVE  QueueInv'
<1> USE NamesAssumption, RestartsAssumption, CapacityAssumption
    DEF QueueInv, CheckKey
<1>1. TypeOK'
  BY DEF TypeOK, AdderOwnsMessage, PCs, Stages, Adders
<1>2. AdderOwnsMessage'
  BY SMTT(60) DEF TypeOK, AdderOwnsMessage, LockDiscipline, InCriticalSection,
         ChannelHoldsQueued, Adders
<1>3. LockDiscipline'
  BY DEF TypeOK, AdderOwnsMessage, LockDiscipline, InCriticalSection,
         ChannelHoldsQueued, Adders
<1>4. ChannelHoldsQueued'
  BY DEF TypeOK, AdderOwnsMessage, LockDiscipline, ChannelHoldsQueued
<1>5. NoOrphanKey'
  BY DEF TypeOK, AdderOwnsMessage, LockDiscipline, InCriticalSection,
         NoOrphanKey, InFlight, Sending, ChannelHoldsQueued, Adders
<1> QED
  BY <1>1, <1>2, <1>3, <1>4, <1>5

\* The invariant is preserved by the insertion in add.
LEMMA InsertKeyStep ==
  ASSUME NEW a \in Adders,
         QueueInv, InsertKey(a)
  PROVE  QueueInv'
<1> USE NamesAssumption, RestartsAssumption, CapacityAssumption
    DEF QueueInv, InsertKey
<1>1. TypeOK'
  BY DEF TypeOK, AdderOwnsMessage, PCs, Stages, Adders
<1>2. AdderOwnsMessage'
  BY DEF TypeOK, AdderOwnsMessage, LockDiscipline, InCriticalSection,
         ChannelHoldsQueued, Adders
<1>3. LockDiscipline'
  BY DEF TypeOK, AdderOwnsMessage, LockDiscipline, InCriticalSection,
         ChannelHoldsQueued, Adders
<1>4. ChannelHoldsQueued'
  BY DEF TypeOK, AdderOwnsMessage, LockDiscipline, ChannelHoldsQueued
<1>5. NoOrphanKey'
  BY DEF TypeOK, AdderOwnsMessage, LockDiscipline, InCriticalSection,
         NoOrphanKey, InFlight, Sending, ChannelHoldsQueued, Adders
<1> QED
  BY <1>1, <1>2, <1>3, <1>4, <1>5

\* The invariant is preserved by the channel send in add.
LEMMA ChanSendStep ==
  ASSUME NEW a \in Adders,
         QueueInv, ChanSend(a)
  PROVE  QueueInv'
<1> USE NamesAssumption, RestartsAssumption, CapacityAssumption
    DEF QueueInv, ChanSend
<1>1. TypeOK'
  BY DEF TypeOK, AdderOwnsMessage, PCs, Stages, Adders
<1>2. AdderOwnsMessage'
  BY DEF TypeOK, AdderOwnsMessage, LockDiscipline, InCriticalSection,
         ChannelHoldsQueued, Adders
<1>3. LockDiscipline'
  BY DEF TypeOK, AdderOwnsMessage, LockDiscipline, InCriticalSection,
         ChannelHoldsQueued, Adders
<1>4. ChannelHoldsQueued'
  BY DEF TypeOK, AdderOwnsMessage, LockDiscipline, ChannelHoldsQueued
<1>5. NoOrphanKey'
  BY DEF TypeOK, AdderOwnsMessage, LockDiscipline, InCriticalSection,
         NoOrphanKey, InFlight, Sending, ChannelHoldsQueued, Adders
<1> QED
  BY <1>1, <1>2, <1>3, <1>4, <1>5

\* The invariant is preserved by the return from add.
LEMMA AddReturnStep ==
  ASSUME NEW a \in Adders,
         QueueInv, AddReturn(a)
  PROVE  QueueInv'
<1> USE NamesAssumption, RestartsAssumption, CapacityAssumption
    DEF QueueInv, AddReturn
<1>1. TypeOK'
  BY DEF TypeOK, AdderOwnsMessage, PCs, Stages, Adders
<1>2. AdderOwnsMessage'
  BY DEF TypeOK, AdderOwnsMessage, LockDiscipline, InCriticalSection,
         ChannelHoldsQueued, Adders
<1>3. LockDiscipline'
  BY DEF TypeOK, AdderOwnsMessage, LockDiscipline, InCriticalSection,
         ChannelHoldsQueued, Adders
<1>4. ChannelHoldsQueued'
  BY DEF TypeOK, AdderOwnsMessage, LockDiscipline, ChannelHoldsQueued
<1>5. NoOrphanKey'
  BY DEF TypeOK, AdderOwnsMessage, LockDiscipline, InCriticalSection,
         NoOrphanKey, InFlight, Sending, ChannelHoldsQueued, Adders
<1> QED
  BY <1>1, <1>2, <1>3, <1>4, <1>5

\* The invariant is preserved by the consumer receiving a message.
LEMMA ConsumerStep ==
  ASSUME QueueInv, consumer
  PROVE  QueueInv'
<1> USE NamesAssumption, RestartsAssumption, CapacityAssumption
    DEF QueueInv, consumer
<1>1. TypeOK'
  BY DEF TypeOK, AdderOwnsMessage, PCs, Stages, Adders
<1>2. AdderOwnsMessage'
  BY DEF TypeOK, AdderOwnsMessage, LockDiscipline, InCriticalSection,
         ChannelHoldsQueued, Adders
<1>3. LockDiscipline'
  BY DEF TypeOK, AdderOwnsMessage, LockDiscipline, InCriticalSection,
         ChannelHoldsQueued, Adders
<1>4. ChannelHoldsQueued'
  <2>1. /\ message \in Seq(MsgIds) /\ message # <<>>
        /\ Len(message') = Len(message) - 1
        /\ \A i \in 1..Len(message') : message'[i] = message[i + 1]
    BY DEF TypeOK
  <2>2. /\ Head(message) = message[1]
        /\ message[1] \in MsgIds
        /\ Len(message) \in Nat /\ Len(message) >= 1
    BY <2>1
  <2>3. ASSUME NEW i \in 1..Len(message')
        PROVE  /\ message'[i] = message[i + 1]
               /\ i + 1 \in 1..Len(message)
               /\ message[i + 1] # message[1]
               /\ message[i + 1] \in MsgIds
               /\ stage'[message'[i]] = "queued"
    <3>1. message'[i] = message[i + 1] /\ i + 1 \in 1..Len(message) /\ i + 1 # 1
      BY <2>1, <2>2
    <3>2. message[i + 1] # message[1] /\ stage[message[i + 1]] = "queued"
      BY <3>1, <2>2 DEF ChannelHoldsQueued
    <3>3. message[i + 1] \in MsgIds
      BY <3>1, <2>1
    <3> QED
      BY <3>1, <3>2, <3>3, <2>2 DEF TypeOK
  <2>4. ASSUME NEW id \in MsgIds, stage'[id] = "queued"
        PROVE  \E i \in 1..Len(message') : message'[i] = id
    <3>1. id # message[1] /\ stage[id] = "queued"
      BY <2>2, <2>4 DEF TypeOK
    <3>2. PICK k \in 1..Len(message) : message[k] = id
      BY <3>1 DEF ChannelHoldsQueued
    <3>3. k - 1 \in 1..Len(message') /\ message'[k - 1] = message[k]
      BY <3>1, <3>2, <2>1, <2>2
    <3> QED
      BY <3>2, <3>3
  <2>5. ASSUME NEW i \in 1..Len(message'), NEW j \in 1..Len(message'),
               message'[i] = message'[j]
        PROVE  i = j
    <3>1. message[i + 1] = message[j + 1]
      BY <2>3, <2>5
    <3>2. i + 1 = j + 1
      BY <3>1, <2>3 DEF ChannelHoldsQueued
    <3> QED
      BY <3>2, <2>1, <2>2
  <2> QED
    BY <2>3, <2>4, <2>5 DEF ChannelHoldsQueued
<1>5. NoOrphanKey'
  BY DEF TypeOK, AdderOwnsMessage, LockDiscipline, InCriticalSection,
         NoOrphanKey, InFlight, Sending, ChannelHoldsQueued, Adders
<1> QED
  BY <1>1, <1>2, <1>3, <1>4, <1>5

\* The invariant is preserved by a handler acquiring the lock.
LEMMA HandlerLockStep ==
  ASSUME NEW id \in MsgIds,
         QueueInv, HandlerLock(id)
  PROVE  QueueInv'
<1> USE NamesAssumption, RestartsAssumption, CapacityAssumption
    DEF QueueInv, HandlerLock
<1>1. TypeOK'
  BY DEF TypeOK, AdderOwnsMessage, PCs, Stages, Adders
<1>2. AdderOwnsMessage'
  BY DEF TypeOK, AdderOwnsMessage, LockDiscipline, InCriticalSection,
         ChannelHoldsQueued, Adders
<1>3. LockDiscipline'
  BY DEF TypeOK, AdderOwnsMessage, LockDiscipline, InCriticalSection,
         ChannelHoldsQueued, Adders
<1>4. ChannelHoldsQueued'
  BY SMTT(60) DEF TypeOK, AdderOwnsMessage, LockDiscipline, ChannelHoldsQueued
<1>5. NoOrphanKey'
  BY DEF TypeOK, AdderOwnsMessage, LockDiscipline, InCriticalSection,
         NoOrphanKey, InFlight, Sending, ChannelHoldsQueued, Adders
<1> QED
  BY <1>1, <1>2, <1>3, <1>4, <1>5

\* The invariant is preserved by a handler that is done.
LEMMA HandlerFinishStep ==
  ASSUME NEW id \in MsgIds,
         QueueInv, HandlerFinish(id)
  PROVE  QueueInv'
<1> USE NamesAssumption, RestartsAssumption, CapacityAssumption
    DEF QueueInv, HandlerFinish
<1>1. TypeOK'
  BY DEF TypeOK, AdderOwnsMessage, PCs, Stages, Adders
<1>2. AdderOwnsMessage'
  BY DEF TypeOK, AdderOwnsMessage, LockDiscipline, InCriticalSection,
         ChannelHoldsQueued, Adders
<1>3. LockDiscipline'
  BY DEF TypeOK, AdderOwnsMessage, LockDiscipline, InCriticalSection,
         ChannelHoldsQueued, Adders
<1>4. ChannelHoldsQueued'
  BY DEF TypeOK, AdderOwnsMessage, LockDiscipline, ChannelHoldsQueued
<1>5. NoOrphanKey'
  BY DEF TypeOK, AdderOwnsMessage, LockDiscipline, InCriticalSection,
         NoOrphanKey, InFlight, Sending, ChannelHoldsQueued, Adders
<1> QED
  BY <1>1, <1>2, <1>3, <1>4, <1>5

\* The invariant is preserved by a handler that failed before the timeout.
LEMMA HandlerRetryStep ==
  ASSUME NEW id \in MsgIds,
         QueueInv, HandlerRetry(id)
  PROVE  QueueInv'
<1> USE NamesAssumption, RestartsAssumption, CapacityAssumption
    DEF QueueInv, HandlerRetry
<1>1. TypeOK'
  BY DEF TypeOK, AdderOwnsMessage, PCs, Stages, Adders
<1>2. AdderOwnsMessage'
  BY DEF TypeOK, AdderOwnsMessage, LockDiscipline, InCriticalSection,
         ChannelHoldsQueued, Adders
<1>3. LockDiscipline'
  BY DEF TypeOK, AdderOwnsMessage, LockDiscipline, InCriticalSection,
         ChannelHoldsQueued, Adders
<1>4. ChannelHoldsQueued'
  BY DEF TypeOK, AdderOwnsMessage, LockDiscipline, ChannelHoldsQueued
<1>5. NoOrphanKey'
  BY DEF TypeOK, AdderOwnsMessage, LockDiscipline, InCriticalSection,
         NoOrphanKey, InFlight, Sending, ChannelHoldsQueued, Adders
<1> QED
  BY <1>1, <1>2, <1>3, <1>4, <1>5, SMTT(60)

\* The invariant is preserved by the send in the deferred function.
LEMMA HandlerRequeueStep ==
  ASSUME NEW id \in MsgIds,
         QueueInv, HandlerRequeue(id)
  PROVE  QueueInv'
<1> USE NamesAssumption, RestartsAssumption, CapacityAssumption
    DEF QueueInv, HandlerRequeue
<1>1. TypeOK'
  BY DEF TypeOK, AdderOwnsMessage, PCs, Stages, Adders
<1>2. AdderOwnsMessage'
  BY DEF TypeOK, AdderOwnsMessage, LockDiscipline, InCriticalSection,
         ChannelHoldsQueued, Adders
<1>3. LockDiscipline'
  BY DEF TypeOK, AdderOwnsMessage, LockDiscipline, InCriticalSection,
         ChannelHoldsQueued, Adders
<1>4. ChannelHoldsQueued'
  BY SMTT(60) DEF TypeOK, AdderOwnsMessage, LockDiscipline, ChannelHoldsQueued
<1>5. NoOrphanKey'
  BY DEF TypeOK, AdderOwnsMessage, LockDiscipline, InCriticalSection,
         NoOrphanKey, InFlight, Sending, ChannelHoldsQueued, Adders
<1> QED
  BY <1>1, <1>2, <1>3, <1>4, <1>5

\* The invariant is preserved by a message reaching its timeout.
LEMMA TimeoutStep ==
  ASSUME NEW id \in MsgIds,
         QueueInv, Timeout(id)
  PROVE  QueueInv'
<1> USE NamesAssumption, RestartsAssumption, CapacityAssumption
    DEF QueueInv, Timeout
<1>1. TypeOK'
  BY DEF TypeOK, AdderOwnsMessage, PCs, Stages, Adders
<1>2. AdderOwnsMessage'
  BY DEF TypeOK, AdderOwnsMessage, LockDiscipline, InCriticalSection,
         ChannelHoldsQueued, Adders
<1>3. LockDiscipline'
  BY DEF TypeOK, AdderOwnsMessage, LockDiscipline, InCriticalSection,
         ChannelHoldsQueued, Adders
<1>4. ChannelHoldsQueued'
  BY ZenonT(60) DEF TypeOK, AdderOwnsMessage, LockDiscipline, ChannelHoldsQueued
<1>5. NoOrphanKey'
  BY DEF TypeOK, AdderOwnsMessage, LockDiscipline, InCriticalSection,
         NoOrphanKey, InFlight, Sending, ChannelHoldsQueued, Adders
<1> QED
  BY <1>1, <1>2, <1>3, <1>4, <1>5

\* The invariant is preserved by a process restart.
LEMMA RestartStep ==
  ASSUME QueueInv, Restart
  PROVE  QueueInv'
<1> USE NamesAssumption, RestartsAssumption, CapacityAssumption
    DEF QueueInv, Restart
<1>1. TypeOK'
  BY DEF TypeOK, AdderOwnsMessage, PCs, Stages, Adders
<1>2. AdderOwnsMessage'
  BY DEF TypeOK, AdderOwnsMessage, LockDiscipline, InCriticalSection,
         ChannelHoldsQueued, Adders
<1>3. LockDiscipline'
  BY DEF TypeOK, AdderOwnsMessage, LockDiscipline, InCriticalSection,
         ChannelHoldsQueued, Adders
<1>4. ChannelHoldsQueued'
  BY DEF TypeOK, AdderOwnsMessage, LockDiscipline, ChannelHoldsQueued
<1>5. NoOrphanKey'
  BY DEF TypeOK, AdderOwnsMessage, LockDiscipline, InCriticalSection,
         NoOrphanKey, InFlight, Sending, ChannelHoldsQueued, Adders
<1> QED
  BY <1>1, <1>2, <1>3, <1>4, <1>5

\* The invariant is inductive.
LEMMA InvStep == QueueInv /\ [Next]_vars => QueueInv'
<1> SUFFICES ASSUME QueueInv, [Next]_vars PROVE QueueInv'
  OBVIOUS
<1>1. CASE UNCHANGED vars
  BY <1>1 DEF vars, QueueInv, TypeOK, AdderOwnsMessage, LockDiscipline,
         InCriticalSection, ChannelHoldsQueued, NoOrphanKey, InFlight, Sending
<1>2. CASE Next
  BY <1>2, ProducerStep, SubscriptionClosedStep, ListenerExitStep, ListenStep,
     SendFailoverMsgStep, CheckKeyStep, InsertKeyStep, ChanSendStep,
     AddReturnStep, ConsumerStep, HandlerLockStep, HandlerFinishStep,
     HandlerRetryStep, HandlerRequeueStep, TimeoutStep, RestartStep
  DEF Next, AddStep, HandlerStep
<1> QED
  BY <1>1, <1>2

\* QueueInv holds in every reachable state.
THEOREM Invariance == Spec => []QueueInv
BY InitInv, InvStep, PTL DEF Spec

\* The variables of the events package keep their types.
THEOREM TypeCorrect == Spec => []TypeOK
<1>1. QueueInv => TypeOK
  BY DEF QueueInv
<1> QED
  BY Invariance, <1>1, PTL

\* No ip is ever left in messageQueue.keys without a message that will remove
\* it, however the unlocked SendFailoverMsg, the listeners, the handlers and
\* restarts interleave.
THEOREM NoOrphanKeys == Spec => []NoOrphanKey
<1>1. QueueInv => NoOrphanKey
  BY DEF QueueInv
<1> QED
  BY Invariance, <1>1, PTL

\* The channel loses and duplicates nothing, retries included.
THEOREM ChannelExact == Spec => []ChannelHoldsQueued
<1>1. QueueInv => ChannelHoldsQueued
  BY DEF QueueInv
<1> QED
  BY Invariance, <1>1, PTL

\* Handlers and listeners exclude each other.
THEOREM MutualExclusion == Spec => []LockDiscipline
<1>1. QueueInv => LockDiscipline
  BY Zenon DEF QueueInv
<1> QED
  BY Invariance, <1>1, PTL

-----------------------------------------------------------------------------
(* Without a reconcile worker that bypasses the lock *)

\* The strengthening behind AtMostOneMessagePerIP: a message on its way has its
\* key in the map, and a listener about to insert a key still sees it absent.
LockedInv ==
  /\ AtMostOneMessagePerIP
  /\ \A id \in MsgIds : InFlight(id) \/ Sending(id) => ipOf[id] \in keys
  /\ \A a \in Adders : pc[a] = "insert" => ipOf[cur[a]] \notin keys

\* When every adder takes the lock, each action preserves LockedInv.
LEMMA LockedStep ==
  ASSUME Reconcilers = {}, QueueInv, LockedInv, [Next]_vars
  PROVE  LockedInv'
<1> USE NamesAssumption DEF QueueInv, TypeOK, AdderOwnsMessage, LockDiscipline,
      InCriticalSection, ChannelHoldsQueued, LockedInv, AtMostOneMessagePerIP,
      InFlight, Sending, Adders
<1>1. ASSUME NEW s \in Sentinels, producer(s) PROVE LockedInv'
  BY <1>1, SMTT(60) DEF producer
<1>2. ASSUME NEW s \in Sentinels, SubscriptionClosed(s) PROVE LockedInv'
  BY <1>2, SMTT(60) DEF SubscriptionClosed
<1>3. ASSUME NEW s \in Sentinels, ListenerExit(s) PROVE LockedInv'
  BY <1>3, SMTT(60) DEF ListenerExit
<1>4. ASSUME NEW s \in Sentinels, NEW id \in MsgIds, NEW ip \in IPs, listen(s, id, ip) PROVE LockedInv'
  BY <1>4, SMTT(60) DEF listen, NewMessage
<1>5. ASSUME NEW a \in Adders, CheckKey(a) PROVE LockedInv'
  BY <1>5 DEF CheckKey
<1>6. ASSUME NEW a \in Adders, InsertKey(a) PROVE LockedInv'
  BY <1>6 DEF InsertKey
<1>7. ASSUME NEW a \in Adders, ChanSend(a) PROVE LockedInv'
  BY <1>7 DEF ChanSend
<1>8. ASSUME NEW a \in Adders, AddReturn(a) PROVE LockedInv'
  BY <1>8, SMTT(60) DEF AddReturn
<1>9. ASSUME consumer PROVE LockedInv'
  BY <1>9, SMTT(60) DEF consumer
<1>10. ASSUME NEW id \in MsgIds, HandlerLock(id) PROVE LockedInv'
  BY <1>10, SMTT(60) DEF HandlerLock
<1>11. ASSUME NEW id \in MsgIds, HandlerFinish(id) PROVE LockedInv'
  BY <1>11, SMTT(60) DEF HandlerFinish
<1>12. ASSUME NEW id \in MsgIds, HandlerRetry(id) PROVE LockedInv'
  BY <1>12, SMTT(60) DEF HandlerRetry
<1>13. ASSUME NEW id \in MsgIds, HandlerRequeue(id) PROVE LockedInv'
  BY <1>13, SMTT(60) DEF HandlerRequeue
<1>14. ASSUME NEW id \in MsgIds, Timeout(id) PROVE LockedInv'
  BY <1>14, SMTT(60) DEF Timeout
<1>15. ASSUME Restart PROVE LockedInv'
  BY <1>15, Zenon DEF Restart
<1>16. CASE UNCHANGED vars
  BY <1>16 DEF vars
<1> QED
  BY <1>1, <1>2, <1>3, <1>4, <1>5, <1>6, <1>7, <1>8, <1>9, <1>10, <1>11, <1>12, <1>13,
     <1>14, <1>15, <1>16, Zenon
  DEF Next, AddStep, HandlerStep

\* If no reconcile worker calls SendFailoverMsg, e.lock makes the lookup and the
\* insertion in add atomic: no ip has two messages on their way at once.
THEOREM LockPreventsDuplicates ==
  ASSUME Reconcilers = {}
  PROVE  Spec => []AtMostOneMessagePerIP
<1>1. Init => LockedInv
  BY DEF Init, LockedInv, AtMostOneMessagePerIP, InFlight, Sending
<1>2. QueueInv /\ LockedInv /\ [Next]_vars => LockedInv'
  BY LockedStep
<1>3. LockedInv => AtMostOneMessagePerIP
  BY ZenonT(60) DEF LockedInv
<1> QED
  BY Invariance, <1>1, <1>2, <1>3, PTL DEF Spec
-----------------------------------------------------------------------------
(* Listeners *)

\* The registration of a sentinel and its goroutine come and go together: they
\* change only in producer, ListenerExit and Restart, in one step each, and no step
\* of add or of a handler starts or ends a goroutine.
LEMMA ListenerStep ==
  ASSUME TypeOK, OneListenerPerSentinel, [Next]_vars
  PROVE  OneListenerPerSentinel'
<1> USE NamesAssumption DEF TypeOK, OneListenerPerSentinel, Adders
<1>1. ASSUME NEW s \in Sentinels, producer(s) \/ SubscriptionClosed(s) \/ ListenerExit(s)
      PROVE  OneListenerPerSentinel'
  BY <1>1 DEF producer, SubscriptionClosed, ListenerExit
<1>2. ASSUME NEW a \in Adders, NEW id \in MsgIds, NEW ip \in IPs, NewMessage(a, id, ip),
             UNCHANGED producerSentinels
      PROVE  OneListenerPerSentinel'
  BY <1>2, SMTT(60) DEF NewMessage
<1>3. ASSUME NEW a \in Adders, AddStep(a) PROVE OneListenerPerSentinel'
  BY <1>3 DEF AddStep, CheckKey, InsertKey, ChanSend, AddReturn
<1>4. ASSUME UNCHANGED <<pc, producerSentinels>> PROVE OneListenerPerSentinel'
  BY <1>4
<1>5. CASE Restart
  BY <1>5 DEF Restart
<1>6. CASE UNCHANGED vars
  BY <1>4, <1>6, SMTT(60) DEF vars
<1>7. ASSUME NEW id \in MsgIds, HandlerStep(id) \/ Timeout(id) PROVE OneListenerPerSentinel'
  BY <1>4, <1>7 DEF HandlerStep, HandlerLock, HandlerFinish, HandlerRetry, HandlerRequeue, Timeout
<1>8. CASE consumer
  BY <1>4, <1>8 DEF consumer
<1> QED
  BY <1>1, <1>2, <1>3, <1>5, <1>6, <1>7, <1>8 DEF Next, listen, SendFailoverMsg

\* However subscriptions end and messages are added, a sentinel pod is registered
\* in producerSentinels exactly while its listener goroutine exists, so the cron
\* job never subscribes a second time and never misses a pod.
THEOREM ListenersRegistered == Spec => []OneListenerPerSentinel
<1>1. Init => OneListenerPerSentinel
  BY NamesAssumption DEF Init, OneListenerPerSentinel, Adders
<1>2. TypeOK /\ OneListenerPerSentinel /\ [Next]_vars => OneListenerPerSentinel'
  BY ListenerStep
<1> QED
  BY <1>1, <1>2, TypeCorrect, PTL DEF Spec
=============================================================================
