------------------------ MODULE OverwriteQueue_proofs ------------------------
(***************************************************************************)
(* The put-or-purge loop, for every set of producers with any priorities,  *)
(* every capacity and every number of messages; and, when the queue has    *)
(* one producer, that the loop is the atomic overwrite of module Mailbox.  *)
(***************************************************************************)
EXTENDS OverwriteQueue, Msgq_proofs

-----------------------------------------------------------------------------
\* Any number of producers.

NewestIsLast == queue # << >> => queue[Len(queue)] = lastPut

LossInv == TypeOK /\ NewestIsLast /\ NewestSurvives

LEMMA InitLossInv == Init => LossInv
  <1> SUFFICES ASSUME Init PROVE LossInv
    OBVIOUS
  <1>1. TypeOK
    <2>1. << >> \in Seq(Message) /\ Len(<< >>) = 0 /\ 0 <= Depth
      BY DepthAssumption
    <2>2. 0 \in 0..MaxIssued
      BY BoundAssumption
    <2> QED
      BY <2>1, <2>2 DEF Init, TypeOK, InLoop
  <1> QED
    BY <1>1 DEF Init, LossInv, NewestIsLast, NewestSurvives

\* What one call of k_msgq_get does to the queue.
LEMMA GetEffect ==
  ASSUME TypeOK, Get
  PROVE  \/ queue = << >> /\ UNCHANGED <<queue, lastGot>>
         \/ /\ queue # << >> /\ Len(queue) \in Nat \ {0}
            /\ lastGot' = queue[1] /\ lastGot' \in Message
            /\ queue' \in Seq(Message)
            /\ Len(queue') = Len(queue) - 1
            /\ \A i \in 1..Len(queue') : queue'[i] = queue[i + 1]
  <1>1. queue \in Seq(Message)
    BY DEF TypeOK
  <1>2. CASE MsgqEmpty(queue)
    BY <1>2 DEF Get, MsgqEmpty
  <1>3. CASE ~MsgqEmpty(queue)
    BY <1>1, <1>3, GotRest DEF Get, MsgqEmpty
  <1> QED BY <1>2, <1>3

\* What one call of k_msgq_put does to the queue.
LEMMA PutEffect ==
  ASSUME TypeOK, NEW p \in Producers, Put(p)
  PROVE  /\ p \in writers /\ hand[p] \in Message /\ writers' = writers
         /\ \/ /\ Len(queue) = Depth /\ queue # << >>
               /\ pc' = [pc EXCEPT ![p] = "purge"]
               /\ UNCHANGED <<queue, lastPut>>
            \/ /\ pc' = [pc EXCEPT ![p] = "idle"]
               /\ lastPut' = hand[p]
               /\ Len(queue) < Depth
               /\ queue' = Append(queue, hand[p])
               /\ queue' \in Seq(Message) /\ queue' # << >>
               /\ Len(queue') = Len(queue) + 1
               /\ Len(queue') <= Depth
               /\ queue'[Len(queue')] = hand[p]
               /\ \A i \in 1..Len(queue) : queue'[i] = queue[i]
  <1>1. queue \in Seq(Message) /\ Len(queue) <= Depth /\ Len(queue) \in Nat
    BY DEF TypeOK
  <1>2. p \in writers /\ hand[p] \in Message /\ writers' = writers
    BY DEF TypeOK, Put, InLoop
  <1>3. CASE MsgqFull(queue, Depth)
    <2>1. Len(queue) = Depth /\ Len(queue) # 0
      BY <1>1, <1>3, DepthAssumption DEF MsgqFull
    <2>2. queue # << >>
      BY <2>1
    <2> QED
      BY <1>2, <1>3, <2>1, <2>2 DEF Put
  <1>4. CASE ~MsgqFull(queue, Depth)
    <2>1. queue' = MsgqPut(queue, hand[p])
      BY <1>4 DEF Put
    <2>2. /\ MsgqPut(queue, hand[p]) \in Seq(Message)
          /\ Len(MsgqPut(queue, hand[p])) = Len(queue) + 1
          /\ Len(MsgqPut(queue, hand[p])) <= Depth
          /\ MsgqPut(queue, hand[p])[Len(queue) + 1] = hand[p]
          /\ \A i \in 1..Len(queue) : MsgqPut(queue, hand[p])[i] = queue[i]
      BY <1>1, <1>2, <1>4, PutFits, DepthAssumption
    <2>3. queue' # << >>
      BY <1>1, <2>1, <2>2
    <2>4. Len(queue) < Depth
      BY <1>1, <1>4, DepthAssumption DEF MsgqFull
    <2> QED
      BY <1>1, <1>2, <1>4, <2>1, <2>2, <2>3, <2>4 DEF Put, MsgqPut
  <1> QED BY <1>3, <1>4

LEMMA StepType == TypeOK /\ [Next]_vars => TypeOK'
  <1> SUFFICES ASSUME TypeOK, [Next]_vars PROVE TypeOK'
    OBVIOUS
  <1>1. CASE Get
    BY <1>1, GetEffect, DepthAssumption DEF TypeOK, Get, Message, InLoop
  <1>2. ASSUME NEW p \in Producers, Issue(p) PROVE TypeOK'
    <2>1. issued + 1 \in Message /\ issued + 1 \in 0..MaxIssued
      BY <1>2, BoundAssumption DEF TypeOK, Issue, Message
    <2> QED
      BY <1>2, <2>1 DEF TypeOK, Issue, InLoop
  <1>3. ASSUME NEW p \in Producers, Put(p) PROVE TypeOK'
    <2>1. /\ queue' \in Seq(Message) /\ Len(queue') <= Depth
          /\ lastPut' \in 0..MaxIssued
      BY <1>3, PutEffect DEF TypeOK, Message
    <2>2. pc' \in [Producers -> {"idle", "put", "purge", "retry"}]
      BY <1>3, PutEffect DEF TypeOK
    <2>3. \A q \in Producers : InLoop(q)' => q \in writers /\ hand[q] \in Message
      BY <1>3, PutEffect DEF TypeOK, InLoop
    <2> QED
      BY <1>3, <2>1, <2>2, <2>3 DEF TypeOK, Put, InLoop
  <1>4. ASSUME NEW p \in Producers, Purge(p) PROVE TypeOK'
    <2>1. << >> \in Seq(Message) /\ Len(<< >>) <= Depth
      BY DepthAssumption
    <2> QED
      BY <1>4, <2>1 DEF TypeOK, Purge, MsgqPurged, InLoop
  <1>5. CASE UNCHANGED vars
    BY <1>5 DEF vars, TypeOK, InLoop
  <1> QED
    BY <1>1, <1>2, <1>3, <1>4, <1>5 DEF Next

LEMMA StepLossInv == LossInv /\ [Next]_vars => LossInv'
  <1> SUFFICES ASSUME LossInv, [Next]_vars PROVE LossInv'
    OBVIOUS
  <1>0. TypeOK /\ NewestIsLast /\ NewestSurvives /\ TypeOK'
    BY StepType DEF LossInv
  <1> SUFFICES NewestIsLast' /\ NewestSurvives'
    BY <1>0 DEF LossInv
  <1>1. CASE Get
    <2>1. CASE queue = << >> /\ UNCHANGED <<queue, lastGot>>
      BY <1>0, <1>1, <2>1 DEF Get, NewestIsLast, NewestSurvives
    <2>2. CASE queue # << >> /\ Len(queue) = 1
      <3>1. lastGot' = lastPut /\ Len(queue') = 0 /\ queue' \in Seq(Message)
        BY <1>0, <1>1, <2>2, GetEffect DEF NewestIsLast
      <3>2. queue' = << >>
        BY <3>1
      <3> QED
        BY <1>1, <3>1, <3>2 DEF Get, NewestIsLast, NewestSurvives
    <2>3. CASE queue # << >> /\ Len(queue) # 1
      <3>1. /\ Len(queue) \in Nat \ {0} /\ Len(queue') = Len(queue) - 1
            /\ \A i \in 1..Len(queue') : queue'[i] = queue[i + 1]
        BY <1>0, <1>1, <2>3, GetEffect
      <3>2. Len(queue') \in 1..Len(queue')
        BY <2>3, <3>1
      <3>3. queue'[Len(queue')] = queue[Len(queue)] /\ queue' # << >>
        BY <3>1, <3>2
      <3> QED
        BY <1>0, <1>1, <2>3, <3>3 DEF Get, NewestIsLast, NewestSurvives
    <2> QED
      BY <1>0, <1>1, <2>1, <2>2, <2>3, GetEffect
  <1>2. ASSUME NEW p \in Producers, Issue(p)
        PROVE  NewestIsLast' /\ NewestSurvives'
    BY <1>0, <1>2 DEF Issue, InLoop, NewestIsLast, NewestSurvives, TypeOK
  <1>3. ASSUME NEW p \in Producers, Put(p)
        PROVE  NewestIsLast' /\ NewestSurvives'
    <2>1. CASE queue # << >> /\ UNCHANGED <<queue, lastPut>>
      BY <1>0, <2>1 DEF NewestIsLast, NewestSurvives
    <2>2. CASE queue' # << >> /\ queue'[Len(queue')] = lastPut'
      BY <2>2 DEF NewestIsLast, NewestSurvives
    <2> QED
      BY <1>0, <1>3, <2>1, <2>2, PutEffect
  <1>4. ASSUME NEW p \in Producers, Purge(p)
        PROVE  NewestIsLast' /\ NewestSurvives'
    <2>1. queue' = << >> /\ pc'[p] = "retry"
      BY <1>0, <1>4 DEF Purge, MsgqPurged, TypeOK
    <2> QED
      BY <2>1 DEF NewestIsLast, NewestSurvives
  <1>5. CASE UNCHANGED vars
    BY <1>0, <1>5 DEF vars, NewestIsLast, NewestSurvives
  <1> QED
    BY <1>1, <1>2, <1>3, <1>4, <1>5 DEF Next

\* The queue never holds more than its capacity, whoever writes to it.
THEOREM QueueTypeCorrect == Spec => []TypeOK
  <1>1. Init => TypeOK
    BY InitLossInv DEF LossInv
  <1> QED
    BY <1>1, StepType, PTL DEF Spec

\* A message the reader has not seen is lost only to a newer one on its way, even
\* when several threads run the loop on the same queue (desired_rpm_queue and
\* actuator_data_queue of tbot_interface.c have two writers each).
THEOREM NothingLostWithoutSuccessor == Spec => []NewestSurvives
  BY InitLossInv, StepLossInv, PTL DEF Spec, LossInv

-----------------------------------------------------------------------------
\* One producer.

\* Nothing in the queue, in the producer's hand or with the reader was issued in
\* the future.
IssuedInv ==
  SingleProducer =>
    /\ \A i \in 1..Len(queue) : queue[i] <= issued
    /\ lastGot <= issued
    /\ \A p \in Producers : hand[p] <= issued

OneInv == TypeOK /\ IssuedInv /\ OnePurgeSuffices /\ InSendOrder

\* The set of producers never changes, so a single one stays single.
LEMMA WritersFixed ==
  ASSUME [Next]_vars
  PROVE  writers' = writers /\ SingleProducer' = SingleProducer
  <1>1. writers' = writers
    BY DEF Next, vars, Issue, Put, Purge, Get
  <1> QED
    BY <1>1 DEF SingleProducer

\* When p is the only producer, nobody else is in the loop.
LEMMA OnlyWriter ==
  ASSUME SingleProducer, TypeOK, NEW p \in Producers, p \in writers
  PROVE  \A q \in Producers : InLoop(q) => q = p
  BY DEF SingleProducer, TypeOK

LEMMA InitOneInv == Init => OneInv
  <1> SUFFICES ASSUME Init PROVE OneInv
    OBVIOUS
  <1>1. TypeOK
    BY InitLossInv DEF LossInv
  <1>2. IssuedInv /\ OnePurgeSuffices /\ InSendOrder
    BY DEF Init, IssuedInv, OnePurgeSuffices, InSendOrder, InLoop
  <1> QED
    BY <1>1, <1>2 DEF OneInv

LEMMA StepSingle == SingleProducer /\ OneInv /\ [Next]_vars => OneInv'
  <1> SUFFICES ASSUME SingleProducer, OneInv, [Next]_vars PROVE OneInv'
    OBVIOUS
  <1>0. /\ TypeOK /\ TypeOK' /\ IssuedInv /\ OnePurgeSuffices /\ InSendOrder
        /\ writers' = writers /\ SingleProducer'
    BY StepType, WritersFixed DEF OneInv
  <1> SUFFICES IssuedInv' /\ OnePurgeSuffices' /\ InSendOrder'
    BY <1>0 DEF OneInv
  <1>a. /\ issued \in Nat /\ lastGot \in Nat /\ Len(queue) \in Nat
        /\ \A p \in Producers : hand[p] \in Nat
        /\ \A i \in 1..Len(queue) : queue[i] \in Nat
    BY <1>0, BoundAssumption DEF TypeOK, Message
  <1>b. /\ \A i, j \in 1..Len(queue) : i < j => queue[i] < queue[j]
        /\ \A i \in 1..Len(queue) : lastGot < queue[i] /\ queue[i] <= issued
        /\ \A p \in Producers : InLoop(p) =>
             /\ lastGot < hand[p]
             /\ \A i \in 1..Len(queue) : queue[i] < hand[p]
    BY <1>0 DEF InSendOrder, IssuedInv
  <1>1. CASE Get
    <2>1. CASE queue = << >> /\ UNCHANGED <<queue, lastGot>>
      BY <1>0, <1>1, <2>1
      DEF Get, IssuedInv, OnePurgeSuffices, InSendOrder, InLoop
    <2>2. CASE queue # << >>
      <3>1. /\ Len(queue) \in Nat \ {0} /\ Len(queue') = Len(queue) - 1
            /\ lastGot' = queue[1]
            /\ \A i \in 1..Len(queue') : queue'[i] = queue[i + 1]
        BY <1>0, <1>1, <2>2, GetEffect
      <3>2. UNCHANGED <<pc, hand, issued>>
        BY <1>1 DEF Get
      <3>3. IssuedInv'
        BY <1>0, <1>a, <1>b, <3>1, <3>2 DEF IssuedInv
      <3>4. OnePurgeSuffices'
        BY <1>0, <2>2, <3>2 DEF OnePurgeSuffices
      <3>5. InSendOrder'
        <4>1. \A i \in 1..Len(queue') : i + 1 \in 1..Len(queue) /\ 1 < i + 1
          BY <3>1
        <4>2. 1 \in 1..Len(queue)
          BY <3>1
        <4>3. \A i \in 1..Len(queue') : lastGot' < queue'[i]
          BY <1>b, <3>1, <4>1, <4>2
        <4>4. \A i, j \in 1..Len(queue') : i < j => queue'[i] < queue'[j]
          BY <1>b, <3>1, <4>1
        <4>5. \A p \in Producers : InLoop(p)' =>
                /\ lastGot' < hand'[p]
                /\ \A i \in 1..Len(queue') : queue'[i] < hand'[p]
          BY <1>b, <3>1, <3>2, <4>1, <4>2 DEF InLoop
        <4> QED
          BY <4>3, <4>4, <4>5 DEF InSendOrder
      <3> QED
        BY <3>3, <3>4, <3>5
    <2> QED
      BY <1>0, <1>1, <2>1, <2>2, GetEffect
  <1>2. ASSUME NEW p \in Producers, Issue(p)
        PROVE  IssuedInv' /\ OnePurgeSuffices' /\ InSendOrder'
    <2>1. /\ UNCHANGED <<queue, lastGot>> /\ issued' = issued + 1
          /\ hand'[p] = issued + 1 /\ pc'[p] = "put"
          /\ p \in writers /\ pc' = [pc EXCEPT ![p] = "put"]
          /\ hand' = [hand EXCEPT ![p] = issued + 1]
          /\ \A q \in Producers : ~InLoop(q)
          /\ \A q \in Producers : InLoop(q)' => q = p
      BY <1>0, <1>2, OnlyWriter DEF Issue, TypeOK, InLoop
    <2>2. IssuedInv'
      BY <1>0, <1>a, <2>1 DEF IssuedInv
    <2>3. OnePurgeSuffices'
      BY <2>1 DEF OnePurgeSuffices, InLoop
    <2>4. InSendOrder'
      BY <1>0, <1>a, <1>b, <2>1 DEF InSendOrder, InLoop, IssuedInv
    <2> QED BY <2>2, <2>3, <2>4
  <1>3. ASSUME NEW p \in Producers, Put(p)
        PROVE  IssuedInv' /\ OnePurgeSuffices' /\ InSendOrder'
    <2>1. /\ UNCHANGED <<hand, issued, lastGot>>
          /\ InLoop(p)
          /\ \A q \in Producers : InLoop(q) => q = p
      BY <1>0, <1>3, PutEffect, OnlyWriter DEF Put, InLoop
    <2>2. CASE pc' = [pc EXCEPT ![p] = "purge"] /\ UNCHANGED queue
      BY <1>0, <1>b, <2>1, <2>2
      DEF IssuedInv, OnePurgeSuffices, InSendOrder, InLoop, TypeOK
    <2>3. CASE /\ pc' = [pc EXCEPT ![p] = "idle"]
               /\ Len(queue') = Len(queue) + 1
               /\ queue'[Len(queue')] = hand[p]
               /\ \A i \in 1..Len(queue) : queue'[i] = queue[i]
      <3>1. \A i \in 1..Len(queue') : i \in 1..Len(queue) \/ i = Len(queue')
        BY <1>a, <2>3
      <3>2. \A q \in Producers : ~InLoop(q)'
        BY <1>0, <2>1, <2>3 DEF InLoop, TypeOK
      <3>3. IssuedInv'
        BY <1>0, <1>a, <2>1, <2>3, <3>1 DEF IssuedInv
      <3>4. OnePurgeSuffices'
        BY <3>2 DEF OnePurgeSuffices, InLoop
      <3>5. \A i \in 1..Len(queue') : lastGot' < queue'[i]
        BY <1>b, <2>1, <2>3, <3>1
      <3>6. \A i, j \in 1..Len(queue') : i < j => queue'[i] < queue'[j]
        <4> SUFFICES ASSUME NEW i \in 1..Len(queue'), NEW j \in 1..Len(queue'),
                            i < j
                     PROVE  queue'[i] < queue'[j]
          OBVIOUS
        <4>1. i \in 1..Len(queue)
          BY <1>a, <2>3
        <4>2. CASE j \in 1..Len(queue)
          BY <1>b, <2>3, <4>1, <4>2
        <4>3. CASE j = Len(queue')
          BY <1>b, <2>1, <2>3, <4>1, <4>3
        <4> QED
          BY <3>1, <4>2, <4>3
      <3> QED
        BY <3>2, <3>3, <3>4, <3>5, <3>6 DEF InSendOrder
    <2> QED
      BY <1>0, <1>3, <2>2, <2>3, PutEffect
  <1>4. ASSUME NEW p \in Producers, Purge(p)
        PROVE  IssuedInv' /\ OnePurgeSuffices' /\ InSendOrder'
    <2>1. /\ queue' = << >> /\ Len(queue') = 0 /\ InLoop(p)
          /\ UNCHANGED <<hand, issued, lastGot>>
          /\ \A q \in Producers : InLoop(q)' => InLoop(q)
      BY <1>0, <1>4 DEF Purge, MsgqPurged, InLoop, TypeOK
    <2> QED
      BY <1>0, <1>b, <2>1
      DEF IssuedInv, OnePurgeSuffices, InSendOrder
  <1>5. CASE UNCHANGED vars
    BY <1>0, <1>5 DEF vars, IssuedInv, OnePurgeSuffices, InSendOrder, InLoop
  <1> QED
    BY <1>1, <1>2, <1>3, <1>4, <1>5 DEF Next

LEMMA StepOneInv == OneInv /\ [Next]_vars => OneInv'
  <1> SUFFICES ASSUME OneInv, [Next]_vars PROVE OneInv'
    OBVIOUS
  <1>1. CASE SingleProducer
    BY <1>1, StepSingle
  <1>2. CASE ~SingleProducer
    <2>1. TypeOK' /\ ~SingleProducer'
      BY <1>2, StepType, WritersFixed DEF OneInv
    <2> QED
      BY <2>1 DEF OneInv, IssuedInv, OnePurgeSuffices, InSendOrder
  <1> QED
    BY <1>1, <1>2

LEMMA SpecOneInv == Spec => []OneInv
  BY InitOneInv, StepOneInv, PTL DEF Spec

\* A single producer purges at most once per message
\* (e.g. coordinator_service.c:164-177).
THEOREM OnePurge == Spec => []OnePurgeSuffices
  <1>1. OneInv => OnePurgeSuffices
    BY DEF OneInv
  <1> QED
    BY <1>1, SpecOneInv, PTL

\* With a single producer no message overtakes another: what the reader gets is
\* always newer than what it got before.
THEOREM ReaderForward == Spec => ReaderGoesForward
  <1>1. OneInv /\ [Next]_vars => [SingleProducer => lastGot' >= lastGot]_vars
    <2> SUFFICES ASSUME OneInv, Next, SingleProducer PROVE lastGot' >= lastGot
      OBVIOUS
    <2>1. TypeOK /\ InSendOrder /\ lastGot \in Int
      BY BoundAssumption DEF OneInv, TypeOK
    <2>2. CASE Get
      <3>1. CASE UNCHANGED lastGot
        BY <2>1, <3>1
      <3>2. CASE Len(queue) \in Nat \ {0} /\ lastGot' = queue[1]
                 /\ lastGot' \in Message
        <4>1. 1 \in 1..Len(queue) /\ lastGot' \in Int
          BY <3>2 DEF Message
        <4>2. lastGot < queue[1]
          BY <2>1, <4>1 DEF InSendOrder
        <4> QED
          BY <2>1, <3>2, <4>1, <4>2
      <3> QED
        BY <2>1, <2>2, <3>1, <3>2, GetEffect
    <2>3. CASE ~Get
      BY <2>1, <2>3 DEF Next, Issue, Put, Purge
    <2> QED
      BY <2>2, <2>3
  <1> QED
    BY <1>1, SpecOneInv, PTL DEF Spec, ReaderGoesForward

-----------------------------------------------------------------------------
\* One producer: the loop implements the atomic overwrite.

LEMMA InitAtomic == Init => Atomic!Init
  BY DEF Init, Atomic!Init, boxBar, Retrying

\* The message of the producer that has purged and not yet put.
LEMMA RetryingHand ==
  ASSUME SingleProducer, TypeOK, NEW p \in Producers, pc[p] = "retry"
  PROVE  Retrying # {} /\ boxBar = <<hand[p]>>
  <1>1. Retrying = {p}
    BY DEF Retrying, SingleProducer, TypeOK, InLoop
  <1> QED
    BY <1>1 DEF boxBar

LEMMA RetryingHandNext ==
  ASSUME SingleProducer', TypeOK', NEW p \in Producers, pc'[p] = "retry"
  PROVE  boxBar' = <<hand'[p]>>
  <1>1. Retrying' = {p}
    BY DEF Retrying, SingleProducer, TypeOK, InLoop
  <1> QED
    BY <1>1 DEF boxBar

LEMMA StepAtomicSingle ==
  SingleProducer /\ OneInv /\ [Next]_vars => [Atomic!Next]_boxBar
  <1> SUFFICES ASSUME SingleProducer, OneInv, [Next]_vars
               PROVE  [Atomic!Next]_boxBar
    OBVIOUS
  <1>0. /\ TypeOK /\ TypeOK' /\ OnePurgeSuffices
        /\ writers' = writers /\ SingleProducer'
    BY StepType, WritersFixed DEF OneInv
  <1>1. CASE Get
    <2>1. CASE Retrying = {}
      <3>1. boxBar = queue /\ boxBar' = queue'
        BY <1>0, <1>1, <2>1 DEF boxBar, Retrying, Get
      <3>2. CASE MsgqEmpty(queue)
        BY <1>1, <3>1, <3>2 DEF Get
      <3>3. CASE ~MsgqEmpty(queue)
        BY <1>1, <3>1, <3>3
        DEF Get, MsgqEmpty, MsgqRest, Atomic!Next, Atomic!Take
      <3> QED BY <3>2, <3>3
    <2>2. CASE Retrying # {}
      <3>1. queue = << >>
        BY <1>0, <2>2 DEF Retrying, OnePurgeSuffices
      <3> QED
        BY <1>0, <1>1, <3>1 DEF Get, MsgqEmpty, boxBar, Retrying
    <2> QED BY <2>1, <2>2
  <1>2. ASSUME NEW p \in Producers, Issue(p) PROVE UNCHANGED boxBar
    <2>1. \A q \in Producers : ~InLoop(q)
      BY <1>0, <1>2, OnlyWriter DEF Issue
    <2>2. Retrying = {} /\ Retrying' = {}
      BY <1>0, <1>2, <2>1 DEF Issue, InLoop, Retrying, TypeOK
    <2> QED
      BY <1>0, <1>2, <2>2 DEF Issue, boxBar
  <1>3. ASSUME NEW p \in Producers, Put(p) PROVE [Atomic!Next]_boxBar
    <2>0. \A q \in Producers : InLoop(q) => q = p
      BY <1>0, <1>3, PutEffect, OnlyWriter
    <2>1. CASE pc[p] = "put"
      <3>1. Retrying = {} /\ Retrying' = {}
        BY <1>0, <1>3, <2>0, <2>1 DEF Put, Retrying, TypeOK, InLoop
      <3>2. boxBar = queue /\ boxBar' = queue'
        BY <1>0, <3>1 DEF boxBar
      <3>3. CASE queue' = queue
        BY <3>2, <3>3
      <3>4. CASE queue' = Append(queue, hand[p]) /\ hand[p] \in Message
                 /\ Len(queue) < Depth
        BY <3>2, <3>4 DEF Atomic!Next, Atomic!Write
      <3> QED
        BY <1>0, <1>3, <3>3, <3>4, PutEffect
    <2>2. CASE pc[p] = "retry"
      <3>1. queue = << >> /\ boxBar = <<hand[p]>>
        BY <1>0, <2>2, RetryingHand DEF OnePurgeSuffices
      <3>2. queue' = Append(queue, hand[p]) /\ pc'[p] = "idle"
        BY <1>0, <1>3, <3>1, PutEffect DEF TypeOK
      <3>3. Retrying' = {}
        BY <1>0, <1>3, <2>0, <3>2 DEF Retrying, InLoop, Put, TypeOK
      <3>4. boxBar' = <<hand[p]>>
        BY <1>0, <3>1, <3>2, <3>3 DEF boxBar
      <3> QED
        BY <3>1, <3>4
    <2> QED
      BY <1>3, <2>1, <2>2 DEF Put
  <1>4. ASSUME NEW p \in Producers, Purge(p) PROVE [Atomic!Next]_boxBar
    <2>1. pc'[p] = "retry" /\ hand' = hand /\ hand[p] \in Message
      BY <1>0, <1>4 DEF Purge, TypeOK, InLoop
    <2>2. boxBar' = <<hand[p]>>
      BY <1>0, <2>1, RetryingHandNext
    <2> QED
      BY <2>1, <2>2 DEF Atomic!Next, Atomic!Write
  <1>5. CASE UNCHANGED vars
    BY <1>0, <1>5 DEF vars, boxBar, Retrying
  <1> QED
    BY <1>1, <1>2, <1>3, <1>4, <1>5 DEF Next

LEMMA StepAtomic == OneInv /\ [Next]_vars => [Atomic!Next]_boxBar
  <1> SUFFICES ASSUME OneInv, [Next]_vars PROVE [Atomic!Next]_boxBar
    OBVIOUS
  <1>1. CASE SingleProducer
    BY <1>1, StepAtomicSingle
  <1>2. CASE ~SingleProducer
    <2>1. boxBar = << >> /\ boxBar' = << >>
      BY <1>2, WritersFixed DEF boxBar
    <2> QED
      BY <2>1
  <1> QED
    BY <1>1, <1>2

\* A queue with one producer is a Mailbox: the put-or-purge loop is an atomic
\* write.  This is what lets the other modules take the loop as one step.
THEOREM LoopIsAtomic == Spec => AtomicSpec
  BY InitAtomic, SpecOneInv, StepAtomic, PTL DEF Spec, AtomicSpec, Atomic!Spec
=============================================================================
