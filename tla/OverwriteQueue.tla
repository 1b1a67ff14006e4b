--------------------------- MODULE OverwriteQueue ---------------------------
(***************************************************************************)
(* The way every service hands data to another one:                        *)
(*                                                                         *)
(*     while (k_msgq_put(q, &m, K_NO_WAIT) != 0) {                          *)
(*       k_msgq_purge(q);                                                  *)
(*     }                                                                   *)
(*                                                                         *)
(* One action per kernel call.  Producers are threads with Zephyr          *)
(* priorities: a thread in the middle of the loop never blocks, so only a  *)
(* thread of strictly higher priority (a smaller number) can run in        *)
(* between.  The reader polls with K_NO_WAIT at any time.                  *)
(*                                                                         *)
(* Messages are numbered in the order in which their producers decide to   *)
(* send them; the number stands for the payload and orders it in time.     *)
(***************************************************************************)
EXTENDS Msgq, Integers, FiniteSets

CONSTANTS Producers,   \* the threads that may write to this queue
          Prio,        \* Prio[p]: Zephyr priority of p, smaller runs first
          Depth,       \* capacity given to K_MSGQ_DEFINE
          MaxIssued    \* bound: messages sent in one behaviour

ASSUME DepthAssumption == Depth \in Nat \ {0}
ASSUME PrioAssumption  == Prio \in [Producers -> Int]
ASSUME BoundAssumption == MaxIssued \in Nat

VARIABLES writers,  \* the producers this queue has; fixed when the firmware is built
          queue,    \* the k_msgq
          pc,       \* pc[p]: where p is in the loop
          hand,     \* hand[p]: number of the message p is sending
          issued,   \* history: messages sent so far
          lastPut,  \* history: the message of the last successful put
          lastGot   \* history: the message the reader got last

vars == <<writers, queue, pc, hand, issued, lastPut, lastGot>>

Message == 1..MaxIssued

-----------------------------------------------------------------------------

Init ==
  /\ writers \in SUBSET Producers
  /\ queue = << >>
  /\ pc = [p \in Producers |-> "idle"]
  /\ hand = [p \in Producers |-> 0]
  /\ issued = 0
  /\ lastPut = 0
  /\ lastGot = 0

InLoop(p) == pc[p] # "idle"

\* p can be on the CPU: whoever else is inside the loop was preempted by p.
CanRun(p) == \A q \in Producers \ {p} : InLoop(q) => Prio[p] < Prio[q]

\* p reaches the loop with a new message.
Issue(p) ==
  /\ p \in writers /\ ~InLoop(p) /\ CanRun(p)
  /\ issued < MaxIssued
  /\ issued' = issued + 1
  /\ hand' = [hand EXCEPT ![p] = issued + 1]
  /\ pc' = [pc EXCEPT ![p] = "put"]
  /\ UNCHANGED <<writers, queue, lastPut, lastGot>>

\* k_msgq_put, first try ("put") or after a purge ("retry").
Put(p) ==
  /\ pc[p] \in {"put", "retry"} /\ CanRun(p)
  /\ IF MsgqFull(queue, Depth)
       THEN /\ pc' = [pc EXCEPT ![p] = "purge"]
            /\ UNCHANGED <<queue, lastPut>>
       ELSE /\ pc' = [pc EXCEPT ![p] = "idle"]
            /\ queue' = MsgqPut(queue, hand[p])
            /\ lastPut' = hand[p]
  /\ UNCHANGED <<writers, hand, issued, lastGot>>

\* Faulty variant of Purge: giving up after the purge, an if where the code has a
\* while.
PurgeAndGiveUp(p) ==
  /\ pc[p] = "purge" /\ CanRun(p)
  /\ queue' = MsgqPurged
  /\ pc' = [pc EXCEPT ![p] = "idle"]
  /\ UNCHANGED <<writers, hand, issued, lastPut, lastGot>>

\* k_msgq_purge: whatever is in the queue now, not only what made it full.
Purge(p) ==
  /\ pc[p] = "purge" /\ CanRun(p)
  /\ queue' = MsgqPurged
  /\ pc' = [pc EXCEPT ![p] = "retry"]
  /\ UNCHANGED <<writers, hand, issued, lastPut, lastGot>>

\* The reader polls: k_msgq_get takes the oldest message, or misses.
Get ==
  /\ IF MsgqEmpty(queue)
       THEN UNCHANGED <<queue, lastGot>>
       ELSE /\ lastGot' = MsgqGot(queue)
            /\ queue' = MsgqRest(queue)
  /\ UNCHANGED <<writers, pc, hand, issued, lastPut>>

Next == Get \/ \E p \in Producers : Issue(p) \/ Put(p) \/ Purge(p)

Spec == Init /\ [][Next]_vars

-----------------------------------------------------------------------------

TypeOK ==
  /\ writers \subseteq Producers
  /\ queue \in Seq(Message) /\ Len(queue) <= Depth
  /\ pc \in [Producers -> {"idle", "put", "purge", "retry"}]
  /\ hand \in [Producers -> 0..MaxIssued]
  /\ \A p \in Producers : InLoop(p) => p \in writers /\ hand[p] \in Message
  /\ issued \in 0..MaxIssued
  /\ lastPut \in 0..MaxIssued /\ lastGot \in 0..MaxIssued

\* Nothing is lost without a successor: the last message put is either read,
\* or still the newest one in the queue, or purged by a producer that is about
\* to put its own.
NewestSurvives ==
  \/ lastPut = lastGot
  \/ queue # << >> /\ queue[Len(queue)] = lastPut
  \/ \E p \in Producers : pc[p] = "retry"

SingleProducer == \A p, q \in writers : p = q

\* With one producer the loop runs its body at most once: the put that follows
\* a purge finds an empty queue.
OnePurgeSuffices ==
  SingleProducer => \A p \in Producers : pc[p] = "retry" => queue = << >>

\* With one producer the queue holds messages in the order they were sent, all
\* newer than what was read and older than what is being sent.
InSendOrder ==
  SingleProducer =>
    /\ \A i, j \in 1..Len(queue) : i < j => queue[i] < queue[j]
    /\ \A i \in 1..Len(queue) : lastGot < queue[i]
    /\ \A p \in Producers : InLoop(p) =>
         /\ lastGot < hand[p]
         /\ \A i \in 1..Len(queue) : queue[i] < hand[p]

\* With one producer the reader never goes back to an older message.
ReaderGoesForward == [][SingleProducer => lastGot' >= lastGot]_vars

-----------------------------------------------------------------------------
\* With one producer, the loop is an atomic overwrite: the write happens at the
\* purge when there is one, at the put otherwise.  (A queue with more producers
\* promises no more than NewestSurvives, and is mapped to an idle mailbox.)

Retrying == {p \in Producers : pc[p] = "retry"}

boxBar == IF ~SingleProducer THEN << >>
          ELSE IF Retrying = {} THEN queue
          ELSE <<hand[CHOOSE p \in Retrying : TRUE]>>

Atomic == INSTANCE Mailbox WITH box <- boxBar

AtomicSpec == Atomic!Spec
=============================================================================
