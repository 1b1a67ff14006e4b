---------------------------- MODULE Msgq_proofs ----------------------------
(***************************************************************************)
(* Facts about the queue operators, for queues of any capacity and         *)
(* messages of any kind.                                                   *)
(***************************************************************************)
EXTENDS Msgq, TLAPS

\* Taking the oldest message (k_msgq_get) leaves a shorter queue of messages.
LEMMA GotRest ==
  ASSUME NEW S, NEW q \in Seq(S), ~MsgqEmpty(q)
  PROVE  /\ MsgqGot(q) \in S
         /\ MsgqRest(q) \in Seq(S)
         /\ Len(MsgqRest(q)) = Len(q) - 1
         /\ Len(q) \in Nat /\ Len(q) > 0
         /\ MsgqGot(q) = q[1]
         /\ \A i \in 1..Len(MsgqRest(q)) : MsgqRest(q)[i] = q[i + 1]
  BY DEF MsgqEmpty, MsgqGot, MsgqRest

\* ... and so stays within the capacity.
LEMMA GotFits ==
  ASSUME NEW S, NEW q \in Seq(S), NEW d \in Nat \ {0}, Len(q) <= d,
         ~MsgqEmpty(q)
  PROVE  /\ MsgqGot(q) \in S
         /\ MsgqRest(q) \in Seq(S)
         /\ Len(MsgqRest(q)) <= d
  <1>1. /\ MsgqGot(q) \in S /\ MsgqRest(q) \in Seq(S)
        /\ Len(MsgqRest(q)) = Len(q) - 1 /\ Len(q) \in Nat
    BY GotRest
  <1> QED BY <1>1

\* A put into a queue that is not full appends and stays within the capacity.
LEMMA PutFits ==
  ASSUME NEW S, NEW q \in Seq(S), NEW m \in S, NEW d \in Nat, ~MsgqFull(q, d)
  PROVE  /\ MsgqPut(q, m) \in Seq(S)
         /\ Len(MsgqPut(q, m)) = Len(q) + 1
         /\ Len(MsgqPut(q, m)) <= d
         /\ MsgqPut(q, m)[Len(q) + 1] = m
         /\ \A i \in 1..Len(q) : MsgqPut(q, m)[i] = q[i]
  BY DEF MsgqFull, MsgqPut

\* The put-or-purge loop leaves the new message last, within the capacity
\* (the idiom of every service, e.g. coordinator_service.c:164-169).
LEMMA OverwriteFits ==
  ASSUME NEW S, NEW q \in Seq(S), NEW m \in S, NEW d \in Nat \ {0},
         Len(q) <= d
  PROVE  /\ Overwrite(q, m, d) \in Seq(S)
         /\ Len(Overwrite(q, m, d)) <= d
         /\ Overwrite(q, m, d) # << >>
         /\ Overwrite(q, m, d)[Len(Overwrite(q, m, d))] = m
  <1>1. CASE MsgqFull(q, d)
    <2>1. Overwrite(q, m, d) = <<m>>
      BY <1>1 DEF Overwrite
    <2>2. <<m>> \in Seq(S) /\ Len(<<m>>) = 1 /\ <<m>>[1] = m /\ <<m>> # << >>
      OBVIOUS
    <2> QED BY <2>1, <2>2
  <1>2. CASE ~MsgqFull(q, d)
    <2>1. Overwrite(q, m, d) = MsgqPut(q, m)
      BY <1>2 DEF Overwrite
    <2>2. Len(MsgqPut(q, m)) > 0 /\ Len(<< >>) = 0
      BY <1>2, PutFits
    <2> QED BY <1>2, <2>1, <2>2, PutFits
  <1> QED BY <1>1, <1>2
=============================================================================
