-------------------------------- MODULE Msgq --------------------------------
(***************************************************************************)
(* A Zephyr message queue (k_msgq) as the services use it: every call      *)
(* passes K_NO_WAIT, runs with interrupts locked inside the kernel, and is *)
(* therefore one atomic step.  A queue is the sequence of the messages it  *)
(* holds, oldest first.  The kernel is not part of this repository; these  *)
(* operators model it from its calls in src/service.                       *)
(***************************************************************************)
EXTENDS Naturals, Sequences

\* Faulty variants for the mutants: one message too many, last in first out.
MsgqFullLate(q, depth) == Len(q) > depth
MsgqPutFront(q, m) == <<m>> \o q

\* k_msgq_put returns non-zero, and changes nothing, exactly when this holds.
MsgqFull(q, depth) == Len(q) >= depth

\* The queue after a k_msgq_put that returned 0.
MsgqPut(q, m) == Append(q, m)

\* k_msgq_get returns non-zero exactly when this holds.
MsgqEmpty(q) == q = << >>

\* The message a successful k_msgq_get copies out, and the queue after it.
MsgqGot(q)  == Head(q)
MsgqRest(q) == Tail(q)

\* k_msgq_purge drops everything.
MsgqPurged == << >>

\* Faulty variant: a full queue keeps what it has and the new message is lost.
OverwriteDrops(q, m, depth) ==
  IF MsgqFull(q, depth) THEN q ELSE MsgqPut(q, m)

\* The services' idiom
\*     while (k_msgq_put(q, &m, K_NO_WAIT) != 0) k_msgq_purge(q);
\* run without interruption.  Module OverwriteQueue runs it step by step.
Overwrite(q, m, depth) ==
  IF MsgqFull(q, depth) THEN <<m>> ELSE MsgqPut(q, m)
=============================================================================
