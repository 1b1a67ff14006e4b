------------------------- MODULE CoordinatorPromise -------------------------
(***************************************************************************)
(* What the coordinator of the tbot promises to motion control, whatever   *)
(* the operators do: it may change its mind about the stop, the supervisor *)
(* and the motion at any time, but it hands over a motion only while it is *)
(* not supervised, and only a standstill while it is stopped; and it keeps *)
(* handing over motions.  TbotCoordinator implements this specification,   *)
(* TbotSystem relies on it (coordinator_service.c).                        *)
(***************************************************************************)
EXTENDS Integers, Sequences, Msgq

CONSTANTS Motions,          \* motions that may be commanded
          SupModes,         \* supervisor modes
          kNonSupervised,   \* the mode in which the coordinator drives
          Depth             \* capacity of the queue to motion control

VARIABLES motion_msgq,      \* coordinator -> motion control
          estop_triggered, sup_mode, desired_motion

coordinator == <<motion_msgq, estop_triggered, sup_mode, desired_motion>>

ZeroMotion == [linear |-> 0, angular |-> 0]

Init ==
  /\ motion_msgq = << >>
  /\ estop_triggered = FALSE /\ sup_mode = kNonSupervised
  /\ desired_motion = ZeroMotion

\* The receiver, the CAN side, the supervisor and the time-outs decide.
Decide ==
  /\ estop_triggered' \in BOOLEAN
  /\ sup_mode' \in SupModes
  /\ desired_motion' \in Motions
  /\ UNCHANGED motion_msgq

Send ==
  /\ sup_mode = kNonSupervised
  /\ desired_motion' = IF estop_triggered THEN ZeroMotion ELSE desired_motion
  /\ motion_msgq' = Overwrite(motion_msgq, desired_motion', Depth)
  /\ UNCHANGED <<estop_triggered, sup_mode>>

\* Motion control takes a motion.
Taken ==
  /\ ~MsgqEmpty(motion_msgq)
  /\ motion_msgq' = MsgqRest(motion_msgq)
  /\ UNCHANGED <<estop_triggered, sup_mode, desired_motion>>

Next == Decide \/ Send \/ Taken

Spec == Init /\ [][Next]_coordinator

\* The loop runs every 20 ms and sends in every turn without a supervisor.
FairSpec == Spec /\ WF_coordinator(Send)
=============================================================================
