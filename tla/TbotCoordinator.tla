-------------------------- MODULE TbotCoordinator --------------------------
(***************************************************************************)
(* The coordinator thread of the tbot firmware                             *)
(* (service/robot_tbot/coordinator/src/coordinator_service.c).  Every 20   *)
(* ms it polls the RC receiver, the CAN motion commands and the supervisor *)
(* commands, decides who drives the robot, and forwards one motion to      *)
(* motion control and one state report to the messenger.                   *)
(*                                                                         *)
(* One action per queue operation of the loop body: the receiver and the   *)
(* messenger threads have higher priority and can preempt the loop between *)
(* any two of them.  The put-or-purge loops are one step (Overwrite): each *)
(* of these queues has a single producer, and module OverwriteQueue shows  *)
(* that the loop then is an atomic overwrite.  Time is not modelled: how   *)
(* many messages arrive between two polls is left open.                    *)
(*                                                                         *)
(* Channel values and speeds are integers in units of their smallest step; *)
(* a stick at 0.0 +/- FLOAT_VALUE_DELTA (1e-5) is 0, since the receiver    *)
(* produces multiples of 1/784.                                            *)
(***************************************************************************)
EXTENDS Integers, Sequences, Msgq

CONSTANTS RcFrames,           \* receiver frames, [ch0, ch2, ch6, ch7] of Int
          NoRc,               \* stands for: no frame was ever received
          CanMotions,         \* motions the CAN side may command
          SupModes,           \* supervisor mode bytes the messenger forwards
          kNonSupervised,     \* the mode in which the coordinator drives
          rc_timeout_count,   \* 5 in the code
          can_timeout_count,  \* 5 in the code
          Depth               \* capacity of the queues, 1 in tbot_interface.c

Motions == [linear : Int, angular : Int]

ASSUME FramesAssumption ==
  RcFrames \subseteq [ch0 : Int, ch2 : Int, ch6 : Int, ch7 : Int]
ASSUME NoRcAssumption == NoRc \notin RcFrames
ASSUME CanAssumption == CanMotions \subseteq Motions
ASSUME SupAssumption == kNonSupervised \in SupModes
ASSUME TimeoutAssumption ==
  rc_timeout_count \in 0..254 /\ can_timeout_count \in 0..254
ASSUME DepthAssumption == Depth \in Nat \ {0}

VARIABLES
  rc_data_msgq,         \* receiver -> coordinator
  can_motion_msgq,      \* messenger -> coordinator
  supervisor_cmd_msgq,  \* messenger -> coordinator
  motion_msgq,          \* coordinator -> motion control
  robot_state_msgq,     \* coordinator -> messenger
  pc,                   \* the next queue operation of the loop body
  rc_connected, estop_triggered, control_mode, sup_mode,  \* robot_state
  desired_motion, desired_motion_from_can,
  rc_counter, can_counter,
  lastRc,               \* history: last RC frame polled
  rcSilence,            \* history: polls without a frame since then
  lastCan,              \* history: last CAN motion polled
  canSilence            \* history: polls without a motion since then

inQueues  == <<rc_data_msgq, can_motion_msgq, supervisor_cmd_msgq>>
outQueues == <<motion_msgq, robot_state_msgq>>
robotState == <<rc_connected, estop_triggered, control_mode, sup_mode>>
motions == <<desired_motion, desired_motion_from_can>>
rcGhosts == <<lastRc, rcSilence>>
canGhosts == <<lastCan, canSilence>>
vars == <<inQueues, outQueues, pc, robotState, motions,
          rc_counter, can_counter, rcGhosts, canGhosts>>

-----------------------------------------------------------------------------

ZeroMotion == [linear |-> 0, angular |-> 0]

\* What the sticks of a frame command.
RcMotion(f) == [linear |-> f.ch2, angular |-> -f.ch0]
SelectsRc(f) == f.ch7 = 0
SwitchedToStop(f) == f.ch6 > 0

RobotState == [rc_connected |-> rc_connected, estop |-> estop_triggered,
               control_mode |-> control_mode, sup_mode |-> sup_mode]

\* History counters stop at their first value that tells nothing new.
Longer(n, timeout) == IF n > timeout + 1 THEN n ELSE n + 1

Init ==
  /\ rc_data_msgq = << >> /\ can_motion_msgq = << >>
  /\ supervisor_cmd_msgq = << >>
  /\ motion_msgq = << >> /\ robot_state_msgq = << >>
  /\ pc = "rc"
  /\ rc_connected = FALSE /\ estop_triggered = FALSE
  /\ control_mode = "CAN" /\ sup_mode = kNonSupervised
  /\ desired_motion = ZeroMotion /\ desired_motion_from_can = ZeroMotion
  /\ rc_counter = 0 /\ can_counter = 0
  /\ lastRc = NoRc /\ rcSilence = 0
  /\ lastCan = ZeroMotion /\ canSilence = 0

-----------------------------------------------------------------------------
\* The loop body.

\* A receiver frame was waiting.
RcFrame ==
  /\ pc = "rc" /\ ~MsgqEmpty(rc_data_msgq)
  /\ LET f == MsgqGot(rc_data_msgq) IN
       /\ control_mode' = IF SelectsRc(f) THEN "RC" ELSE "CAN"
       /\ desired_motion' = IF SelectsRc(f) THEN RcMotion(f)
                                            ELSE desired_motion
       /\ estop_triggered' = SwitchedToStop(f)
       /\ lastRc' = f
  /\ rc_data_msgq' = MsgqRest(rc_data_msgq)
  /\ rc_counter' = 0 /\ rcSilence' = 0
  /\ rc_connected' = TRUE
  /\ pc' = "can"
  /\ UNCHANGED <<can_motion_msgq, supervisor_cmd_msgq, outQueues, sup_mode,
                 desired_motion_from_can, can_counter, canGhosts>>

\* Faulty variant: the reset of estop_triggered is missing.
RcMissKeepsStop ==
  /\ pc = "rc" /\ MsgqEmpty(rc_data_msgq)
  /\ IF rc_counter > rc_timeout_count
       THEN /\ rc_connected' = FALSE /\ control_mode' = "CAN"
            /\ UNCHANGED <<rc_counter, estop_triggered>>
       ELSE /\ rc_counter' = rc_counter + 1
            /\ UNCHANGED <<rc_connected, estop_triggered, control_mode>>
  /\ rcSilence' = Longer(rcSilence, rc_timeout_count)
  /\ pc' = "can"
  /\ UNCHANGED <<inQueues, outQueues, sup_mode, motions, can_counter, lastRc,
                 canGhosts>>

\* Faulty variant: >= instead of >, the link is lost one poll early.
RcMissEarly ==
  /\ pc = "rc" /\ MsgqEmpty(rc_data_msgq)
  /\ IF rc_counter >= rc_timeout_count
       THEN /\ rc_connected' = FALSE /\ estop_triggered' = FALSE
            /\ control_mode' = "CAN"
            /\ UNCHANGED rc_counter
       ELSE /\ rc_counter' = rc_counter + 1
            /\ UNCHANGED <<rc_connected, estop_triggered, control_mode>>
  /\ rcSilence' = Longer(rcSilence, rc_timeout_count)
  /\ pc' = "can"
  /\ UNCHANGED <<inQueues, outQueues, sup_mode, motions, can_counter, lastRc,
                 canGhosts>>

\* No frame: count, and once the count is used up declare the link lost.
RcMiss ==
  /\ pc = "rc" /\ MsgqEmpty(rc_data_msgq)
  /\ IF rc_counter > rc_timeout_count
       THEN /\ rc_connected' = FALSE /\ estop_triggered' = FALSE
            /\ control_mode' = "CAN"
            /\ UNCHANGED rc_counter
       ELSE /\ rc_counter' = rc_counter + 1
            /\ UNCHANGED <<rc_connected, estop_triggered, control_mode>>
  /\ rcSilence' = Longer(rcSilence, rc_timeout_count)
  /\ pc' = "can"
  /\ UNCHANGED <<inQueues, outQueues, sup_mode, motions, can_counter, lastRc,
                 canGhosts>>

\* The CAN side is polled in CAN mode only.
CanMotion ==
  /\ pc = "can" /\ control_mode = "CAN" /\ ~MsgqEmpty(can_motion_msgq)
  /\ desired_motion_from_can' = MsgqGot(can_motion_msgq)
  /\ desired_motion' = desired_motion_from_can'
  /\ lastCan' = MsgqGot(can_motion_msgq)
  /\ can_motion_msgq' = MsgqRest(can_motion_msgq)
  /\ can_counter' = 0 /\ canSilence' = 0
  /\ pc' = "sup"
  /\ UNCHANGED <<rc_data_msgq, supervisor_cmd_msgq, outQueues, robotState,
                 rc_counter, rcGhosts>>

\* Faulty variant: the counter runs but nothing is zeroed.
CanMissKeepsMotion ==
  /\ pc = "can" /\ control_mode = "CAN" /\ MsgqEmpty(can_motion_msgq)
  /\ can_counter' = IF can_counter > can_timeout_count THEN can_counter
                                                       ELSE can_counter + 1
  /\ desired_motion' = desired_motion_from_can
  /\ canSilence' = Longer(canSilence, can_timeout_count)
  /\ pc' = "sup"
  /\ UNCHANGED <<inQueues, outQueues, robotState, desired_motion_from_can,
                 rc_counter, rcGhosts, lastCan>>

\* No CAN motion: count, and once the count is used up stop.
CanMiss ==
  /\ pc = "can" /\ control_mode = "CAN" /\ MsgqEmpty(can_motion_msgq)
  /\ IF can_counter > can_timeout_count
       THEN /\ desired_motion_from_can' = ZeroMotion
            /\ UNCHANGED can_counter
       ELSE /\ can_counter' = can_counter + 1
            /\ UNCHANGED desired_motion_from_can
  /\ desired_motion' = desired_motion_from_can'
  /\ canSilence' = Longer(canSilence, can_timeout_count)
  /\ pc' = "sup"
  /\ UNCHANGED <<inQueues, outQueues, robotState, rc_counter, rcGhosts,
                 lastCan>>

CanNotPolled ==
  /\ pc = "can" /\ control_mode # "CAN"
  /\ pc' = "sup"
  /\ UNCHANGED <<inQueues, outQueues, robotState, motions, rc_counter,
                 can_counter, rcGhosts, canGhosts>>

CheckSupervisor ==
  /\ pc = "sup"
  /\ IF MsgqEmpty(supervisor_cmd_msgq)
       THEN UNCHANGED <<sup_mode, supervisor_cmd_msgq>>
       ELSE /\ sup_mode' = MsgqGot(supervisor_cmd_msgq)
            /\ supervisor_cmd_msgq' = MsgqRest(supervisor_cmd_msgq)
  /\ pc' = "motion"
  /\ UNCHANGED <<rc_data_msgq, can_motion_msgq, outQueues, rc_connected,
                 estop_triggered, control_mode, motions, rc_counter,
                 can_counter, rcGhosts, canGhosts>>

\* Faulty variants: the motion is prepared before the stop is applied; the
\* supervised mode is not looked at.
SendMotionUnstopped ==
  /\ pc = "motion" /\ sup_mode = kNonSupervised
  /\ desired_motion' = IF estop_triggered THEN ZeroMotion ELSE desired_motion
  /\ motion_msgq' = Overwrite(motion_msgq, desired_motion, Depth)
  /\ pc' = "state"
  /\ UNCHANGED <<inQueues, robot_state_msgq, robotState,
                 desired_motion_from_can, rc_counter, can_counter, rcGhosts,
                 canGhosts>>

SendMotionAlways ==
  /\ pc = "motion"
  /\ desired_motion' = IF estop_triggered THEN ZeroMotion ELSE desired_motion
  /\ motion_msgq' = Overwrite(motion_msgq, desired_motion', Depth)
  /\ pc' = "state"
  /\ UNCHANGED <<inQueues, robot_state_msgq, robotState,
                 desired_motion_from_can, rc_counter, can_counter, rcGhosts,
                 canGhosts>>

SendMotion ==
  /\ pc = "motion" /\ sup_mode = kNonSupervised
  /\ desired_motion' = IF estop_triggered THEN ZeroMotion ELSE desired_motion
  /\ motion_msgq' = Overwrite(motion_msgq, desired_motion', Depth)
  /\ pc' = "state"
  /\ UNCHANGED <<inQueues, robot_state_msgq, robotState,
                 desired_motion_from_can, rc_counter, can_counter, rcGhosts,
                 canGhosts>>

\* In any supervised mode, known or not, nothing is sent.
SendNoMotion ==
  /\ pc = "motion" /\ sup_mode # kNonSupervised
  /\ pc' = "state"
  /\ UNCHANGED <<inQueues, outQueues, robotState, motions, rc_counter,
                 can_counter, rcGhosts, canGhosts>>

UpdateState ==
  /\ pc = "state"
  /\ robot_state_msgq' = Overwrite(robot_state_msgq, RobotState, Depth)
  /\ pc' = "rc"
  /\ UNCHANGED <<inQueues, motion_msgq, robotState, motions, rc_counter,
                 can_counter, rcGhosts, canGhosts>>

Coordinate ==
  \/ RcFrame \/ RcMiss \/ CanMotion \/ CanMiss \/ CanNotPolled
  \/ CheckSupervisor \/ SendMotion \/ SendNoMotion \/ UpdateState

-----------------------------------------------------------------------------
\* The other ends of the queues.

loopVars == <<pc, robotState, motions, rc_counter, can_counter, rcGhosts,
              canGhosts>>

\* The receiver service (priority 1) forwards a decoded frame.
RcArrives(f) ==
  /\ rc_data_msgq' = Overwrite(rc_data_msgq, f, Depth)
  /\ UNCHANGED <<can_motion_msgq, supervisor_cmd_msgq, outQueues, loopVars>>

\* The messenger (priority 2) forwards a CAN motion or supervisor command.
CanMotionArrives(m) ==
  /\ can_motion_msgq' = Overwrite(can_motion_msgq, m, Depth)
  /\ UNCHANGED <<rc_data_msgq, supervisor_cmd_msgq, outQueues, loopVars>>

SupervisorArrives(s) ==
  /\ supervisor_cmd_msgq' = Overwrite(supervisor_cmd_msgq, s, Depth)
  /\ UNCHANGED <<rc_data_msgq, can_motion_msgq, outQueues, loopVars>>

\* Motion control and the messenger's sender take their messages.
MotionTaken ==
  /\ ~MsgqEmpty(motion_msgq)
  /\ motion_msgq' = MsgqRest(motion_msgq)
  /\ UNCHANGED <<inQueues, robot_state_msgq, loopVars>>

StateTaken ==
  /\ ~MsgqEmpty(robot_state_msgq)
  /\ robot_state_msgq' = MsgqRest(robot_state_msgq)
  /\ UNCHANGED <<inQueues, motion_msgq, loopVars>>

Environment ==
  \/ \E f \in RcFrames : RcArrives(f)
  \/ \E m \in CanMotions : CanMotionArrives(m)
  \/ \E s \in SupModes : SupervisorArrives(s)
  \/ MotionTaken \/ StateTaken

Next == Coordinate \/ Environment

Spec == Init /\ [][Next]_vars

\* The scheduler runs the coordinator again and again: it sleeps 20 ms and no
\* thread of higher priority computes without blocking.  Nothing is assumed of
\* the senders.
FairSpec == Spec /\ WF_vars(Coordinate)

-----------------------------------------------------------------------------
\* Correctness.

TypeOK ==
  /\ rc_data_msgq \in Seq(RcFrames) /\ Len(rc_data_msgq) <= Depth
  /\ can_motion_msgq \in Seq(CanMotions) /\ Len(can_motion_msgq) <= Depth
  /\ supervisor_cmd_msgq \in Seq(SupModes) /\ Len(supervisor_cmd_msgq) <= Depth
  /\ motion_msgq \in Seq(Motions) /\ Len(motion_msgq) <= Depth
  /\ robot_state_msgq \in Seq([rc_connected : BOOLEAN, estop : BOOLEAN,
                                control_mode : {"RC", "CAN"}, sup_mode : SupModes])
  /\ Len(robot_state_msgq) <= Depth
  /\ pc \in {"rc", "can", "sup", "motion", "state"}
  /\ rc_connected \in BOOLEAN /\ estop_triggered \in BOOLEAN
  /\ control_mode \in {"RC", "CAN"} /\ sup_mode \in SupModes
  /\ desired_motion \in Motions /\ desired_motion_from_can \in Motions
  /\ rc_counter \in 0..rc_timeout_count + 1     \* no uint8_t wrap-around
  /\ can_counter \in 0..can_timeout_count + 1
  /\ lastRc \in RcFrames \cup {NoRc}
  /\ rcSilence \in 0..rc_timeout_count + 2
  /\ lastCan \in Motions
  /\ canSilence \in 0..can_timeout_count + 2

\* The RC link counts as alive until rc_timeout_count + 2 polls in a row missed.
RcAlive == lastRc # NoRc /\ rcSilence <= rc_timeout_count + 1

\* The robot is stopped exactly while the RC link is alive and the last frame
\* had the stop switch on: neither CAN traffic nor a supervisor command nor a
\* few lost frames release the stop, and it cannot outlive the link
\* (coordinator_service.c:107-122).
EstopFollowsSwitch ==
  estop_triggered <=> RcAlive /\ SwitchedToStop(lastRc)

\* Who drives is decided by the RC link alone: RC exactly while the link is
\* alive and its last frame selects RC (coordinator_service.c:93-122).
RcVerdict ==
  /\ rc_connected <=> RcAlive
  /\ control_mode = "RC" <=> RcAlive /\ SelectsRc(lastRc)

\* The motions the coordinator may send: a standstill, or, while not stopped,
\* the sticks of the last frame of a live RC link that selects RC, or the last
\* CAN motion while CAN drives and the CAN side was not silent for
\* can_timeout_count + 2 polls.
LiveSource(m) ==
  \/ m = ZeroMotion
  \/ /\ ~(RcAlive /\ SwitchedToStop(lastRc))
     /\ \/ RcAlive /\ SelectsRc(lastRc) /\ m = RcMotion(lastRc)
        \/ /\ ~(RcAlive /\ SelectsRc(lastRc))
           /\ canSilence <= can_timeout_count + 1
           /\ m = lastCan

\* Every motion handed to motion control has a live source
\* (coordinator_service.c:93-170): nothing stale of the other source, nothing
\* from before a stop, nothing beyond the time-outs.
SentMotionIsLive ==
  [][pc = "motion" /\ pc' = "state" /\ sup_mode = kNonSupervised
       => motion_msgq' # << >> /\ LiveSource(motion_msgq'[Len(motion_msgq')])]_vars

Promise == INSTANCE CoordinatorPromise

\* The loop keeps the coordinator's promise to motion control: a motion is added
\* to the queue only without a supervisor, a standstill while stopped, and again
\* and again while the supervisor stays away (coordinator_service.c:156-170).
PromiseKept == Promise!FairSpec

Silence == rc_data_msgq = << >> /\ can_motion_msgq = << >>

\* When both operators fall silent for good, the RC link is declared lost and
\* the coordinator ends up commanding a standstill (coordinator_service.c:
\* 113-140); needs the scheduler's fairness.
SilenceStopsRobot ==
  <>[]Silence => <>[](~rc_connected /\ desired_motion = ZeroMotion)

=============================================================================
