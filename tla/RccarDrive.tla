----------------------------- MODULE RccarDrive -----------------------------
(***************************************************************************)
(* How the rccar is driven: its coordinator thread                         *)
(* (service/robot_rccar/coordinator/src/coordinator_service.c) turns       *)
(* receiver frames into motions and robot states, and the sending thread   *)
(* of its messenger (service/robot_rccar/messenger/src/messenger_service.c)*)
(* turns those into commands for the VESC, which keeps the last ones.      *)
(*                                                                         *)
(* The coordinator has the higher priority of the two                      *)
(* (app/rccar/rccar_interface.c:117, 135) and calls nothing that waits, so *)
(* that a turn of its loop is one step for the messenger, whose own loop   *)
(* it may interrupt between any two calls.  It writes to two queues, states*)
(* (of length 1) and motions (of length 2), which the messenger reads one  *)
(* after the other.                                                        *)
(*                                                                         *)
(* Channels are in thousandths.  sup_mode never changes and is left out.   *)
(***************************************************************************)
EXTENDS Vesc, Msgq

CONSTANTS RcFrames,     \* channels 1, 2, 5 and 6 of frames the receiver sends
          rc_timeout_count,   \* 5 in the code
          LinearDeadzone, AngularDeadzone,  \* 50 and 100
          MaxRpm,       \* VESC_MAX_RPM, 23250
          VescId,       \* 0x68
          MaxFailures,  \* bound on the CAN sends that fail in one run
          Depth,        \* capacity of the receiver's and the state queue, 1
          MotionDepth   \* capacity of the motion queue, 2

\* What the receiver makes of 11 bits around 1023.
Channel == {x \in Int : -1307 <= x /\ x <= 1307}

ASSUME FramesAssumption ==
  RcFrames \subseteq [ch1 : Channel, ch2 : Channel, ch5 : Channel, ch6 : Channel]
ASSUME VescAssumption ==
  VescId \in 0..255 /\ MaxRpm \in Nat /\ MaxRpm <= 1000000
ASSUME DeadzoneAssumption == LinearDeadzone \in Int /\ AngularDeadzone \in Int
ASSUME TimeoutAssumption == rc_timeout_count \in 0..254
ASSUME DepthAssumption ==
  Depth \in Nat \ {0} /\ MotionDepth \in Nat \ {0, 1} /\ MaxFailures \in Nat

VARIABLES
  rc_data_msgq,         \* receiver -> coordinator
  desired_motion_msgq,  \* coordinator -> messenger
  robot_state_msgq,     \* coordinator -> messenger
  rc_connected, estop_triggered, control_mode, desired_motion, rc_counter,
  pc,                   \* the next call of the messenger's loop
  rc_desired_motion,    \* the motion the messenger is sending
  servo_frame, rpm_frame,  \* the last frames that reached the VESC
  failures,             \* sends that failed
  failed,               \* history: one of the motion being sent failed
  old,                  \* history: motions at the head of the queue decided
                        \* before the car was last muted
  staleTaken,           \* history: such motions taken since it is not muted
  stoppedLast,          \* history: it was last muted by the stop switch
  afterMute             \* history: speeds sent since it was muted

roboState == <<rc_connected, estop_triggered, control_mode, desired_motion,
               rc_counter>>
vesc == <<servo_frame, rpm_frame, failures, failed>>
muting == <<old, staleTaken, stoppedLast, afterMute>>
vars == <<rc_data_msgq, desired_motion_msgq, robot_state_msgq, roboState, pc,
          rc_desired_motion, vesc, muting>>

ZeroMotion == [linear |-> 0, angular |-> 0]
NoFrame == [id |-> 0, data |-> << >>]

\* The messenger is to send nothing.
Muted == estop_triggered \/ control_mode = "CAN"

-----------------------------------------------------------------------------
\* The conversions.

InDeadzone(x, zone) == -zone < x /\ x < zone

RcMotion(f) ==
  [linear |-> IF InDeadzone(f.ch2, LinearDeadzone) THEN 0 ELSE f.ch2,
   angular |-> IF InDeadzone(-f.ch1, AngularDeadzone) THEN 0 ELSE -f.ch1]

SelectsRc(f) == f.ch6 < -500
SwitchedToGo(f) == f.ch5 > 0

\* servo_pos = 1 - (angular + 1) / 2, in units of 1/2000; motor_rpm.
ServoPos(m) == 1000 - m.angular
MotorRpm(m) == Truncate(MaxRpm * m.linear, 1000)

-----------------------------------------------------------------------------

Init ==
  /\ rc_data_msgq = << >> /\ desired_motion_msgq = << >>
  /\ robot_state_msgq = << >>
  /\ rc_connected = FALSE /\ estop_triggered = TRUE /\ control_mode = "RC"
  /\ desired_motion = ZeroMotion /\ rc_counter = 0
  /\ pc = "state" /\ rc_desired_motion = ZeroMotion
  /\ servo_frame = NoFrame /\ rpm_frame = NoFrame
  /\ failures = 0 /\ failed = FALSE
  /\ old = 0 /\ staleTaken = 0 /\ stoppedLast = TRUE /\ afterMute = 0

\* The receiver sends a frame.
RcArrives(f) ==
  /\ rc_data_msgq' = Overwrite(rc_data_msgq, f, Depth)
  /\ UNCHANGED <<desired_motion_msgq, robot_state_msgq, roboState, pc,
                 rc_desired_motion, vesc, muting>>

-----------------------------------------------------------------------------
\* One turn of the coordinator's loop.

RcFrame ==
  /\ ~MsgqEmpty(rc_data_msgq)
  /\ LET f == MsgqGot(rc_data_msgq)
     IN /\ control_mode' = IF SelectsRc(f) THEN "RC" ELSE "CAN"
        /\ estop_triggered' = ~SwitchedToGo(f)
        /\ desired_motion' = IF ~SwitchedToGo(f) THEN ZeroMotion
                             ELSE IF SelectsRc(f) THEN RcMotion(f)
                             ELSE desired_motion
  /\ rc_connected' = TRUE /\ rc_counter' = 0
  /\ rc_data_msgq' = MsgqRest(rc_data_msgq)

RcLost ==
  /\ MsgqEmpty(rc_data_msgq) /\ rc_counter > rc_timeout_count
  /\ rc_connected' = FALSE /\ estop_triggered' = FALSE /\ control_mode' = "CAN"
  /\ UNCHANGED <<desired_motion, rc_counter, rc_data_msgq>>

RcMiss ==
  /\ MsgqEmpty(rc_data_msgq) /\ rc_counter <= rc_timeout_count
  /\ rc_counter' = rc_counter + 1
  /\ desired_motion' = IF estop_triggered THEN ZeroMotion ELSE desired_motion
  /\ UNCHANGED <<rc_connected, estop_triggered, control_mode, rc_data_msgq>>

\* Faulty variant: a stopped car sends no motion.
SendMotionUnlessStopped ==
  desired_motion_msgq' =
    IF control_mode' = "RC" /\ ~estop_triggered'
      THEN Overwrite(desired_motion_msgq, desired_motion', MotionDepth)
      ELSE desired_motion_msgq

SendMotion ==
  desired_motion_msgq' =
    IF control_mode' = "RC"
      THEN Overwrite(desired_motion_msgq, desired_motion', MotionDepth)
      ELSE desired_motion_msgq

\* Faulty variant: the state is sent only when it changed.
SendStateChange ==
  robot_state_msgq' =
    IF estop_triggered' = estop_triggered /\ control_mode' = control_mode
      THEN robot_state_msgq
      ELSE Overwrite(robot_state_msgq,
             [estop |-> estop_triggered', mode |-> control_mode'], Depth)

\* The messenger reads two fields of the state.
SendState ==
  robot_state_msgq' =
    Overwrite(robot_state_msgq,
              [estop |-> estop_triggered', mode |-> control_mode'], Depth)

\* What the turn means for the motions in the queue: all are old when the car is
\* in CAN mode, all but the standstill just put when it is stopped.
Mute ==
  /\ old' = IF control_mode' = "CAN" THEN Len(desired_motion_msgq)
            ELSE IF MsgqFull(desired_motion_msgq, MotionDepth) THEN 0
            ELSE IF estop_triggered' THEN Len(desired_motion_msgq) ELSE old
  /\ staleTaken' = IF Muted' THEN 0 ELSE staleTaken
  /\ stoppedLast' = IF Muted' THEN control_mode' = "RC" ELSE stoppedLast
  /\ afterMute' = IF Muted' /\ ~Muted THEN 0 ELSE afterMute

Coordinate ==
  /\ RcFrame \/ RcLost \/ RcMiss
  /\ SendMotion /\ SendState
  /\ Mute
  /\ UNCHANGED <<pc, rc_desired_motion, vesc>>

-----------------------------------------------------------------------------
\* The messenger's loop, one call after the other.

GetState ==
  /\ pc = "state" /\ ~MsgqEmpty(robot_state_msgq)
  /\ LET robot_state == MsgqGot(robot_state_msgq)
     IN pc' = IF ~robot_state.estop /\ robot_state.mode = "RC" THEN "motion"
                                                              ELSE "state"
  /\ robot_state_msgq' = MsgqRest(robot_state_msgq)
  /\ UNCHANGED <<rc_data_msgq, desired_motion_msgq, roboState,
                 rc_desired_motion, vesc, muting>>

GetMotion ==
  /\ pc = "motion" /\ ~MsgqEmpty(desired_motion_msgq)
  /\ rc_desired_motion' = MsgqGot(desired_motion_msgq)
  /\ desired_motion_msgq' = MsgqRest(desired_motion_msgq)
  /\ pc' = "servo" /\ failed' = FALSE
  /\ old' = IF old > 0 THEN old - 1 ELSE 0
  /\ staleTaken' = IF old > 0 /\ ~Muted THEN staleTaken + 1 ELSE staleTaken
  /\ UNCHANGED <<rc_data_msgq, robot_state_msgq, roboState, servo_frame,
                 rpm_frame, failures, stoppedLast, afterMute>>

NoMotion ==
  /\ pc = "motion" /\ MsgqEmpty(desired_motion_msgq)
  /\ pc' = "state"
  /\ UNCHANGED <<rc_data_msgq, desired_motion_msgq, robot_state_msgq, roboState,
                 rc_desired_motion, vesc, muting>>

\* SendCanFrame fails or times out.
SendFails == failures < MaxFailures /\ failures' = failures + 1 /\ failed' = TRUE

SendServoPosCmd ==
  /\ pc = "servo" /\ pc' = "rpm"
  /\ \/ /\ servo_frame' = VescSetServoPosCmdPacketToFrame(
                            VescId, ServoPos(rc_desired_motion), 2000)
        /\ UNCHANGED <<failures, failed>>
     \/ SendFails /\ UNCHANGED servo_frame
  /\ UNCHANGED <<rc_data_msgq, desired_motion_msgq, robot_state_msgq, roboState,
                 rc_desired_motion, rpm_frame, muting>>

\* Faulty variant: the loop first sends all motions there are.
NextMotion == "motion"

\* Where the loop goes on: it sleeps and reads the next state.
NextTurn == "state"

SendSetRpmCmd ==
  /\ pc = "rpm" /\ pc' = NextTurn
  /\ \/ /\ rpm_frame' = VescSetRpmCmdPacketToFrame(VescId,
                                                   MotorRpm(rc_desired_motion))
        /\ afterMute' = IF Muted THEN afterMute + 1 ELSE afterMute
        /\ UNCHANGED <<failures, failed>>
     \/ SendFails /\ UNCHANGED <<rpm_frame, afterMute>>
  /\ UNCHANGED <<rc_data_msgq, desired_motion_msgq, robot_state_msgq, roboState,
                 rc_desired_motion, servo_frame, old, staleTaken, stoppedLast>>

Messenger ==
  GetState \/ GetMotion \/ NoMotion \/ SendServoPosCmd \/ SendSetRpmCmd

Next == (\E f \in RcFrames : RcArrives(f)) \/ Coordinate \/ Messenger

Spec == Init /\ [][Next]_vars

\* Both loops sleep between their turns and no thread of higher priority spins.
FairSpec == Spec /\ WF_vars(Coordinate) /\ WF_vars(Messenger)

-----------------------------------------------------------------------------

Motions == [linear : Channel, angular : Channel]

TypeOK ==
  /\ rc_data_msgq \in Seq(RcFrames) /\ Len(rc_data_msgq) <= Depth
  /\ desired_motion_msgq \in Seq(Motions)
  /\ Len(desired_motion_msgq) <= MotionDepth
  /\ robot_state_msgq \in Seq([estop : BOOLEAN, mode : {"RC", "CAN"}])
  /\ Len(robot_state_msgq) <= Depth
  /\ rc_connected \in BOOLEAN /\ estop_triggered \in BOOLEAN
  /\ control_mode \in {"RC", "CAN"} /\ desired_motion \in Motions
  /\ rc_counter \in 0..rc_timeout_count + 1
  /\ pc \in {"state", "motion", "servo", "rpm"} /\ rc_desired_motion \in Motions
  /\ failures \in 0..MaxFailures /\ failed \in BOOLEAN
  /\ old \in 0..MotionDepth /\ staleTaken \in 0..MotionDepth
  /\ stoppedLast \in BOOLEAN /\ afterMute \in Nat

\* Once the coordinator has decided to stop, or that CAN drives, at most the one
\* speed the messenger was about to send still reaches the VESC; a longer queue of
\* states would let through one more for each state that waits in it
\* (messenger_service.c:136-159, coordinator_service.c:131-158).
OneAfterStop == Muted => afterMute <= Depth

\* The motion queue remembers: when RC drives again after a time in CAN mode, one
\* motion from before may still be taken from it.  After a stop none is, since a
\* stopped coordinator keeps putting standstills into the queue.  A motion that
\* the messenger took before the stop and sends after it does not count
\* (coordinator_service.c:131-147, rccar_interface.c:50).
StaleOnce ==
  staleTaken <= IF stoppedLast THEN MotionDepth - 2 ELSE MotionDepth - 1

\* The last frames the VESC got tell it to do motion m.
VescObeys(m) ==
  /\ VescReads(rpm_frame, VescId) = VescCmd("rpm", MotorRpm(m))
  /\ ReadsPosition(servo_frame, VescId, ServoPos(m), 2000)

\* Unless a send failed, the VESC reads position and speed of one and the same
\* motion, in range and with the right sign, however the coordinator interrupts
\* the two sends (messenger_service.c:143-153, vesc_cmd_parser.c:35-58, 114-126).
VescReadsCommand ==
  pc = "state" /\ ~failed /\ servo_frame # NoFrame /\ rpm_frame # NoFrame
    => VescObeys(rc_desired_motion)

\* While the sticks rest and RC drives, the car ends up told what they say, even
\* though the messenger can be a motion behind and takes at most one for
\* each state it finds (messenger_service.c:136-162); needs the fairness of the
\* scheduler, and a bus that fails a bounded number of times.
SticksReachVesc ==
  \A m \in {ZeroMotion} \cup {RcMotion(f) : f \in RcFrames} :
    <>[](~Muted /\ desired_motion = m)
      => <>[]VescObeys(m)
=============================================================================
