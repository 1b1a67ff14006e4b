----------------------------- MODULE TbotSystem -----------------------------
(***************************************************************************)
(* The command path of the tbot, from the coordinator's decisions to the   *)
(* speed controller, wired as InitRobot wires it                           *)
(* (app/tbot/tbot_interface.c): motion control (TbotMotionControl,         *)
(* extended here) between a coordinator, of which only what it promises is *)
(* used (CoordinatorPromise, implemented by TbotCoordinator), and the      *)
(* first half of the speed control loop.  The messenger is the second      *)
(* writer of the queue that speed control reads.                           *)
(*                                                                         *)
(* The three loops and the messenger are interleaved at every queue        *)
(* operation.                                                              *)
(***************************************************************************)
EXTENDS TbotMotionControl

CONSTANTS SupModes, kNonSupervised   \* of CoordinatorPromise

VARIABLES estop_triggered, sup_mode, desired_motion,  \* of CoordinatorPromise
          target_rpm,   \* the target speed control works on
          late          \* history: motions served since driving was blocked

Coord == INSTANCE CoordinatorPromise WITH motion_msgq <- desired_motion_msgq

ASSUME WiringAssumption == Coord!ZeroMotion \in Motions /\ kNonSupervised \in SupModes

coordinator == <<estop_triggered, sup_mode, desired_motion>>
motionControl == <<desired_rpm_msgq, prev_target_rpm, command>>
systemVars == <<coordinator, vars, target_rpm, late>>

\* The coordinator lets nothing through: it is stopped or supervised.
Blocked == estop_triggered \/ sup_mode # kNonSupervised

SystemInit ==
  /\ Init /\ Coord!Init
  /\ target_rpm = Standstill
  /\ late = 0

-----------------------------------------------------------------------------

\* Driving is allowed again: what is served from now on is not late.
StillLate == IF Blocked' THEN late ELSE 0

CoordinatorDecides ==
  /\ Coord!Decide
  /\ late' = StillLate
  /\ UNCHANGED <<motionControl, target_rpm>>

CoordinatorSends ==
  /\ Coord!Send
  /\ late' = StillLate
  /\ UNCHANGED <<motionControl, target_rpm>>

\* Faulty variant: motion control looks at a motion and leaves it in the queue.
MotionControlPeeks ==
  /\ ~MsgqEmpty(desired_motion_msgq)
  /\ command' = MsgqGot(desired_motion_msgq)
  /\ prev_target_rpm' = [i \in Wheels |->
       ApplyMotionLimit(prev_target_rpm[i], TargetRpm(command')[i])]
  /\ desired_rpm_msgq' = Overwrite(desired_rpm_msgq, prev_target_rpm', Depth)
  /\ late' = IF Blocked /\ command' # Coord!ZeroMotion /\ late <= Depth
               THEN late + 1 ELSE late
  /\ UNCHANGED <<desired_motion_msgq, coordinator, target_rpm>>

\* One turn of motion control; `late' counts the motions other than a standstill
\* that are served while the coordinator is blocked.
MotionControlTurn ==
  /\ ServeMotion
  /\ late' = IF Blocked /\ command' # Coord!ZeroMotion /\ late <= Depth
               THEN late + 1 ELSE late
  /\ UNCHANGED <<coordinator, target_rpm>>

\* Speed control takes a target.
TakeTarget ==
  /\ RpmTaken
  /\ target_rpm' = MsgqGot(desired_rpm_msgq)
  /\ UNCHANGED <<coordinator, late>>

\* The messenger passes wheel speeds from the bus on, in every mode.
BusSpeedArrives ==
  /\ SomeBusTargetArrives
  /\ UNCHANGED <<coordinator, target_rpm, late>>

SystemNext ==
  \/ CoordinatorDecides \/ CoordinatorSends
  \/ MotionControlTurn \/ TakeTarget \/ BusSpeedArrives

SystemSpec == SystemInit /\ [][SystemNext]_systemVars

\* The three loops sleep and wake for ever; nothing is assumed of the operators
\* and of the bus.
FairSystem ==
  /\ SystemSpec
  /\ WF_systemVars(CoordinatorSends)
  /\ WF_systemVars(MotionControlTurn)
  /\ WF_systemVars(TakeTarget)

-----------------------------------------------------------------------------

\* A stop or a supervisor takes effect: after the coordinator has seen it, motion
\* control serves no more motions than were already queued, Depth at most, and
\* everything after is a standstill or nothing, until driving is allowed again
\* (coordinator_service.c:107-170, motion_control_service.c:96).
BlockTakesEffect == late <= Depth

BusQuiet == [][~SomeBusTargetArrives]_systemVars

\* What the operators ask for, once the coordinator has seen it.
Commanded(m) ==
  /\ sup_mode = kNonSupervised
  /\ IF estop_triggered THEN m = Coord!ZeroMotion ELSE desired_motion = m

\* A lasting command reaches the wheels, through two queues, the ramp and every
\* reversal on the way: while the robot is not supervised and no speeds come over
\* the bus, speed control ends up with the wheel speeds of the motion commanded;
\* after a lasting stop, and after the lasting silence of both operators
\* (SilenceStopsRobot), with 0 (coordinator_service.c:107-170,
\* motion_control_service.c:96-134).
CommandReachesWheels ==
  <>BusQuiet =>
    \A m \in Motions : <>[]Commanded(m) => <>[](target_rpm = TargetRpm(m))
=============================================================================
