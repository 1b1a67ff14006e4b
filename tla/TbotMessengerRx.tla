-------------------------- MODULE TbotMessengerRx --------------------------
(***************************************************************************)
(* The receiving thread of the tbot messenger                              *)
(* (service/robot_tbot/messenger/src/messenger_service.c): it turns CAN    *)
(* frames into messages on four queues.  PWM and motor commands go         *)
(* straight to the actuator and the speed controller, whatever the         *)
(* coordinator has decided.                                                *)
(***************************************************************************)
EXTENDS TbotProtocol, Msgq

CONSTANTS Commands,   \* what the computer sends
          CanDepth,   \* capacity of the CAN queue, 1024
          Depth,      \* capacity of the command queues, 1
          CmdDepth    \* capacity of the actuator queue, 16

\* Every number the frames of tbot_protocol.md can carry: a PWM is a byte, which
\* the protocol reads as uint8_t and the firmware as int8_t; the rest are int32_t.
ASSUME CommandsAssumption ==
  Commands \subseteq [type : {"supervisor"}, mode : 0..255]
    \cup [type : {"pwm"}, left : -128..255, right : -128..255]
    \cup [type : {"motor", "motion"}, left : Int32, right : Int32]
    \cup [type : {"other"}]
ASSUME DepthAssumption ==
  CanDepth \in Nat \ {0} /\ Depth \in Nat \ {0} /\ CmdDepth \in Nat \ {0}

VARIABLES
  can_msgq,            \* CAN driver -> messenger
  supervisor_cmd_msgq, \* -> coordinator
  desired_motion_msgq, \* -> coordinator
  actuator_cmd_msgq,   \* -> actuator
  desired_rpm_msgq,    \* -> speed control
  newest               \* history: the last command of each owned queue put on the bus

queues == <<supervisor_cmd_msgq, desired_motion_msgq, actuator_cmd_msgq,
            desired_rpm_msgq>>
vars == <<can_msgq, queues, newest>>

-----------------------------------------------------------------------------
\* The messages made from a decoded frame.

\* The right motor is mounted the other way round.
PwmOf(msg) == << msg.left, -msg.right >>      \* per cent

\* DesiredRpm holds int16_t: the messenger keeps the low half of a word.
RpmOf(msg) == << ToInt16(msg.left), ToInt16(-msg.right) >>

MotionOf(msg) == << msg.left, msg.right >>

Message(frame) == DecodeCanMessage(frame)

\* The types whose queue no other thread writes.
Owned == {"supervisor", "motion"}
NoCommand == [type |-> "none"]

-----------------------------------------------------------------------------

Init ==
  /\ can_msgq = << >>
  /\ supervisor_cmd_msgq = << >> /\ desired_motion_msgq = << >>
  /\ actuator_cmd_msgq = << >> /\ desired_rpm_msgq = << >>
  /\ newest = [k \in Owned |-> NoCommand]

\* The frame the thread waits for; each handler takes it from the queue.
Received(type) ==
  /\ ~MsgqEmpty(can_msgq)
  /\ Message(MsgqGot(can_msgq)).type = type
  /\ can_msgq' = MsgqRest(can_msgq)

SupervisorCommand ==
  /\ Received("supervisor")
  /\ supervisor_cmd_msgq' = Overwrite(supervisor_cmd_msgq,
                              Message(MsgqGot(can_msgq)).mode, Depth)
  /\ UNCHANGED <<desired_motion_msgq, actuator_cmd_msgq, desired_rpm_msgq,
                 newest>>

PwmCommand ==
  /\ Received("pwm")
  /\ actuator_cmd_msgq' = Overwrite(actuator_cmd_msgq,
                            PwmOf(Message(MsgqGot(can_msgq))), CmdDepth)
  /\ UNCHANGED <<supervisor_cmd_msgq, desired_motion_msgq, desired_rpm_msgq,
                 newest>>

MotorCommand ==
  /\ Received("motor")
  /\ desired_rpm_msgq' = Overwrite(desired_rpm_msgq,
                           RpmOf(Message(MsgqGot(can_msgq))), Depth)
  /\ UNCHANGED <<supervisor_cmd_msgq, desired_motion_msgq, actuator_cmd_msgq,
                 newest>>

MotionCommand ==
  /\ Received("motion")
  /\ desired_motion_msgq' = Overwrite(desired_motion_msgq,
                              MotionOf(Message(MsgqGot(can_msgq))), Depth)
  /\ UNCHANGED <<supervisor_cmd_msgq, actuator_cmd_msgq, desired_rpm_msgq,
                 newest>>

UnknownFrame == Received("unknown") /\ UNCHANGED <<queues, newest>>

\* The CAN driver queues a frame, or drops it when the queue is full.
FrameArrives(c) ==
  /\ IF MsgqFull(can_msgq, CanDepth)
       THEN UNCHANGED <<can_msgq, newest>>
       ELSE /\ can_msgq' = MsgqPut(can_msgq, CommandFrame(c))
            /\ newest' = [k \in Owned |-> IF k = c.type THEN c ELSE newest[k]]
  /\ UNCHANGED queues

\* The readers of the queues.
SupervisorTaken ==
  /\ ~MsgqEmpty(supervisor_cmd_msgq)
  /\ supervisor_cmd_msgq' = MsgqRest(supervisor_cmd_msgq)
  /\ UNCHANGED <<can_msgq, desired_motion_msgq, actuator_cmd_msgq,
                 desired_rpm_msgq, newest>>

MotionTaken ==
  /\ ~MsgqEmpty(desired_motion_msgq)
  /\ desired_motion_msgq' = MsgqRest(desired_motion_msgq)
  /\ UNCHANGED <<can_msgq, supervisor_cmd_msgq, actuator_cmd_msgq,
                 desired_rpm_msgq, newest>>

ActuatorCmdTaken ==
  /\ ~MsgqEmpty(actuator_cmd_msgq)
  /\ actuator_cmd_msgq' = MsgqRest(actuator_cmd_msgq)
  /\ UNCHANGED <<can_msgq, supervisor_cmd_msgq, desired_motion_msgq,
                 desired_rpm_msgq, newest>>

RpmTaken ==
  /\ ~MsgqEmpty(desired_rpm_msgq)
  /\ desired_rpm_msgq' = MsgqRest(desired_rpm_msgq)
  /\ UNCHANGED <<can_msgq, supervisor_cmd_msgq, desired_motion_msgq,
                 actuator_cmd_msgq, newest>>

Thread == SupervisorCommand \/ PwmCommand \/ MotorCommand \/ MotionCommand
          \/ UnknownFrame

Next ==
  \/ Thread
  \/ \E c \in Commands : FrameArrives(c)
  \/ SupervisorTaken \/ MotionTaken \/ ActuatorCmdTaken \/ RpmTaken

Spec == Init /\ [][Next]_vars

-----------------------------------------------------------------------------

Sent(type) == {c \in Commands : c.type = type}

TypeOK ==
  /\ can_msgq \in Seq({CommandFrame(c) : c \in Commands})
  /\ Len(can_msgq) <= CanDepth
  /\ supervisor_cmd_msgq \in Seq(0..255) /\ Len(supervisor_cmd_msgq) <= Depth
  /\ desired_motion_msgq \in Seq(Int \X Int) /\ Len(desired_motion_msgq) <= Depth
  /\ actuator_cmd_msgq \in Seq((-128..127) \X (-127..128))
  /\ Len(actuator_cmd_msgq) <= CmdDepth
  /\ desired_rpm_msgq \in Seq(Int16 \X Int16)
  /\ Len(desired_rpm_msgq) <= Depth
  /\ newest \in [Owned -> Commands \cup {NoCommand}]

\* The value q of the given width that C makes of the number x.
Narrowed(q, x, width) ==
  -width \div 2 <= q /\ q < width \div 2 /\ (q - x) % width = 0

\* Motors 1 and 2 of a queued command, made from what c says of left and right.
\* The PWM is turned round after it is narrowed, the speed before.
PwmOfCommand(motors, c) ==
  Narrowed(motors[1], c.left, 256) /\ Narrowed(-motors[2], c.right, 256)
RpmOfCommand(motors, c) ==
  Narrowed(motors[1], c.left, 65536) /\ Narrowed(motors[2], -c.right, 65536)

\* What a queue offers is a command the computer sent: modes and motions number
\* for number, PWM and speeds number for number where int8_t and int16_t hold
\* them, and otherwise what is left of them modulo 2^8 and 2^16, with the right
\* motor's sign turned: 200 per cent arrive as -56, 40000 rpm as -25536
\* (tbot_messenger.c:99-146, messenger_service.c:98-147).
DeliveredAsSent ==
  /\ \A i \in DOMAIN supervisor_cmd_msgq :
       \E c \in Sent("supervisor") : supervisor_cmd_msgq[i] = c.mode
  /\ \A i \in DOMAIN desired_motion_msgq :
       \E c \in Sent("motion") : desired_motion_msgq[i] = << c.left, c.right >>
  /\ \A i \in DOMAIN actuator_cmd_msgq :
       \E c \in Sent("pwm") : PwmOfCommand(actuator_cmd_msgq[i], c)
  /\ \A i \in DOMAIN desired_rpm_msgq :
       \E c \in Sent("motor") : RpmOfCommand(desired_rpm_msgq[i], c)

\* The coordinator never finds a motion or a mode the computer has already
\* replaced, once the frames before it are decoded (messenger_service.c:100-147).
NewestOffered ==
  /\ (desired_motion_msgq # << >>
      /\ (\A i \in DOMAIN can_msgq : can_msgq[i].id # MotionCmdId))
       => desired_motion_msgq[Len(desired_motion_msgq)]
            = << newest["motion"].left, newest["motion"].right >>
  /\ (supervisor_cmd_msgq # << >>
      /\ (\A i \in DOMAIN can_msgq : can_msgq[i].id # SupervisorCmdId))
       => supervisor_cmd_msgq[Len(supervisor_cmd_msgq)] = newest["supervisor"].mode
=============================================================================
