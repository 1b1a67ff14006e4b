---------------------------- MODULE TbotActuator ----------------------------
(***************************************************************************)
(* The actuator thread of the tbot (service/common/actuator): it takes     *)
(* commands and drives two motors, each through an enable pin, a direction *)
(* pin and a PWM channel.  The pins are written one call after the other,  *)
(* and a thread of higher priority may run in between.                     *)
(*                                                                         *)
(* Commands and duty cycles are in parts of Full (Full is the code's 1.0). *)
(* The duty cycle is inverted: LimitCommand turns a command of 1 into a    *)
(* duty of 0.  The direction pin is 1 for reverse.                         *)
(***************************************************************************)
EXTENDS Integers, Sequences, Msgq

CONSTANTS Cmds,       \* commands the queue's writers send
          Full,       \* 1.0
          MaxCmd,     \* 0.99
          DeadZone,   \* 0.05
          Depth       \* capacity of the queue, 16

Motors == 0..1

ASSUME CmdsAssumption == Cmds # {} /\ Cmds \subseteq [Motors -> Int]
ASSUME LimitsAssumption ==
  /\ Full \in Nat /\ MaxCmd \in Nat /\ DeadZone \in Nat
  /\ 0 < DeadZone /\ DeadZone < MaxCmd /\ MaxCmd < Full
ASSUME DepthAssumption == Depth \in Nat \ {0}

VARIABLES
  actuator_cmd_msgq,
  pc,            \* "init", "idle", or the pin to write next
  motor,         \* ... and its motor
  writes,        \* pins written by InitTbotActuators
  actuator_cmd,  \* the command being applied
  en, dir, duty, \* the pins
  previous,      \* history: the drive before actuator_cmd was taken
  newest         \* history: the last command sent

vars == <<actuator_cmd_msgq, pc, motor, writes, actuator_cmd, en, dir, duty,
          previous, newest>>
history == <<previous, newest>>

Stopped == [i \in Motors |-> 0]

-----------------------------------------------------------------------------
\* The conversion.

\* Faulty variants: reverse commands are not inverted; the dead zone is left
\* out.
LimitCommandReverse(in) ==
  LET c == IF -DeadZone < in /\ in < DeadZone THEN 0
           ELSE IF in > MaxCmd THEN MaxCmd
           ELSE IF in < -MaxCmd THEN -MaxCmd ELSE in
  IN IF c > 0 THEN Full - c ELSE IF c = 0 THEN -Full ELSE c

LimitCommandNoDeadZone(in) ==
  LET c == IF in > MaxCmd THEN MaxCmd ELSE IF in < -MaxCmd THEN -MaxCmd ELSE in
  IN IF c > 0 THEN Full - c ELSE -(Full + c)

\* The signed duty cycle; its sign is the direction.
LimitCommand(in) ==
  LET c == IF -DeadZone < in /\ in < DeadZone THEN 0
           ELSE IF in > MaxCmd THEN MaxCmd
           ELSE IF in < -MaxCmd THEN -MaxCmd ELSE in
  IN IF c > 0 THEN Full - c ELSE -(Full + c)

\* SetPwmDutyCycle clamps what it is given.
DutyCycle(d) == IF d < 0 THEN 0 ELSE IF d > Full THEN Full ELSE d

-----------------------------------------------------------------------------
\* What the motor does with its pins, and what a command asks of it.

Drive(i) ==
  IF en[i] = 0 THEN 0 ELSE IF dir[i] = 1 THEN duty[i] - Full ELSE Full - duty[i]

Wanted(in) ==
  IF -DeadZone < in /\ in < DeadZone THEN 0
  ELSE IF in > MaxCmd THEN MaxCmd ELSE IF in < -MaxCmd THEN -MaxCmd ELSE in

Magnitude(x) == IF x < 0 THEN -x ELSE x

Drives == [i \in Motors |-> Drive(i)]

-----------------------------------------------------------------------------

\* Out of reset no pin is driven and no pulse is given.
Init ==
  /\ actuator_cmd_msgq = << >>
  /\ pc = "init" /\ motor = 0 /\ writes = 0 /\ actuator_cmd = Stopped
  /\ en = Stopped /\ dir = Stopped /\ duty = Stopped
  /\ previous = Stopped /\ newest = Stopped

\* InitTbotActuators makes the four pins outputs, which are active at first,
\* clears them, and gives the first PWM channel a negative duty cycle.
InitPin(m) ==
  \/ /\ writes = 2 * m     /\ en' = [en EXCEPT ![m] = 1]
     /\ UNCHANGED <<dir, duty>>
  \/ /\ writes = 2 * m + 1 /\ dir' = [dir EXCEPT ![m] = 1]
     /\ UNCHANGED <<en, duty>>
  \/ /\ writes = 2 * m + 4 /\ en' = [en EXCEPT ![m] = 0]
     /\ UNCHANGED <<dir, duty>>
  \/ /\ writes = 2 * m + 5 /\ dir' = [dir EXCEPT ![m] = 0]
     /\ UNCHANGED <<en, duty>>
  \/ /\ writes = m + 8
     /\ duty' = [duty EXCEPT ![m] = DutyCycle(IF m = 0 THEN -Full ELSE Full)]
     /\ UNCHANGED <<en, dir>>

InitTbotActuators ==
  /\ pc = "init" /\ (\E m \in Motors : InitPin(m))
  /\ writes' = writes + 1
  /\ pc' = IF writes = 9 THEN "idle" ELSE "init"
  /\ UNCHANGED <<actuator_cmd_msgq, motor, actuator_cmd, history>>

\* The thread takes a command (and waits forever for one).
GetCommand ==
  /\ pc = "idle" /\ ~MsgqEmpty(actuator_cmd_msgq)
  /\ actuator_cmd' = MsgqGot(actuator_cmd_msgq)
  /\ actuator_cmd_msgq' = MsgqRest(actuator_cmd_msgq)
  /\ previous' = Drives
  /\ pc' = "en" /\ motor' = 0
  /\ UNCHANGED <<writes, en, dir, duty, newest>>

\* SetMotorCmd, one pin at a time.
SetEnable ==
  /\ pc = "en"
  /\ en' = [en EXCEPT ![motor] = 1]
  /\ pc' = "dir"
  /\ UNCHANGED <<actuator_cmd_msgq, motor, writes, actuator_cmd, dir, duty,
                 history>>

\* Faulty variant: the direction of a wheel once reversed is never reset.
SetDirectionSticky ==
  /\ pc = "dir"
  /\ dir' = IF LimitCommand(actuator_cmd[motor]) < 0
              THEN [dir EXCEPT ![motor] = 1] ELSE dir
  /\ pc' = "duty"
  /\ UNCHANGED <<actuator_cmd_msgq, motor, writes, actuator_cmd, en, duty,
                 history>>

SetDirection ==
  /\ pc = "dir"
  /\ dir' = [dir EXCEPT ![motor] =
               IF LimitCommand(actuator_cmd[motor]) < 0 THEN 1 ELSE 0]
  /\ pc' = "duty"
  /\ UNCHANGED <<actuator_cmd_msgq, motor, writes, actuator_cmd, en, duty,
                 history>>

\* Faulty variant: the right motor gets the left one's duty.
SetDutyLeft ==
  /\ pc = "duty"
  /\ duty' = [duty EXCEPT ![motor] =
                DutyCycle(Magnitude(LimitCommand(actuator_cmd[0])))]
  /\ IF motor = 0 THEN pc' = "en" /\ motor' = 1
                  ELSE pc' = "idle" /\ motor' = 0
  /\ UNCHANGED <<actuator_cmd_msgq, writes, actuator_cmd, en, dir, history>>

\* The last pin of a motor; the left motor comes first.
SetDuty ==
  /\ pc = "duty"
  /\ duty' = [duty EXCEPT ![motor] =
                DutyCycle(Magnitude(LimitCommand(actuator_cmd[motor])))]
  /\ IF motor = 0 THEN pc' = "en" /\ motor' = 1
                  ELSE pc' = "idle" /\ motor' = 0
  /\ UNCHANGED <<actuator_cmd_msgq, writes, actuator_cmd, en, dir, history>>

\* Speed control or the messenger sends a command.
CommandArrives(c) ==
  /\ actuator_cmd_msgq' = Overwrite(actuator_cmd_msgq, c, Depth)
  /\ newest' = c
  /\ UNCHANGED <<pc, motor, writes, actuator_cmd, en, dir, duty, previous>>

Thread == GetCommand \/ SetEnable \/ SetDirection \/ SetDuty

Next == InitTbotActuators \/ Thread \/ \E c \in Cmds : CommandArrives(c)

Spec == Init /\ [][Next]_vars

-----------------------------------------------------------------------------

TypeOK ==
  /\ actuator_cmd_msgq \in Seq(Cmds) /\ Len(actuator_cmd_msgq) <= Depth
  /\ pc \in {"init", "idle", "en", "dir", "duty"} /\ motor \in Motors
  /\ writes \in 0..10
  /\ actuator_cmd \in Cmds \cup {Stopped}
  /\ en \in [Motors -> 0..1] /\ dir \in [Motors -> 0..1]
  /\ duty \in [Motors -> 0..Full]
  /\ previous \in [Motors -> -Full..Full]
  /\ newest \in Cmds \cup {Stopped}

\* Between two commands every motor does what the last one asked, out of the
\* dead zone and short of full power: the inverted duty cycle, the direction
\* pin and the clamps agree (tbot_actuators.c:67-103).
CommandApplied ==
  pc = "idle" => \A i \in Motors : Drive(i) = Wanted(actuator_cmd[i])

\* The first motor until the duty cycle of its first command is written: it still
\* has that of InitTbotActuators, full power, and both motors stood before.
BeforeFirstDuty(i) ==
  i = 0 /\ motor = 0 /\ duty[0] = 0 /\ previous = Stopped

\* From the end of InitTbotActuators on, while the pins are being written, a motor
\* has the power of the previous command or of the new one, never more
\* (tbot_actuators.c:83-103), with one exception: the first motor during its first
\* command, which NeutralNeverMoves is about.  It need not have the direction of
\* either: the direction pin changes first.
NoSurge ==
  pc # "init" =>
    \A i \in Motors :
      \/ Magnitude(Drive(i)) \in {Magnitude(previous[i]),
                                  Magnitude(Wanted(actuator_cmd[i]))}
      \/ BeforeFirstDuty(i)

\* The newest command reaches the motors, however the queue is overwritten
\* meanwhile (tbot_actuators.c:47, speed_control_service.c:101-105).
NewestApplied ==
  \A c \in Cmds :
    (newest = c) ~> \/ newest # c
                    \/ \A i \in Motors : Drive(i) = Wanted(c[i])

\* "add deadzone to avoid motion at neutral position" (tbot_actuators.c:68): as
\* long as every command has been neutral, no initialised motor turns.
NeutralNeverMoves ==
  pc # "init" /\ (\A c \in Cmds, i \in Motors : Wanted(c[i]) = 0)
    => \A i \in Motors : Drive(i) = 0
=============================================================================
