------------------------- MODULE TbotMotionControl -------------------------
(***************************************************************************)
(* The motion control thread of the tbot                                   *)
(* (service/robot_tbot/motion_control/src/motion_control_service.c): turns *)
(* a desired motion into a speed for each wheel and ramps the speeds.      *)
(*                                                                         *)
(* Linear speeds are integers in mm/s, angular ones in mrad/s, wheel       *)
(* speeds in rpm, as int16_t where the code holds them in one.             *)
(***************************************************************************)
EXTENDS Integers, Sequences, Msgq

CONSTANTS Motions,      \* motions the coordinator may send
          BusTargets,   \* wheel speeds the messenger may send
          accel, decel, \* rpm_limit: 3 and 8 in the code
          Int16Max,     \* 32767
          Depth         \* capacity of both queues, 1 in tbot_interface.c

ASSUME MotionsAssumption == Motions \subseteq [linear : Int, angular : Int]
ASSUME Int16Assumption == Int16Max \in Nat
ASSUME LimitAssumption == accel \in 1..Int16Max /\ decel \in 1..Int16Max
ASSUME DepthAssumption == Depth \in Nat \ {0}

Wheels == 0..1
Int16 == -Int16Max - 1 .. Int16Max

\* The value an int16_t holds after the sum or difference x of two was stored in it.
ToInt16(x) == IF x > Int16Max THEN x - 2 * (Int16Max + 1)
              ELSE IF x < -Int16Max - 1 THEN x + 2 * (Int16Max + 1) ELSE x

\* C division truncates toward zero.
TruncDiv(a, b) == IF a >= 0 THEN a \div b ELSE -((-a) \div b)

\* Wheel speed in rpm for v = 200 * linear -/+ 37 * angular (track = 0.185 m):
\* 60 / (2 * pi * 0.0188) = 507.9 rpm per m/s, here 508, cut to an integer.
WheelRpm(v) == TruncDiv(127 * v, 50000)

\* Left wheel 0, right wheel 1; the right motor is mounted the other way round.
TargetRpm(m) ==
  [i \in Wheels |-> IF i = 0 THEN WheelRpm(200 * m.linear - 37 * m.angular)
                    ELSE -WheelRpm(200 * m.linear + 37 * m.angular)]

\* Within 30 m/s and 30 rad/s a wheel speed fits an int16_t; beyond it the
\* conversion from float is undefined in C.
ASSUME TargetAssumption == \A m \in Motions : TargetRpm(m) \in [Wheels -> Int16]

\* Faulty variants: the sign of the previous value is not looked at, so the limits
\* swap in reverse; braking does not brake; braking does not compare the distance
\* with the limit.
ApplyMotionLimitOneWay(prev, value) ==
  LET diff == ToInt16(value - prev)
  IN CASE prev # 0 /\ diff > accel  -> ToInt16(prev + accel)
       [] prev # 0 /\ diff < -decel -> ToInt16(prev - decel)
       [] OTHER -> value

ApplyMotionLimitStuck(prev, value) ==
  LET diff == ToInt16(value - prev)
  IN CASE prev > 0 /\ diff > accel  -> ToInt16(prev + accel)
       [] prev < 0 /\ diff < -accel -> ToInt16(prev - accel)
       [] prev < 0 /\ diff > decel  -> prev
       [] prev > 0 /\ diff < -decel -> prev
       [] OTHER -> value

ApplyMotionLimitPast(prev, value) ==
  LET diff == ToInt16(value - prev)
  IN CASE prev > 0 /\ diff > accel  -> ToInt16(prev + accel)
       [] prev < 0 /\ diff < -accel -> ToInt16(prev - accel)
       [] prev < 0 /\ diff > 0 -> ToInt16(prev + decel)
       [] prev > 0 /\ diff < 0 -> ToInt16(prev - decel)
       [] OTHER -> value

\* One wheel, one step of the ramp.
ApplyMotionLimit(prev, value) ==
  LET diff == ToInt16(value - prev)
  IN CASE prev > 0 /\ diff > accel  -> ToInt16(prev + accel)
       [] prev < 0 /\ diff < -accel -> ToInt16(prev - accel)
       [] prev < 0 /\ diff > decel  -> ToInt16(prev + decel)
       [] prev > 0 /\ diff < -decel -> ToInt16(prev - decel)
       [] OTHER -> value

ASSUME BusAssumption == BusTargets \subseteq [Wheels -> Int16]

-----------------------------------------------------------------------------

VARIABLES desired_motion_msgq,  \* coordinator -> motion control
          desired_rpm_msgq,     \* motion control, messenger -> speed control
          prev_target_rpm,      \* the last speeds sent, per wheel
          command               \* history: the motion served last

vars == <<desired_motion_msgq, desired_rpm_msgq, prev_target_rpm, command>>

Standstill == [i \in Wheels |-> 0]

Init ==
  /\ desired_motion_msgq = << >> /\ desired_rpm_msgq = << >>
  /\ prev_target_rpm = Standstill
  /\ command = [linear |-> 0, angular |-> 0]

\* One turn of the loop that finds a motion; a turn that finds none does
\* nothing, and the speed controller keeps the last target.
ServeMotion ==
  /\ ~MsgqEmpty(desired_motion_msgq)
  /\ LET m == MsgqGot(desired_motion_msgq)
         target == TargetRpm(m)
     IN /\ prev_target_rpm' = [i \in Wheels |->
                                ApplyMotionLimit(prev_target_rpm[i], target[i])]
        /\ command' = m
  /\ desired_motion_msgq' = MsgqRest(desired_motion_msgq)
  /\ desired_rpm_msgq' = Overwrite(desired_rpm_msgq, prev_target_rpm', Depth)

\* The coordinator sends a motion; the messenger sends wheel speeds that came
\* over the bus; speed control takes a target.
MotionArrives(m) ==
  /\ desired_motion_msgq' = Overwrite(desired_motion_msgq, m, Depth)
  /\ UNCHANGED <<desired_rpm_msgq, prev_target_rpm, command>>

BusTargetArrives(t) ==
  /\ desired_rpm_msgq' = Overwrite(desired_rpm_msgq, t, Depth)
  /\ UNCHANGED <<desired_motion_msgq, prev_target_rpm, command>>

RpmTaken ==
  /\ ~MsgqEmpty(desired_rpm_msgq)
  /\ desired_rpm_msgq' = MsgqRest(desired_rpm_msgq)
  /\ UNCHANGED <<desired_motion_msgq, prev_target_rpm, command>>

SomeMotionArrives == \E m \in Motions : MotionArrives(m)

SomeBusTargetArrives == \E t \in BusTargets : BusTargetArrives(t)

Next == ServeMotion \/ SomeMotionArrives \/ SomeBusTargetArrives \/ RpmTaken

Spec == Init /\ [][Next]_vars

-----------------------------------------------------------------------------

TypeOK ==
  /\ desired_motion_msgq \in Seq(Motions) /\ Len(desired_motion_msgq) <= Depth
  /\ desired_rpm_msgq \in Seq([Wheels -> Int16]) /\ Len(desired_rpm_msgq) <= Depth
  /\ prev_target_rpm \in [Wheels -> Int16]
  /\ command \in [linear : Int, angular : Int]

Distance(a, b) == IF a >= b THEN a - b ELSE b - a

\* The step of wheel i just taken, and where it was commanded to go.
Prev(i) == prev_target_rpm[i]
Goal(i) == TargetRpm(command')[i]

\* value - prev fits an int16_t; it does not for a reversal beyond 32 m/s.
InRange(i) == Distance(Goal(i), Prev(i)) <= Int16Max

\* A wheel that turns changes its target speed by at most decel towards zero and
\* by at most accel away from it, whatever is commanded
\* (motion_control_service.c:54-68).  From standstill, and only from there, the
\* code jumps to the command.
RampLimited ==
  [][\A i \in Wheels : InRange(i) =>
       LET next == prev_target_rpm'[i]
       IN /\ Prev(i) > 0 => next - Prev(i) <= accel /\ Prev(i) - next <= decel
          /\ Prev(i) < 0 => Prev(i) - next <= accel /\ next - Prev(i) <= decel]_vars

\* The ramp heads for the command: a step never moves a wheel's target away from
\* the commanded speed, and never past it (motion_control_service.c:49-76).
RampHeadsForCommand ==
  [][prev_target_rpm' # prev_target_rpm =>
       \A i \in Wheels : InRange(i) =>
         LET next == prev_target_rpm'[i]
         IN \/ Prev(i) <= next /\ next <= Goal(i)
            \/ Goal(i) <= next /\ next <= Prev(i)]_vars
=============================================================================
