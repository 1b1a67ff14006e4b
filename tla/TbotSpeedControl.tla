-------------------------- MODULE TbotSpeedControl --------------------------
(***************************************************************************)
(* The speed control thread of the tbot and its PID controllers            *)
(* (service/robot_tbot/speed_control/src/speed_control_service.c and       *)
(* pid_controller.c).  One action per queue operation of the loop body;    *)
(* the queues it alone writes are overwritten in one step.                 *)
(*                                                                         *)
(* Speeds are rpm.  With the fixed period ts of the loop the integral is   *)
(* ts times a sum of errors; the model keeps the sum and scales the gains  *)
(* so that everything is an integer: u is in thousandths, kp = 200,        *)
(* ki * ts = 24 and 19, umax = 100000.  Both kd are 0, which takes the     *)
(* derivative and error_last out of the result.                            *)
(***************************************************************************)
EXTENDS Integers, Sequences, Msgq

CONSTANTS Targets,    \* pairs of wheel speeds that can be commanded
          Estimates,  \* what the encoder thread can send
          kp, ki,     \* gains per wheel, scaled as above
          umax,
          Garbage,    \* what an uninitialised field holds
          Depth,      \* capacity of the queues, 1
          CmdDepth    \* capacity of the actuator queue, 16

Wheels == 0..1
Rest == [i \in Wheels |-> 0]
Speeds == [Wheels -> Int]

ASSUME SpeedsAssumption ==
  /\ Targets \subseteq Speeds
  /\ Estimates \subseteq [raw : Speeds, filtered : Speeds]
ASSUME GarbageAssumption == Garbage \notin Speeds
ASSUME DepthAssumption == Depth \in Nat \ {0} /\ CmdDepth \in Nat \ {0}
ASSUME UmaxAssumption == umax \in Nat \ {0}

\* The integral moves the output by less per turn than the error does.
ASSUME GainAssumption ==
  /\ kp \in [Wheels -> Nat] /\ ki \in [Wheels -> Nat]
  /\ \A i \in Wheels : ki[i] <= kp[i]

VARIABLES
  encoder_rpm_msgq,       \* encoder -> speed control
  desired_rpm_msgq,       \* motion control or messenger -> speed control
  actuator_cmd_msgq,      \* speed control (or messenger) -> actuator
  control_feedback_msgq,  \* speed control -> messenger
  pc,                     \* next queue operation of the loop body
  target_rpm, filtered_rpms, raw_rpms,
  integral,               \* sum of the errors, per wheel
  output                  \* actuator_cmd, times umax

vars == <<encoder_rpm_msgq, desired_rpm_msgq, actuator_cmd_msgq,
          control_feedback_msgq, pc, target_rpm, filtered_rpms, raw_rpms,
          integral, output>>

-----------------------------------------------------------------------------
\* The controller.

Error(i) == target_rpm'[i] - filtered_rpms[i]

\* The output before it is limited.
RawOutput(i) == kp[i] * Error(i) + ki[i] * integral[i]

Limited(u) == IF u > umax THEN umax ELSE IF u < -umax THEN -umax ELSE u

\* Faulty variants: the integral is updated whether or not u is limited; and only
\* the upper limit stops it.
NewIntegralWindup(i) == integral[i] + Error(i)

NewIntegralUpperOnly(i) ==
  IF RawOutput(i) > umax THEN integral[i] ELSE integral[i] + Error(i)

\* Anti-windup: the integral rests while the output is limited.
NewIntegral(i) ==
  IF RawOutput(i) > umax \/ RawOutput(i) < -umax
    THEN integral[i] ELSE integral[i] + Error(i)

UpdatePidControllers ==
  /\ output' = [i \in Wheels |-> Limited(RawOutput(i))]
  /\ integral' = [i \in Wheels |-> NewIntegral(i)]

-----------------------------------------------------------------------------

Init ==
  /\ encoder_rpm_msgq = << >> /\ desired_rpm_msgq = << >>
  /\ actuator_cmd_msgq = << >> /\ control_feedback_msgq = << >>
  /\ pc = "measure"
  /\ target_rpm = Rest /\ filtered_rpms = Rest
  /\ raw_rpms = Garbage    \* measured_rpm.raw_rpms is never initialised
  /\ integral = Rest /\ output = Rest

\* A new estimate, or the old one stays.
Measure ==
  /\ pc = "measure"
  /\ IF MsgqEmpty(encoder_rpm_msgq)
       THEN UNCHANGED <<encoder_rpm_msgq, filtered_rpms, raw_rpms>>
       ELSE /\ filtered_rpms' = MsgqGot(encoder_rpm_msgq).filtered
            /\ raw_rpms' = MsgqGot(encoder_rpm_msgq).raw
            /\ encoder_rpm_msgq' = MsgqRest(encoder_rpm_msgq)
  /\ pc' = "control"
  /\ UNCHANGED <<desired_rpm_msgq, actuator_cmd_msgq, control_feedback_msgq,
                 target_rpm, integral, output>>

\* The controllers run only when a target arrived.
Control ==
  /\ pc = "control" /\ ~MsgqEmpty(desired_rpm_msgq)
  /\ target_rpm' = MsgqGot(desired_rpm_msgq)
  /\ desired_rpm_msgq' = MsgqRest(desired_rpm_msgq)
  /\ UpdatePidControllers
  /\ actuator_cmd_msgq' = Overwrite(actuator_cmd_msgq, output', CmdDepth)
  /\ pc' = "feedback"
  /\ UNCHANGED <<encoder_rpm_msgq, control_feedback_msgq, filtered_rpms,
                 raw_rpms>>

NoTarget ==
  /\ pc = "control" /\ MsgqEmpty(desired_rpm_msgq)
  /\ pc' = "feedback"
  /\ UNCHANGED <<encoder_rpm_msgq, desired_rpm_msgq, actuator_cmd_msgq,
                 control_feedback_msgq, target_rpm, filtered_rpms, raw_rpms,
                 integral, output>>

Feedback ==
  /\ pc = "feedback"
  /\ control_feedback_msgq' =
       Overwrite(control_feedback_msgq,
                 [target |-> target_rpm, raw |-> raw_rpms,
                  filtered |-> filtered_rpms], Depth)
  /\ pc' = "measure"
  /\ UNCHANGED <<encoder_rpm_msgq, desired_rpm_msgq, actuator_cmd_msgq,
                 target_rpm, filtered_rpms, raw_rpms, integral, output>>

\* The other ends: an estimate or a target arrives, a command or a report is
\* taken.
EstimateArrives(e) ==
  /\ encoder_rpm_msgq' = Overwrite(encoder_rpm_msgq, e, Depth)
  /\ UNCHANGED <<desired_rpm_msgq, actuator_cmd_msgq, control_feedback_msgq,
                 pc, target_rpm, filtered_rpms, raw_rpms, integral, output>>

TargetArrives(t) ==
  /\ desired_rpm_msgq' = Overwrite(desired_rpm_msgq, t, Depth)
  /\ UNCHANGED <<encoder_rpm_msgq, actuator_cmd_msgq, control_feedback_msgq,
                 pc, target_rpm, filtered_rpms, raw_rpms, integral, output>>

CommandTaken ==
  /\ ~MsgqEmpty(actuator_cmd_msgq)
  /\ actuator_cmd_msgq' = MsgqRest(actuator_cmd_msgq)
  /\ UNCHANGED <<encoder_rpm_msgq, desired_rpm_msgq, control_feedback_msgq,
                 pc, target_rpm, filtered_rpms, raw_rpms, integral, output>>

FeedbackTaken ==
  /\ ~MsgqEmpty(control_feedback_msgq)
  /\ control_feedback_msgq' = MsgqRest(control_feedback_msgq)
  /\ UNCHANGED <<encoder_rpm_msgq, desired_rpm_msgq, actuator_cmd_msgq,
                 pc, target_rpm, filtered_rpms, raw_rpms, integral, output>>

Next ==
  \/ Measure \/ Control \/ NoTarget \/ Feedback
  \/ \E e \in Estimates : EstimateArrives(e)
  \/ \E t \in Targets : TargetArrives(t)
  \/ CommandTaken \/ FeedbackTaken

Spec == Init /\ [][Next]_vars

-----------------------------------------------------------------------------

TypeOK ==
  /\ encoder_rpm_msgq \in Seq(Estimates)
  /\ Len(encoder_rpm_msgq) <= Depth
  /\ desired_rpm_msgq \in Seq(Speeds) /\ Len(desired_rpm_msgq) <= Depth
  /\ actuator_cmd_msgq \in Seq([Wheels -> -umax..umax])
  /\ Len(actuator_cmd_msgq) <= CmdDepth
  /\ control_feedback_msgq \in
       Seq([target : Speeds, raw : Speeds \cup {Garbage}, filtered : Speeds])
  /\ Len(control_feedback_msgq) <= Depth
  /\ pc \in {"measure", "control", "feedback"}
  /\ target_rpm \in Speeds /\ filtered_rpms \in Speeds
  /\ raw_rpms \in Speeds \cup {Garbage}
  /\ integral \in [Wheels -> Int]
  /\ output \in [Wheels -> -umax..umax]

\* Anti-windup works: however long the wheels are blocked and however the target
\* jumps, the integral alone never asks for more than full power
\* (pid_controller.c:28-35).
IntegralBounded ==
  \A i \in Wheels : ki[i] * integral[i] \in -umax..umax

\* Full power is never applied against the remaining error: after a target the
\* wheels could not reach, the controller does not keep pushing past the next
\* one while the integral unwinds (pid_controller.c:21-35).
SaturatesTowardsTarget ==
  [][Control => \A i \in Wheels :
       /\ output'[i] = umax => Error(i) >= 0
       /\ output'[i] = -umax => Error(i) <= 0]_vars
=============================================================================
