----------------------- MODULE TbotSpeedControl_proofs -----------------------
(***************************************************************************)
(* The PID controllers for all gains with ki * ts <= kp, all limits and    *)
(* all speeds.  The argument is one lemma about products, WindupStep; the  *)
(* rest carries it through the thread's turns.                             *)
(*                                                                         *)
(* And the encoder thread that the measured speeds come from, for any      *)
(* times between its samples: which pulses it counts exactly (CountInv),   *)
(* how far a filtered speed can get (FilterInv), and that a wheel which    *)
(* only turns forwards brings nothing but positive numbers into the        *)
(* counting and the filter (ForwardInv).                                   *)
(***************************************************************************)
EXTENDS TbotSpeedControl, EncoderService, Msgq_proofs, TLAPS

\* A product keeps the order of its factors.
LEMMA ProductOrder ==
  ASSUME NEW P \in Nat, NEW K \in Nat, K <= P, NEW E \in Int
  PROVE  /\ P * E \in Int /\ K * E \in Int
         /\ E >= 0 => 0 <= K * E /\ K * E <= P * E
         /\ E <= 0 => K * E <= 0 /\ P * E <= K * E
<1>1. P * E \in Int /\ K * E \in Int
  OBVIOUS
<1>2. PICK D \in Nat : P = K + D
  <2>1. P - K \in Nat /\ P = K + (P - K)
    OBVIOUS
  <2> QED  BY <2>1
<1>3. P * E = K * E + D * E /\ D * E \in Int
  BY <1>2
<1>4. E >= 0 => 0 <= K * E /\ 0 <= D * E
  OBVIOUS
<1>5. E <= 0 => K * E <= 0 /\ D * E <= 0
  OBVIOUS
<1> QED  BY <1>1, <1>3, <1>4, <1>5

\* One turn of anti-windup: if the output was not limited, the new integral asks
\* for no more than the limit.
LEMMA WindupStep ==
  ASSUME NEW P \in Nat, NEW K \in Nat, K <= P, NEW U \in Nat,
         NEW S \in Int, NEW E \in Int,
         K * S \in -U..U, P * E + K * S \in -U..U
  PROVE  K * (S + E) \in -U..U
<1>1. K * (S + E) = K * S + K * E /\ K * S \in Int
  OBVIOUS
<1>2. /\ P * E \in Int /\ K * E \in Int
      /\ E >= 0 => 0 <= K * E /\ K * E <= P * E
      /\ E <= 0 => K * E <= 0 /\ P * E <= K * E
  BY ProductOrder
<1>3. CASE E >= 0
  BY <1>1, <1>2, <1>3
<1>4. CASE E <= 0
  BY <1>1, <1>2, <1>4
<1> QED  BY <1>3, <1>4

-----------------------------------------------------------------------------
LEMMA LimitedRange ==
  ASSUME NEW u \in Int  PROVE Limited(u) \in -umax..umax
  BY UmaxAssumption DEF Limited

-----------------------------------------------------------------------------

\* What a turn of the controllers does to one wheel.
LEMMA ControllerStep ==
  ASSUME TypeOK, IntegralBounded, target_rpm' \in Speeds, UpdatePidControllers
  PROVE  /\ output' \in [Wheels -> -umax..umax]
         /\ integral' \in [Wheels -> Int]
         /\ IntegralBounded'
<1>1. ASSUME NEW i \in Wheels
      PROVE  /\ kp[i] \in Nat /\ ki[i] \in Nat /\ ki[i] <= kp[i]
             /\ Error(i) \in Int /\ integral[i] \in Int
  BY GainAssumption DEF TypeOK, Speeds, Error
<1>2. ASSUME NEW i \in Wheels
      PROVE  RawOutput(i) \in Int /\ RawOutput(i) = kp[i] * Error(i) + ki[i] * integral[i]
  BY <1>1 DEF RawOutput
<1>3. output' \in [Wheels -> -umax..umax]
  BY <1>2, LimitedRange DEF UpdatePidControllers
<1>4. ASSUME NEW i \in Wheels
      PROVE  NewIntegral(i) \in Int /\ ki[i] * NewIntegral(i) \in -umax..umax
  <2>1. ki[i] * integral[i] \in -umax..umax
    BY DEF IntegralBounded
  <2>2. CASE RawOutput(i) > umax \/ RawOutput(i) < -umax
    BY <1>1, <2>1, <2>2 DEF NewIntegral
  <2>3. CASE ~(RawOutput(i) > umax \/ RawOutput(i) < -umax)
    <3>1. kp[i] * Error(i) + ki[i] * integral[i] \in -umax..umax
      BY <1>2, <2>3, UmaxAssumption
    <3>2. ki[i] * (integral[i] + Error(i)) \in -umax..umax
      BY <1>1, <2>1, <3>1, UmaxAssumption, WindupStep
    <3> QED  BY <1>1, <2>3, <3>2 DEF NewIntegral
  <2> QED  BY <2>2, <2>3
<1>5. integral' = [i \in Wheels |-> NewIntegral(i)]
  BY DEF UpdatePidControllers
<1> QED  BY <1>3, <1>4, <1>5 DEF IntegralBounded

IInv == TypeOK /\ IntegralBounded

LEMMA InitInv == Init => IInv
<1> SUFFICES ASSUME Init PROVE IInv
  OBVIOUS
<1>1. Rest \in Speeds /\ \A i \in Wheels : Rest[i] = 0
  BY DEF Rest, Speeds
<1>2. Rest \in [Wheels -> -umax..umax] /\ Rest \in [Wheels -> Int]
  BY UmaxAssumption DEF Rest
<1>3. \A S : << >> \in Seq(S) /\ Len(<< >>) = 0
  OBVIOUS
<1>4. 0 <= Depth /\ 0 <= CmdDepth
  BY DepthAssumption
<1>5. TypeOK
  BY <1>1, <1>2, <1>3, <1>4, Zenon DEF Init, TypeOK
<1>6. IntegralBounded
  BY <1>1, UmaxAssumption, GainAssumption DEF Init, IntegralBounded
<1> QED  BY <1>5, <1>6 DEF IInv

LEMMA StepInv == IInv /\ [Next]_vars => IInv'
<1> SUFFICES ASSUME IInv, [Next]_vars PROVE IInv'
  OBVIOUS
<1> USE DEF IInv
<1> DEFINE Reports == [target : Speeds, raw : Speeds \cup {Garbage},
                       filtered : Speeds]
<1>0. /\ encoder_rpm_msgq \in Seq(Estimates) /\ Len(encoder_rpm_msgq) <= Depth
      /\ desired_rpm_msgq \in Seq(Speeds) /\ Len(desired_rpm_msgq) <= Depth
      /\ actuator_cmd_msgq \in Seq([Wheels -> -umax..umax])
      /\ Len(actuator_cmd_msgq) <= CmdDepth
      /\ control_feedback_msgq \in Seq(Reports)
      /\ Len(control_feedback_msgq) <= Depth
  BY DEF TypeOK
<1>1. CASE Measure
  <2>1. CASE MsgqEmpty(encoder_rpm_msgq)
    BY <1>1, <2>1 DEF TypeOK, Measure, IntegralBounded
  <2>2. CASE ~MsgqEmpty(encoder_rpm_msgq)
    <3>1. /\ MsgqGot(encoder_rpm_msgq) \in [raw : Speeds, filtered : Speeds]
          /\ MsgqRest(encoder_rpm_msgq) \in Seq(Estimates)
          /\ Len(MsgqRest(encoder_rpm_msgq)) <= Depth
      <4>1. /\ MsgqGot(encoder_rpm_msgq) \in Estimates
            /\ MsgqRest(encoder_rpm_msgq) \in Seq(Estimates)
            /\ Len(MsgqRest(encoder_rpm_msgq)) <= Depth
        BY <1>0, <2>2, GotFits, DepthAssumption
      <4> QED  BY <4>1, SpeedsAssumption
    <3>2. filtered_rpms' \in Speeds /\ raw_rpms' \in Speeds
      BY <1>1, <2>2, <3>1 DEF Measure
    <3> QED  BY <1>1, <2>2, <3>1, <3>2 DEF TypeOK, Measure, IntegralBounded
  <2> QED  BY <2>1, <2>2
<1>2. CASE Control
  <2>1. /\ target_rpm' \in Speeds
        /\ desired_rpm_msgq' \in Seq(Speeds)
        /\ Len(desired_rpm_msgq') <= Depth
    <3>1. ~MsgqEmpty(desired_rpm_msgq)
      BY <1>2 DEF Control
    <3>2. /\ MsgqGot(desired_rpm_msgq) \in Speeds
          /\ MsgqRest(desired_rpm_msgq) \in Seq(Speeds)
          /\ Len(MsgqRest(desired_rpm_msgq)) <= Depth
      BY <1>0, <3>1, GotFits, DepthAssumption
    <3> QED  BY <1>2, <3>2 DEF Control
  <2>2. /\ output' \in [Wheels -> -umax..umax]
        /\ integral' \in [Wheels -> Int]
        /\ IntegralBounded'
    BY <1>2, <2>1, ControllerStep DEF Control
  <2>3. /\ actuator_cmd_msgq' \in Seq([Wheels -> -umax..umax])
        /\ Len(actuator_cmd_msgq') <= CmdDepth
    BY <1>0, <1>2, <2>2, OverwriteFits, DepthAssumption DEF Control
  <2> QED  BY <1>2, <2>1, <2>2, <2>3 DEF TypeOK, Control
<1>3. CASE NoTarget
  BY <1>3 DEF TypeOK, NoTarget, IntegralBounded
<1>4. CASE Feedback
  <2>1. [target |-> target_rpm, raw |-> raw_rpms, filtered |-> filtered_rpms]
          \in Reports
    BY DEF TypeOK
  <2>2. /\ control_feedback_msgq' \in Seq(Reports)
        /\ Len(control_feedback_msgq') <= Depth
    BY <1>0, <1>4, <2>1, OverwriteFits, DepthAssumption DEF Feedback
  <2> QED  BY <1>4, <2>2 DEF TypeOK, Feedback, IntegralBounded
<1>5. ASSUME NEW e \in Estimates, EstimateArrives(e) PROVE IInv'
  <2>1. /\ encoder_rpm_msgq' \in Seq(Estimates)
        /\ Len(encoder_rpm_msgq') <= Depth
    BY <1>0, <1>5, OverwriteFits, DepthAssumption DEF EstimateArrives
  <2> QED  BY <1>5, <2>1 DEF TypeOK, EstimateArrives, IntegralBounded
<1>6. ASSUME NEW t \in Targets, TargetArrives(t) PROVE IInv'
  <2>1. /\ desired_rpm_msgq' \in Seq(Speeds)
        /\ Len(desired_rpm_msgq') <= Depth
    BY <1>0, <1>6, OverwriteFits, DepthAssumption, SpeedsAssumption
       DEF TargetArrives
  <2> QED  BY <1>6, <2>1 DEF TypeOK, TargetArrives, IntegralBounded
<1>7. CASE CommandTaken
  <2>1. /\ actuator_cmd_msgq' \in Seq([Wheels -> -umax..umax])
        /\ Len(actuator_cmd_msgq') <= CmdDepth
    <3>1. ~MsgqEmpty(actuator_cmd_msgq)
      BY <1>7 DEF CommandTaken
    <3>2. /\ MsgqRest(actuator_cmd_msgq) \in Seq([Wheels -> -umax..umax])
          /\ Len(MsgqRest(actuator_cmd_msgq)) <= CmdDepth
      BY <1>0, <3>1, GotFits, DepthAssumption
    <3> QED  BY <1>7, <3>2 DEF CommandTaken
  <2> QED  BY <1>7, <2>1 DEF TypeOK, CommandTaken, IntegralBounded
<1>8. CASE FeedbackTaken
  <2>1. /\ control_feedback_msgq' \in Seq(Reports)
        /\ Len(control_feedback_msgq') <= Depth
    <3>1. ~MsgqEmpty(control_feedback_msgq)
      BY <1>8 DEF FeedbackTaken
    <3>2. /\ MsgqRest(control_feedback_msgq) \in Seq(Reports)
          /\ Len(MsgqRest(control_feedback_msgq)) <= Depth
      BY <1>0, <3>1, GotFits, DepthAssumption
    <3> QED  BY <1>8, <3>2 DEF FeedbackTaken
  <2> QED  BY <1>8, <2>1 DEF TypeOK, FeedbackTaken, IntegralBounded
<1>9. CASE UNCHANGED vars
  BY <1>9 DEF TypeOK, IntegralBounded, vars
<1> QED
  BY <1>1, <1>2, <1>3, <1>4, <1>5, <1>6, <1>7, <1>8, <1>9 DEF Next

LEMMA Invariance == Spec => []IInv
  BY InitInv, StepInv, PTL DEF Spec

\* Every command is within the limit and every queue within its capacity.
THEOREM SpeedTypeCorrect == Spec => []TypeOK
<1>1. IInv => TypeOK
  BY DEF IInv
<1> QED  BY <1>1, Invariance, PTL

\* Anti-windup bounds the integral for all gains with ki * ts <= kp
\* (pid_controller.c:28-35).
THEOREM AntiWindup == Spec => []IntegralBounded
<1>1. IInv => IntegralBounded
  BY DEF IInv
<1> QED  BY <1>1, Invariance, PTL

\* Hence full power always acts against the remaining error.
THEOREM Saturation == Spec => SaturatesTowardsTarget
<1>1. IInv /\ [Next]_vars =>
        [Control => \A i \in Wheels :
           /\ output'[i] = umax => Error(i) >= 0
           /\ output'[i] = -umax => Error(i) <= 0]_vars
  <2> SUFFICES ASSUME IInv, Control, NEW i \in Wheels
               PROVE  /\ output'[i] = umax => Error(i) >= 0
                      /\ output'[i] = -umax => Error(i) <= 0
    OBVIOUS
  <2>1. target_rpm' \in Speeds
    <3>1. desired_rpm_msgq \in Seq(Speeds) /\ ~MsgqEmpty(desired_rpm_msgq)
      BY DEF IInv, TypeOK, Control
    <3>2. MsgqGot(desired_rpm_msgq) \in Speeds
      BY <3>1, GotRest
    <3> QED  BY <3>2 DEF Control
  <2>2. /\ kp[i] \in Nat /\ ki[i] \in Nat /\ ki[i] <= kp[i]
        /\ Error(i) \in Int /\ integral[i] \in Int
    BY <2>1, GainAssumption DEF IInv, TypeOK, Speeds, Error
  <2>3. ki[i] * integral[i] \in -umax..umax
    BY DEF IInv, IntegralBounded
  <2>4. /\ kp[i] * Error(i) \in Int
        /\ kp[i] > 0 /\ Error(i) > 0 => kp[i] * Error(i) > 0
        /\ kp[i] > 0 /\ Error(i) < 0 => kp[i] * Error(i) < 0
        /\ kp[i] = 0 => kp[i] * Error(i) = 0 /\ ki[i] * integral[i] = 0
    BY <2>2
  <2>5. output'[i] = Limited(kp[i] * Error(i) + ki[i] * integral[i])
    BY DEF Control, UpdatePidControllers, RawOutput
  <2> DEFINE p == kp[i] * Error(i)  q == ki[i] * integral[i]
  <2>6. p \in Int /\ q \in -umax..umax /\ output'[i] = Limited(p + q)
    BY <2>3, <2>4, <2>5
  <2>7. /\ kp[i] > 0 /\ Error(i) > 0 => p > 0
        /\ kp[i] > 0 /\ Error(i) < 0 => p < 0
        /\ kp[i] = 0 => p = 0 /\ q = 0
    BY <2>4
  <2> HIDE DEF p, q
  <2> QED  BY <2>2, <2>6, <2>7, UmaxAssumption DEF Limited
<1> QED  BY <1>1, Invariance, PTL DEF Spec, SaturatesTowardsTarget
-----------------------------------------------------------------------------
\* The encoder thread, whose estimates the controllers get.

Rpms == -MaxRpm..MaxRpm

\* A filtered speed that was too large was replaced before it was stored.
FilterInv ==
  /\ last_filtered_rpm \in Rpms
  /\ \A i \in 0..(FilterLen - 1) : estimated_rpm_history[i] \in Rpms
  /\ rpm_msgq_out \in Seq([raw : Int, filtered : Rpms])
  /\ loop_counter = 1 => accumulated_time = 0

\* Between two readings the wheel never makes more than MaxPulse pulses, and none
\* are left over when the first reading after an estimate is taken.
CountInv ==
  /\ overflow_detected = flagged
  /\ ~first_time => encoder_prev_reading = counter
  /\ moved \in -MaxPulse..MaxPulse
  /\ ~misread => accumulated_error = IF moved < 0 THEN -moved ELSE moved
  /\ loop_counter = 1 => moved = 0 /\ ~misread

\* A wheel that only turned forwards is only ever counted up.
ForwardInv ==
  ~backwards =>
    /\ moved >= 0 /\ ~misread
    /\ raw_rpm_history[1] >= 0 /\ raw_rpm_history[2] >= 0
    /\ last_filtered_rpm >= 0
    /\ \A i \in 0..(FilterLen - 1) : estimated_rpm_history[i] >= 0
    /\ rpm_msgq_out \in Seq([raw : Nat, filtered : Nat])

\* What is assumed of the constants, in the form the proofs use.
EncoderConstants ==
  /\ \A d \in Deltas : d \in Int /\ -MaxPulse <= d /\ d <= MaxPulse
  /\ Starts \subseteq Readings
  /\ \A ms \in Elapsed : ms \in Nat
  /\ MaxPulse \in Nat /\ 2 * MaxPulse < 35792
  /\ PulsePerRound \in Nat \ {0} /\ FilterLen \in 1..10
  /\ OverflowAtStart \subseteq BOOLEAN
  /\ MaxChanges \in Nat /\ MaxRpm \in Nat
  /\ MinEstimates \in Nat /\ RpmDepth \in Nat \ {0}

LEMMA EncoderNumbers ==
  /\ Counts = 65536
  /\ \A x \in Int : 0 <= x /\ x < 65536 => x \in Readings
  /\ \A x \in Readings : x \in Int /\ 0 <= x /\ x < 65536
  BY SMT DEF Counts, Autoreload, Readings

LEMMA EncoderConstantsFact == EncoderConstants
  BY EncoderNumbers, EncoderAssumption, SMT DEF EncoderConstants

LEMMA EncoderStarts ==
  ASSUME EncoderInit
  PROVE  EncoderTypeOK /\ FilterInv /\ CountInv /\ ForwardInv
  <1>1. EncoderConstants
    BY EncoderConstantsFact
  <1>2. counter \in Readings /\ 0 \in Readings
    BY <1>1, EncoderNumbers, SMT DEF EncoderConstants, EncoderInit
  <1>3. /\ 0 \in 0..MinEstimates /\ 0 \in 0..MaxChanges /\ 0 \in Rpms
        /\ 0 \in -MaxPulse..MaxPulse
    BY <1>1, SMT DEF EncoderConstants, Rpms
  <1>4. /\ << >> \in Seq([raw : Int, filtered : Int]) /\ Len(<< >>) = 0
        /\ << >> \in Seq([raw : Int, filtered : Rpms]) /\ 0 <= RpmDepth
        /\ << >> \in Seq([raw : Nat, filtered : Nat])
    BY <1>1 DEF EncoderConstants
  <1>5. EncoderTypeOK
    <2>1. overflow_detected \in BOOLEAN
      BY <1>1 DEF EncoderConstants, EncoderInit
    <2>2. /\ estimated_rpm_history \in [0..(FilterLen - 1) -> Int]
          /\ raw_rpm_history \in Int \X Int
          /\ 0 \in 0..(FilterLen - 1) /\ 0 \in 0..1
      BY <1>1, SMT DEF EncoderInit, EncoderConstants
    <2> QED
      BY <1>2, <1>3, <1>4, <2>1, <2>2 DEF EncoderInit, EncoderTypeOK
  <1>6. CountInv
    BY <1>3, SMT DEF EncoderInit, CountInv
  <1>7. FilterInv
    BY <1>3, <1>4, SMT DEF EncoderInit, FilterInv
  <1>8. ForwardInv
    BY <1>4, SMT DEF EncoderInit, ForwardInv
  <1> QED
    BY <1>5, <1>6, <1>7, <1>8

\* One reading: pulses and direction are the wheel's, wherever the counter wraps.
LEMMA ReadingExact ==
  ASSUME NEW c \in Int, 0 <= c, c < 65536, NEW d \in Int, NEW M \in Nat,
         2 * M < 65536, -M <= d, d <= M,
         NEW r, r = (c + d) % 65536
  PROVE  /\ r \in Int /\ 0 <= r /\ r < 65536
         /\ d >= 0 => /\ (r - c) % 65536 = d
                      /\ IF r >= c THEN ~(r - c > M) ELSE c - r > M
         /\ d < 0 => /\ (c - r) % 65536 = -d
                     /\ IF r >= c THEN r - c > M ELSE ~(c - r > M)
  <1>1. CASE c + d >= 65536
    BY <1>1, SMT
  <1>2. CASE c + d < 0
    BY <1>2, SMT
  <1>3. CASE 0 <= c + d /\ c + d < 65536
    BY <1>3, SMT
  <1> QED
    BY <1>1, <1>2, <1>3, SMT

\* The arithmetic of an estimate.
LEMMA TruncDivType ==
  ASSUME NEW a \in Int, NEW b \in Int, b > 0
  PROVE  TruncDiv(a, b) \in Int
  BY SMT DEF TruncDiv

LEMMA TruncDivSign ==
  ASSUME NEW a \in Nat, NEW b \in Nat, b > 0
  PROVE  TruncDiv(a, b) \in Nat
  BY SMT DEF TruncDiv

\* n numbers between L and M have a sum between n times L and n times M.
LEMMA AverageBounded ==
  ASSUME NEW L \in Int, NEW M \in Nat, L <= 0, FilterLen \in 1..10,
         NEW h, \A i \in 0..(FilterLen - 1) : h[i] \in L..M
  PROVE  Average(h) \in L..M
  <1> DEFINE at(i) == IF i < FilterLen THEN h[i] ELSE 0
             sum == at(0) + at(1) + at(2) + at(3) + at(4)
                      + at(5) + at(6) + at(7) + at(8) + at(9)
  <1>1. \A i \in 0..9 : /\ at(i) \in Int /\ L <= at(i) /\ at(i) <= M
                        /\ i >= FilterLen => at(i) = 0
    BY SMT
  <1> HIDE DEF at
  <1>2. sum \in Int /\ FilterLen * L <= sum /\ sum <= FilterLen * M
    <2>1. /\ at(0) \in Int /\ at(1) \in Int /\ at(2) \in Int /\ at(3) \in Int
          /\ at(4) \in Int /\ at(5) \in Int /\ at(6) \in Int /\ at(7) \in Int
          /\ at(8) \in Int /\ at(9) \in Int
      BY <1>1
    <2>2. /\ L <= at(0) /\ L <= at(1) /\ L <= at(2) /\ L <= at(3) /\ L <= at(4)
          /\ L <= at(5) /\ L <= at(6) /\ L <= at(7) /\ L <= at(8) /\ L <= at(9)
      BY <1>1
    <2>3. /\ at(0) <= M /\ at(1) <= M /\ at(2) <= M /\ at(3) <= M /\ at(4) <= M
          /\ at(5) <= M /\ at(6) <= M /\ at(7) <= M /\ at(8) <= M /\ at(9) <= M
      BY <1>1
    <2>4. /\ FilterLen < 2 => at(1) = 0
          /\ FilterLen < 3 => at(2) = 0
          /\ FilterLen < 4 => at(3) = 0
          /\ FilterLen < 5 => at(4) = 0
          /\ FilterLen < 6 => at(5) = 0
          /\ FilterLen < 7 => at(6) = 0
          /\ FilterLen < 8 => at(7) = 0
          /\ FilterLen < 9 => at(8) = 0
          /\ FilterLen < 10 => at(9) = 0
      BY <1>1, SMT
    <2>5. CASE FilterLen = 1   BY <2>1, <2>2, <2>3, <2>4, <2>5, SMT
    <2>6. CASE FilterLen = 2   BY <2>1, <2>2, <2>3, <2>4, <2>6, SMT
    <2>7. CASE FilterLen = 3   BY <2>1, <2>2, <2>3, <2>4, <2>7, SMT
    <2>8. CASE FilterLen = 4   BY <2>1, <2>2, <2>3, <2>4, <2>8, SMT
    <2>9. CASE FilterLen = 5   BY <2>1, <2>2, <2>3, <2>4, <2>9, SMT
    <2>10. CASE FilterLen = 6   BY <2>1, <2>2, <2>3, <2>4, <2>10, SMT
    <2>11. CASE FilterLen = 7   BY <2>1, <2>2, <2>3, <2>4, <2>11, SMT
    <2>12. CASE FilterLen = 8   BY <2>1, <2>2, <2>3, <2>4, <2>12, SMT
    <2>13. CASE FilterLen = 9   BY <2>1, <2>2, <2>3, <2>4, <2>13, SMT
    <2>14. CASE FilterLen = 10   BY <2>1, <2>2, <2>3, <2>4, <2>14, SMT
    <2>15. \/ FilterLen = 1 \/ FilterLen = 2 \/ FilterLen = 3 \/ FilterLen = 4
           \/ FilterLen = 5 \/ FilterLen = 6 \/ FilterLen = 7 \/ FilterLen = 8
           \/ FilterLen = 9 \/ FilterLen = 10
      BY SMT
    <2> HIDE DEF sum
    <2> QED
      BY <2>5, <2>6, <2>7, <2>8, <2>9, <2>10, <2>11, <2>12, <2>13, <2>14, <2>15
  <1>3. Average(h) = TruncDiv(sum, FilterLen)
    BY DEF Average, at
  <1> HIDE DEF sum
  <1>4. \A n \in 1..10 : n * L <= sum /\ sum <= n * M => TruncDiv(sum, n) \in L..M
    BY <1>2, SMT DEF TruncDiv
  <1> QED
    BY <1>2, <1>3, <1>4

\* One estimate: the filter and the queue keep within the limits.
LEMMA EstimateStep ==
  ASSUME EncoderConstants, EncoderTypeOK, FilterInv,
         NEW sign \in {1, -1}, NEW error \in Nat, NEW time \in Nat, time > 0,
         Estimate(sign, error, time)
  PROVE  /\ raw_rpm_history' \in Int \X Int /\ last_filtered_rpm' \in Rpms
         /\ estimated_rpm_history' \in [0..(FilterLen - 1) -> Int]
         /\ \A i \in 0..(FilterLen - 1) : estimated_rpm_history'[i] \in Rpms
         /\ indexer' \in 0..(FilterLen - 1) /\ estimator_counter' \in 0..MinEstimates
         /\ rpm_msgq_out' \in Seq([raw : Int, filtered : Rpms])
         /\ Len(rpm_msgq_out') <= RpmDepth
  <1> DEFINE raw == RawRpm(sign, error, time)
             low == LowPass(last_filtered_rpm, raw_rpm_history)
             filtered == HoldOutlier(low)
             estimates == [estimated_rpm_history EXCEPT ![indexer] = filtered]
             published == IF estimator_counter >= FilterLen
                            THEN Average(estimates) ELSE filtered
             message == [raw |-> raw, filtered |-> published]
  <1>1. /\ indexer \in 0..(FilterLen - 1) /\ last_filtered_rpm \in Int
        /\ raw_rpm_history \in Int \X Int /\ FilterLen \in 1..10
        /\ estimated_rpm_history \in [0..(FilterLen - 1) -> Int] /\ MaxRpm \in Nat
        /\ estimator_counter \in 0..MinEstimates /\ MinEstimates \in Nat
    BY SMT DEF EncoderTypeOK, EncoderConstants
  <1>2. raw \in Int
    <2>1. PulsesTimesMinute(error) \in Int
      BY SMT DEF PulsesTimesMinute
    <2>2. sign * PulsesTimesMinute(error) \in Int
      BY <2>1
    <2>3. TruncDiv(sign * PulsesTimesMinute(error), time) \in Int
      BY <2>2, TruncDivType
    <2>4. PulsePerRound \in Int /\ PulsePerRound > 0
      BY DEF EncoderConstants
    <2> QED
      BY <2>3, <2>4, TruncDivType DEF RawRpm
  <1>3. filtered \in Rpms
    <2>1. low \in Int
      <3>1. 72849 * last_filtered_rpm
              + (27151 * (raw_rpm_history[1] + raw_rpm_history[2])) \div 2 \in Int
        BY <1>1, SMT
      <3> QED
        BY <3>1, TruncDivType, SMT DEF LowPass
    <2>2. last_filtered_rpm \in -MaxRpm..MaxRpm
      BY DEF FilterInv, Rpms
    <2> HIDE DEF low
    <2>3. HoldOutlier(low) \in -MaxRpm..MaxRpm
      BY <1>1, <2>1, <2>2, SMT DEF HoldOutlier
    <2> QED
      BY <2>3 DEF Rpms
  <1> HIDE DEF raw, filtered
  <1>4. /\ \A i \in 0..(FilterLen - 1) : estimates[i] \in Rpms
        /\ estimates \in [0..(FilterLen - 1) -> Int]
    <2>1. filtered \in Int
      BY <1>1, <1>3 DEF Rpms
    <2> QED
      BY <1>1, <1>3, <2>1 DEF FilterInv
  <1> HIDE DEF estimates
  <1>5. published \in Rpms
    <2>1. Average(estimates) \in -MaxRpm..MaxRpm
      BY <1>1, <1>4, AverageBounded DEF Rpms
    <2> QED
      BY <1>3, <2>1 DEF Rpms
  <1> HIDE DEF published
  <1>6. message \in [raw : Int, filtered : Rpms]
    BY <1>2, <1>5
  <1> HIDE DEF message
  <1>7. /\ Overwrite(rpm_msgq_out, message, RpmDepth) \in Seq([raw : Int, filtered : Rpms])
        /\ Len(Overwrite(rpm_msgq_out, message, RpmDepth)) <= RpmDepth
    <2>1. /\ rpm_msgq_out \in Seq([raw : Int, filtered : Rpms])
          /\ Len(rpm_msgq_out) <= RpmDepth /\ RpmDepth \in Nat \ {0}
      BY DEF FilterInv, EncoderConstants, EncoderTypeOK
    <2> QED
      BY <1>6, <2>1, OverwriteFits
  <1>8. /\ raw_rpm_history' = << raw_rpm_history[2], raw >>
        /\ last_filtered_rpm' = filtered /\ estimated_rpm_history' = estimates
        /\ indexer' = (indexer + 1) % FilterLen
        /\ rpm_msgq_out' \in {rpm_msgq_out, Overwrite(rpm_msgq_out, message, RpmDepth)}
        /\ IF estimator_counter + 1 > MinEstimates
             THEN estimator_counter' = MinEstimates
             ELSE estimator_counter' = estimator_counter + 1
    BY DEF Estimate, raw, filtered, estimates, published, message
  <1>9. raw_rpm_history' \in Int \X Int
    BY <1>1, <1>2, <1>8
  <1>10. indexer' \in 0..(FilterLen - 1) /\ estimator_counter' \in 0..MinEstimates
    <2>1. \A n \in 1..10 : \A k \in Nat : k % n \in 0..(n - 1)
      BY SMT
    <2> QED
      BY <1>1, <1>8, <2>1, SMT
  <1>11. rpm_msgq_out' \in Seq([raw : Int, filtered : Rpms]) /\ Len(rpm_msgq_out') <= RpmDepth
    BY <1>7, <1>8 DEF FilterInv, EncoderTypeOK
  <1> QED
    BY <1>3, <1>4, <1>8, <1>9, <1>10, <1>11

\* The counter after a period.
LEMMA SampleCounter ==
  ASSUME EncoderConstants, EncoderTypeOK, Sample
  PROVE  /\ counter' = (counter + delta) % 65536
         /\ counter' \in Readings
         /\ counter \in Int /\ 0 <= counter /\ counter < 65536
         /\ delta \in Int /\ -MaxPulse <= delta /\ delta <= MaxPulse
  <1>1. /\ counter \in Int /\ 0 <= counter /\ counter < 65536
        /\ delta \in Int /\ -MaxPulse <= delta /\ delta <= MaxPulse
    BY EncoderNumbers, SMT DEF EncoderTypeOK, EncoderConstants
  <1>2. (CountsPerCycle(EncoderMode) * delta) \div 4 = delta
    BY <1>1, SMT DEF CountsPerCycle, EncoderMode
  <1>3. counter' = (counter + delta) % 65536
    BY <1>2, EncoderNumbers DEF Sample, EncoderCounts
  <1>4. (counter + delta) % 65536 \in Readings
    BY <1>1, EncoderNumbers, SMT
  <1> QED
    BY <1>1, <1>3, <1>4

\* What a sample adds to the pulses.
LEMMA CountedType ==
  ASSUME EncoderConstants, EncoderTypeOK, Sample
  PROVE  /\ Counted(counter') \in Readings
         /\ Counted(counter') \in Nat
  <1>1. /\ counter' \in Int /\ encoder_prev_reading \in Int
        /\ accumulated_error \in Int
    BY SampleCounter, EncoderNumbers, SMT DEF EncoderTypeOK
  <1>2. ReadingError(counter') \in Int
    BY <1>1, EncoderNumbers, SMT DEF ReadingError
  <1>3. (accumulated_error + ReadingError(counter')) % 65536
          \in Readings
    BY <1>1, <1>2, EncoderNumbers, SMT
  <1>4. Counted(counter') \in Readings
    BY <1>3, EncoderNumbers DEF Counted
  <1> QED
    BY <1>4, EncoderNumbers, SMT

LEMMA RpmsAreNumbers ==
  ASSUME MaxRpm \in Nat, NEW q \in Seq([raw : Int, filtered : Rpms])
  PROVE  q \in Seq([raw : Int, filtered : Int])
  <1>1. \A x \in Rpms : x \in Int
    BY SMT DEF Rpms
  <1> DEFINE R == [raw : Int, filtered : Rpms]
             S == [raw : Int, filtered : Int]
  <1>2. \A m \in R : m \in S
    BY <1>1
  <1>3. q \in Seq(R)
    OBVIOUS
  <1> HIDE DEF R, S
  <1>4. \A i \in 1..Len(q) : q[i] \in R
    BY <1>3
  <1>5. q \in Seq(S)
    BY <1>2, <1>3, <1>4
  <1> QED
    BY <1>5 DEF S

\* The two things a sample can do, once the time it measured is picked.
LEMMA SampleCases ==
  ASSUME EncoderConstants, EncoderTypeOK, FilterInv, Sample
  PROVE  LET error == Counted(counter')
             sign == IF is_counting_up' THEN 1 ELSE -1
         IN \/ /\ loop_counter = 0 /\ loop_counter' = 1
               /\ \E time \in Nat : time > 0 /\ Estimate(sign, error, time)
               /\ accumulated_error' = 0 /\ accumulated_time' = 0
               /\ moved' = 0 /\ misread' = FALSE
            \/ /\ loop_counter = 1 /\ loop_counter' = 0
               /\ accumulated_error' = error /\ accumulated_time' \in Elapsed
               /\ moved' = moved + delta /\ misread' = FlagMisleads
               /\ raw_rpm_history' = raw_rpm_history
               /\ last_filtered_rpm' = last_filtered_rpm
               /\ estimated_rpm_history' = estimated_rpm_history
               /\ indexer' = indexer /\ estimator_counter' = estimator_counter
               /\ rpm_msgq_out' = rpm_msgq_out
  <1> DEFINE error == Counted(counter')
             sign == IF is_counting_up' THEN 1 ELSE -1
  <1>1. PICK ms \in Elapsed :
          IF loop_counter = 0
            THEN /\ accumulated_time + ms >= PeriodMs
                 /\ Estimate(sign, error, accumulated_time + ms)
                 /\ accumulated_error' = 0 /\ accumulated_time' = 0
                 /\ moved' = 0 /\ misread' = FALSE
            ELSE /\ accumulated_error' = error
                 /\ accumulated_time' = accumulated_time + ms
                 /\ moved' = moved + delta /\ misread' = FlagMisleads
                 /\ UNCHANGED <<filter, rpm_msgq_out>>
    BY DEF Sample, GetEncoderCount
  <1>2. /\ ms \in Nat /\ accumulated_time \in Nat
        /\ loop_counter \in {0, 1} /\ loop_counter' = (loop_counter + 1) % 2
        /\ loop_counter = 1 => accumulated_time = 0
    BY DEF EncoderConstants, EncoderTypeOK, Sample, FilterInv
  <1> HIDE DEF error, sign
  <1>3. CASE loop_counter = 0
    <2>1. accumulated_time + ms \in Nat /\ accumulated_time + ms > 0 /\ loop_counter' = 1
      BY <1>1, <1>2, <1>3 DEF PeriodMs
    <2> QED
      BY <1>1, <1>3, <2>1 DEF error, sign
  <1>4. CASE loop_counter = 1
    <2>1. accumulated_time' = ms /\ loop_counter' = 0
      BY <1>1, <1>2, <1>4
    <2> QED
      BY <1>1, <1>4, <2>1 DEF error, sign, filter
  <1> QED
    BY <1>2, <1>3, <1>4

LEMMA EncoderSampleType ==
  ASSUME EncoderConstants, EncoderTypeOK, FilterInv, Sample
  PROVE  EncoderTypeOK' /\ FilterInv'
  <1> DEFINE error == Counted(counter')
             sign == IF is_counting_up' THEN 1 ELSE -1
  <1>1. error \in Readings /\ error \in Nat
    BY CountedType
  <1>2. counter' \in Readings /\ encoder_prev_reading' = counter'
    <2>1. encoder_prev_reading' = counter'
      BY DEF Sample, Count, GetEncoderCount
    <2> QED
      BY <2>1, SampleCounter
  <1>3. overflow_detected' \in BOOLEAN /\ is_counting_up' \in BOOLEAN
    <2>1. overflow_detected' = (overflow_detected /\ counter' >= encoder_prev_reading)
      BY DEF Sample, Count, GetEncoderCount
    <2>2. is_counting_up' = CountsUp(counter')
      BY DEF Sample, Count, GetEncoderCount
    <2>3. CountsUp(counter') \in BOOLEAN
      BY DEF CountsUp, EncoderTypeOK, Jump
    <2> QED
      BY <2>1, <2>2, <2>3
  <1>4. flagged' \in BOOLEAN /\ backwards' \in BOOLEAN
    BY DEF Sample, EncoderTypeOK
  <1>5. /\ first_time' = first_time /\ delta' = delta /\ changes' = changes
    BY DEF Sample
  <1>6. MaxRpm \in Nat /\ \A x \in Rpms : x \in Int
    BY SMT DEF EncoderConstants, Rpms
  <1>7. 0 \in Readings
    BY EncoderNumbers, SMT
  <1>8. CASE loop_counter = 0
    <2>1. PICK time \in Nat : time > 0 /\ Estimate(sign, error, time)
      BY <1>8, SampleCases
    <2>2. /\ accumulated_error' = 0 /\ accumulated_time' = 0 /\ loop_counter' = 1
          /\ moved' = 0 /\ misread' = FALSE
      BY <1>8, SampleCases
    <2>3. sign \in {1, -1}
      OBVIOUS
    <2> HIDE DEF error, sign
    <2>4. /\ raw_rpm_history' \in Int \X Int /\ last_filtered_rpm' \in Rpms
          /\ estimated_rpm_history' \in [0..(FilterLen - 1) -> Int]
          /\ \A i \in 0..(FilterLen - 1) : estimated_rpm_history'[i] \in Rpms
          /\ indexer' \in 0..(FilterLen - 1) /\ estimator_counter' \in 0..MinEstimates
          /\ rpm_msgq_out' \in Seq([raw : Int, filtered : Rpms])
          /\ Len(rpm_msgq_out') <= RpmDepth
      BY <1>1, <2>1, <2>3, EstimateStep
    <2>5. rpm_msgq_out' \in Seq([raw : Int, filtered : Int]) /\ last_filtered_rpm' \in Int
      BY <1>6, <2>4, RpmsAreNumbers
    <2>6. accumulated_time' \in {0} \cup Elapsed /\ misread' \in BOOLEAN
      BY <2>2, Zenon
    <2>7. moved' \in Int /\ loop_counter' \in 0..1
      BY <2>2, SMT
    <2>8. EncoderTypeOK'
      BY <1>2, <1>3, <1>4, <1>5, <1>7, <2>2, <2>4, <2>5, <2>6, <2>7 DEF EncoderTypeOK
    <2> QED
      BY <2>2, <2>4, <2>8 DEF FilterInv
  <1>9. CASE loop_counter = 1
    <2>1. /\ accumulated_error' = error /\ accumulated_time' \in Elapsed
          /\ moved' = moved + delta /\ misread' = FlagMisleads /\ loop_counter' = 0
          /\ raw_rpm_history' = raw_rpm_history
          /\ last_filtered_rpm' = last_filtered_rpm
          /\ estimated_rpm_history' = estimated_rpm_history
          /\ indexer' = indexer /\ estimator_counter' = estimator_counter
          /\ rpm_msgq_out' = rpm_msgq_out
      BY <1>9, SampleCases
    <2>2. moved' \in Int /\ misread' \in BOOLEAN /\ loop_counter' \in 0..1
      BY <2>1, SampleCounter, SMT DEF EncoderTypeOK, FlagMisleads
    <2>3. EncoderTypeOK'
      BY <1>1, <1>2, <1>3, <1>4, <1>5, <2>1, <2>2 DEF EncoderTypeOK
    <2> QED
      BY <2>1, <2>3 DEF FilterInv
  <1>10. loop_counter = 0 \/ loop_counter = 1
    BY DEF EncoderTypeOK
  <1> QED
    BY <1>8, <1>9, <1>10

LEMMA EncoderTypeStep ==
  ASSUME EncoderConstants, EncoderTypeOK, FilterInv, [EncoderNext]_encoderVars
  PROVE  EncoderTypeOK' /\ FilterInv'
  <1>1. CASE FirstSample
    BY <1>1 DEF FirstSample, GetEncoderCount, EncoderTypeOK,
       FilterInv, wheel, filter, truth
  <1>2. CASE ChangeSpeed
    <2>1. changes' \in 0..MaxChanges
      BY <1>2 DEF ChangeSpeed, EncoderTypeOK, EncoderConstants
    <2>2. delta' \in Deltas
      BY <1>2 DEF ChangeSpeed
    <2> QED
      BY <1>2, <2>1, <2>2 DEF ChangeSpeed, EncoderTypeOK, FilterInv,
         counting, filter, truth
  <1>3. CASE RpmTaken
    <2>1. /\ rpm_msgq_out' = MsgqRest(rpm_msgq_out) /\ ~MsgqEmpty(rpm_msgq_out)
          /\ RpmDepth \in Nat \ {0} /\ Len(rpm_msgq_out) <= RpmDepth
      BY <1>3 DEF RpmTaken, EncoderConstants, EncoderTypeOK
    <2>2. /\ rpm_msgq_out' \in Seq([raw : Int, filtered : Int])
          /\ Len(rpm_msgq_out') <= RpmDepth
      BY <2>1, GotFits DEF EncoderTypeOK
    <2>3. rpm_msgq_out' \in Seq([raw : Int, filtered : Rpms])
      BY <2>1, GotFits DEF FilterInv
    <2> QED
      BY <1>3, <2>2, <2>3 DEF RpmTaken, EncoderTypeOK, FilterInv,
         wheel, counting, filter, truth
  <1>4. CASE UNCHANGED encoderVars
    BY <1>4 DEF encoderVars, EncoderTypeOK, FilterInv, wheel,
       counting, filter, truth
  <1> QED
    BY <1>1, <1>2, <1>3, <1>4, EncoderSampleType DEF EncoderNext, Loop

\* Pulses and direction of one sample.
LEMMA SampleExact ==
  ASSUME EncoderConstants, EncoderTypeOK, CountInv, Sample, ~FlagMisleads
  PROVE  /\ CountsUp(counter') <=> delta >= 0
         /\ ReadingError(counter') = IF delta < 0 THEN -delta ELSE delta
  <1>1. encoder_prev_reading = counter /\ overflow_detected = flagged
    BY DEF CountInv, Sample
  <1>2. /\ counter' = (counter + delta) % 65536
        /\ counter \in Int /\ 0 <= counter /\ counter < 65536
        /\ delta \in Int /\ -MaxPulse <= delta /\ delta <= MaxPulse
        /\ MaxPulse \in Nat /\ 2 * MaxPulse < 65536
    BY SampleCounter, SMT DEF EncoderConstants
  <1>3. /\ delta >= 0 => /\ (counter' - counter) % 65536 = delta
                         /\ IF counter' >= counter
                              THEN ~(counter' - counter > MaxPulse)
                              ELSE counter - counter' > MaxPulse
        /\ delta < 0 => /\ (counter - counter') % 65536 = -delta
                        /\ IF counter' >= counter
                             THEN counter' - counter > MaxPulse
                             ELSE ~(counter - counter' > MaxPulse)
        /\ counter' \in Int
    BY <1>2, ReadingExact
  <1>4. delta < 0 /\ ~(counter' >= counter) => ~overflow_detected
    BY <1>1, <1>2, <1>3 DEF FlagMisleads
  <1>5. CountsUp(counter') <=> delta >= 0
    BY <1>1, <1>2, <1>3, <1>4 DEF CountsUp, Jump
  <1>6. ReadingError(counter') = IF delta < 0 THEN -delta ELSE delta
    BY <1>1, <1>2, <1>3, <1>5, EncoderNumbers DEF ReadingError
  <1> QED
    BY <1>5, <1>6

LEMMA EncoderCountStep ==
  ASSUME EncoderConstants, EncoderTypeOK, FilterInv, CountInv,
         [EncoderNext]_encoderVars
  PROVE  CountInv'
  <1>1. CASE FirstSample
    BY <1>1 DEF FirstSample, GetEncoderCount, wheel, truth, CountInv
  <1>2. CASE ChangeSpeed
    BY <1>2 DEF ChangeSpeed, counting, truth, CountInv
  <1>3. CASE Sample
    <2>1. /\ overflow_detected' = (overflow_detected /\ counter' >= encoder_prev_reading)
          /\ flagged' = (flagged /\ counter' >= counter)
          /\ encoder_prev_reading' = counter' /\ encoder_prev_reading = counter
          /\ first_time' = first_time
      BY <1>3 DEF Sample, Count, GetEncoderCount, CountInv
    <2>2. overflow_detected' = flagged'
      BY <2>1 DEF CountInv
    <2>3. MaxPulse \in Nat /\ 2 * MaxPulse < 65536
          /\ delta \in Int /\ -MaxPulse <= delta /\ delta <= MaxPulse
      BY <1>3, SampleCounter, SMT DEF EncoderConstants
    <2>4. CASE loop_counter = 0
      <3>1. accumulated_error' = 0 /\ moved' = 0 /\ misread' = FALSE
        BY <1>3, <2>4, SampleCases
      <3> QED
        BY <2>1, <2>2, <2>3, <3>1, SMT DEF CountInv
    <2>5. CASE loop_counter = 1
      <3>1. /\ accumulated_error' = Counted(counter') /\ moved' = moved + delta
            /\ misread' = FlagMisleads /\ loop_counter' = 0
            /\ moved = 0 /\ accumulated_error = 0
        <4>1. moved = 0 /\ accumulated_error = 0
          BY <2>5, SMT DEF CountInv
        <4> QED
          BY <1>3, <2>5, <4>1, SampleCases
      <3>2. ~misread' => Counted(counter') = IF delta < 0 THEN -delta ELSE delta
        <4>1. ~misread' => ReadingError(counter') = IF delta < 0 THEN -delta ELSE delta
          BY <1>3, <3>1, SampleExact
        <4> QED
          BY <2>3, <3>1, <4>1, EncoderNumbers, SMT DEF Counted
      <3> QED
        BY <2>1, <2>2, <2>3, <3>1, <3>2, SMT DEF CountInv
    <2>6. loop_counter = 0 \/ loop_counter = 1
      BY DEF EncoderTypeOK
    <2> QED
      BY <2>4, <2>5, <2>6
  <1>4. CASE RpmTaken
    BY <1>4 DEF RpmTaken, counting, wheel, truth, CountInv
  <1>5. CASE UNCHANGED encoderVars
    BY <1>5 DEF encoderVars, counting, wheel, truth, CountInv
  <1> QED
    BY <1>1, <1>2, <1>3, <1>4, <1>5 DEF EncoderNext, Loop

\* What the estimate is made from, of one sample.
LEMMA CountedExact ==
  ASSUME EncoderConstants, EncoderTypeOK, CountInv, Sample,
         ~Reverses, ~misread, ~FlagMisleads
  PROVE  /\ Counted(counter') = IF moved + delta < 0 THEN -(moved + delta)
                                                             ELSE moved + delta
         /\ is_counting_up' <=> moved + delta >= 0
  <1>1. /\ CountsUp(counter') <=> delta >= 0
        /\ ReadingError(counter') = IF delta < 0 THEN -delta ELSE delta
    BY SampleExact
  <1>2. is_counting_up' = CountsUp(counter')
    BY DEF Sample, Count, GetEncoderCount
  <1>3. /\ MaxPulse \in Nat /\ 2 * MaxPulse < 65536
        /\ delta \in Int /\ -MaxPulse <= delta /\ delta <= MaxPulse
        /\ moved \in Int /\ -MaxPulse <= moved /\ moved <= MaxPulse
        /\ accumulated_error = IF moved < 0 THEN -moved ELSE moved
    BY SampleCounter, SMT DEF EncoderConstants, CountInv
  <1>4. moved = 0 \/ (delta < 0 <=> moved < 0)
    BY DEF Reverses
  <1>5. Counted(counter')
          = (accumulated_error + ReadingError(counter')) % 65536
    BY EncoderNumbers DEF Counted
  <1>6. Counted(counter') = IF moved + delta < 0 THEN -(moved + delta)
                                                        ELSE moved + delta
    BY <1>1, <1>3, <1>4, <1>5, SMT
  <1>7. delta >= 0 <=> moved + delta >= 0
    BY <1>3, <1>4, SMT
  <1> QED
    BY <1>1, <1>2, <1>6, <1>7
-----------------------------------------------------------------------------
\* A wheel that has only turned forwards.

\* A sample of it is counted up, and the product of line 159 stays below 2^31.
LEMMA ForwardSample ==
  ASSUME EncoderConstants, EncoderTypeOK, CountInv, ForwardInv, Sample, ~backwards'
  PROVE  /\ delta >= 0 /\ delta \in Int /\ ~backwards /\ is_counting_up'
         /\ ~FlagMisleads /\ Counted(counter') < 35792
  <1>1. ~backwards /\ ~(delta < 0)
    BY DEF Sample
  <1>2. /\ MaxPulse \in Nat /\ 2 * MaxPulse < 35792
        /\ delta \in Int /\ 0 <= delta /\ delta <= MaxPulse
        /\ moved \in Int /\ 0 <= moved /\ moved <= MaxPulse /\ ~misread
    BY <1>1, SampleCounter, SMT DEF EncoderConstants, CountInv, ForwardInv
  <1>3. ~FlagMisleads /\ ~Reverses
    BY <1>2 DEF FlagMisleads, Reverses
  <1>4. /\ Counted(counter') = IF moved + delta < 0 THEN -(moved + delta)
                                                     ELSE moved + delta
        /\ is_counting_up' <=> moved + delta >= 0
    BY <1>2, <1>3, CountedExact
  <1> QED
    BY <1>1, <1>2, <1>3, <1>4, SMT

\* An estimate made upwards brings no negative speed into filter or queue.
LEMMA ForwardEstimate ==
  ASSUME EncoderConstants, EncoderTypeOK, FilterInv, ForwardInv, ~backwards,
         NEW error \in Nat, error < 35792, NEW time \in Nat, time > 0,
         Estimate(1, error, time)
  PROVE  /\ raw_rpm_history'[1] >= 0 /\ raw_rpm_history'[2] >= 0
         /\ last_filtered_rpm' >= 0
         /\ \A i \in 0..(FilterLen - 1) : estimated_rpm_history'[i] >= 0
         /\ rpm_msgq_out' \in Seq([raw : Nat, filtered : Nat])
  <1> DEFINE raw == RawRpm(1, error, time)
             low == LowPass(last_filtered_rpm, raw_rpm_history)
             filtered == HoldOutlier(low)
             estimates == [estimated_rpm_history EXCEPT ![indexer] = filtered]
             published == IF estimator_counter >= FilterLen
                            THEN Average(estimates) ELSE filtered
             message == [raw |-> raw, filtered |-> published]
  <1>1. /\ last_filtered_rpm \in Nat
        /\ raw_rpm_history[1] \in Nat /\ raw_rpm_history[2] \in Nat
        /\ FilterLen \in 1..10 /\ MaxRpm \in Nat
        /\ estimated_rpm_history \in [0..(FilterLen - 1) -> Int]
        /\ \A i \in 0..(FilterLen - 1) : estimated_rpm_history[i] \in 0..MaxRpm
    BY DEF EncoderTypeOK, EncoderConstants, ForwardInv, FilterInv, Rpms
  <1>2. raw \in Nat
    <2>1. PulsesTimesMinute(error) \in Nat /\ 1 * PulsesTimesMinute(error) \in Nat
      BY SMT DEF PulsesTimesMinute
    <2>2. TruncDiv(1 * PulsesTimesMinute(error), time) \in Nat
      BY <2>1, TruncDivSign
    <2>3. PulsePerRound \in Nat /\ PulsePerRound > 0
      BY DEF EncoderConstants
    <2> QED
      BY <2>2, <2>3, TruncDivSign DEF RawRpm
  <1>3. filtered \in 0..MaxRpm
    <2> DEFINE sum == 72849 * last_filtered_rpm
                        + (27151 * (raw_rpm_history[1] + raw_rpm_history[2])) \div 2
    <2>1. sum \in Nat
      BY <1>1, SMT
    <2>2. low \in Nat
      <3>1. low = TruncDiv(sum, 100000)
        BY DEF LowPass
      <3> HIDE DEF sum, low
      <3>2. sum \div 100000 \in Nat /\ sum >= 0
        BY <2>1, SMT
      <3> QED
        BY <3>1, <3>2 DEF TruncDiv
    <2>3. last_filtered_rpm \in 0..MaxRpm
      BY <1>1 DEF FilterInv, Rpms
    <2> HIDE DEF low
    <2> QED
      BY <1>1, <2>2, <2>3 DEF HoldOutlier
  <1> HIDE DEF raw, filtered
  <1>4. \A i \in 0..(FilterLen - 1) : estimates[i] \in 0..MaxRpm
    BY <1>1, <1>3
  <1> HIDE DEF estimates
  <1>5. published \in 0..MaxRpm
    <2>1. Average(estimates) \in 0..MaxRpm
      BY <1>1, <1>4, AverageBounded
    <2> QED
      BY <1>3, <2>1
  <1> HIDE DEF published
  <1>6. message \in [raw : Nat, filtered : Nat]
    BY <1>2, <1>5
  <1> HIDE DEF message
  <1>7. Overwrite(rpm_msgq_out, message, RpmDepth) \in Seq([raw : Nat, filtered : Nat])
    <2> DEFINE S == [raw : Nat, filtered : Nat]
    <2>1. /\ rpm_msgq_out \in Seq(S) /\ message \in S
          /\ Len(rpm_msgq_out) <= RpmDepth /\ RpmDepth \in Nat \ {0}
      BY <1>6 DEF ForwardInv, EncoderConstants, EncoderTypeOK
    <2> HIDE DEF S
    <2>2. Overwrite(rpm_msgq_out, message, RpmDepth) \in Seq(S)
      BY <2>1, OverwriteFits
    <2> QED
      BY <2>2 DEF S
  <1>8. /\ raw_rpm_history' = << raw_rpm_history[2], raw >>
        /\ last_filtered_rpm' = filtered /\ estimated_rpm_history' = estimates
        /\ rpm_msgq_out' \in {rpm_msgq_out, Overwrite(rpm_msgq_out, message, RpmDepth)}
    BY DEF Estimate, raw, filtered, estimates, published, message
  <1> QED
    BY <1>1, <1>2, <1>3, <1>4, <1>7, <1>8 DEF ForwardInv

LEMMA ForwardStep ==
  ASSUME EncoderConstants, EncoderTypeOK, FilterInv, CountInv, ForwardInv,
         [EncoderNext]_encoderVars
  PROVE  ForwardInv'
  <1>1. CASE FirstSample
    BY <1>1 DEF FirstSample, filter, truth, ForwardInv
  <1>2. CASE ChangeSpeed
    BY <1>2 DEF ChangeSpeed, filter, truth, ForwardInv
  <1>3. ASSUME Sample, ~backwards'
        PROVE  ForwardInv'
    <2>1. /\ delta >= 0 /\ delta \in Int /\ ~backwards /\ is_counting_up'
          /\ ~FlagMisleads /\ Counted(counter') < 35792 /\ Counted(counter') \in Nat
      BY <1>3, ForwardSample, CountedType
    <2>2. CASE loop_counter = 0
      <3>1. PICK time \in Nat :
              time > 0 /\ Estimate(IF is_counting_up' THEN 1 ELSE -1, Counted(counter'), time)
        BY <1>3, <2>2, SampleCases
      <3>2. Estimate(1, Counted(counter'), time)
        BY <2>1, <3>1
      <3>3. moved' = 0 /\ misread' = FALSE
        BY <1>3, <2>2, SampleCases
      <3> QED
        BY <2>1, <3>1, <3>2, <3>3, ForwardEstimate DEF ForwardInv
    <2>3. CASE loop_counter = 1
      <3>1. /\ moved' = moved + delta /\ misread' = FlagMisleads
            /\ raw_rpm_history' = raw_rpm_history
            /\ last_filtered_rpm' = last_filtered_rpm
            /\ estimated_rpm_history' = estimated_rpm_history
            /\ rpm_msgq_out' = rpm_msgq_out
        BY <1>3, <2>3, SampleCases
      <3>2. moved' >= 0
        BY <2>1, <3>1 DEF ForwardInv, EncoderTypeOK
      <3> QED
        BY <2>1, <3>1, <3>2 DEF ForwardInv
    <2>4. loop_counter = 0 \/ loop_counter = 1
      BY DEF EncoderTypeOK
    <2> QED
      BY <2>2, <2>3, <2>4
  <1>4. CASE RpmTaken
    <2>1. /\ rpm_msgq_out' = MsgqRest(rpm_msgq_out) /\ ~MsgqEmpty(rpm_msgq_out)
          /\ RpmDepth \in Nat \ {0} /\ Len(rpm_msgq_out) <= RpmDepth
      BY <1>4 DEF RpmTaken, EncoderConstants, EncoderTypeOK
    <2>2. ~backwards => rpm_msgq_out \in Seq([raw : Nat, filtered : Nat])
      BY DEF ForwardInv
    <2>3. ~backwards => rpm_msgq_out' \in Seq([raw : Nat, filtered : Nat])
      BY <2>1, <2>2, GotFits
    <2> QED
      BY <1>4, <2>3 DEF RpmTaken, filter, truth, ForwardInv
  <1>5. CASE UNCHANGED encoderVars
    BY <1>5 DEF encoderVars, filter, truth, ForwardInv
  <1>6. backwards' => ForwardInv'
    BY DEF ForwardInv
  <1> QED
    BY <1>1, <1>2, <1>3, <1>4, <1>5, <1>6 DEF EncoderNext, Loop
-----------------------------------------------------------------------------
\* The theorems about the encoder thread.

EncoderInv == EncoderTypeOK /\ FilterInv /\ CountInv /\ ForwardInv

LEMMA EncoderStep == EncoderInv /\ [EncoderNext]_encoderVars => EncoderInv'
  BY EncoderConstantsFact, EncoderTypeStep, EncoderCountStep, ForwardStep
     DEF EncoderInv

LEMMA EncoderInductive == EncoderSpec => []EncoderInv
  <1>1. EncoderInit => EncoderInv
    BY EncoderStarts DEF EncoderInv
  <1> QED
    BY <1>1, EncoderStep, PTL DEF EncoderSpec

\* The types of the encoder thread: no reading, sum of pulses or index leaves its
\* width or its array (encoder_service.c:17-60).
THEOREM EncoderTypeCorrect == EncoderSpec => []EncoderTypeOK
  <1>1. EncoderInv => EncoderTypeOK
    BY DEF EncoderInv
  <1> QED
    BY <1>1, EncoderInductive, PTL

\* A wheel that has never turned backwards is never said to, by raw or filtered
\* speed, and filtered speeds keep to the limit: for all times between samples that
\* the loop allows, all limits with 2 MaxPulse below 35792, and both wheels' flags
\* (encoder_service.c:103-188).  Raw speeds beyond the limit are published.
THEOREM EncoderSpeedPlausible == EncoderSpec => []SpeedPlausible
  <1>1. ASSUME EncoderInv
        PROVE  SpeedPlausible
    <2>1. \A S : \A q \in Seq(S) : \A i \in DOMAIN q : q[i] \in S
      OBVIOUS
    <2> DEFINE R == [raw : Int, filtered : Rpms]
               F == [raw : Nat, filtered : Nat]
    <2>2. rpm_msgq_out \in Seq(R) /\ (~backwards => rpm_msgq_out \in Seq(F))
      BY <1>1 DEF EncoderInv, FilterInv, ForwardInv
    <2>3. /\ \A m \in R : m.filtered \in -MaxRpm..MaxRpm
          /\ \A m \in F : m.raw >= 0 /\ m.filtered >= 0
      BY DEF Rpms
    <2> HIDE DEF R, F
    <2>4. \A i \in DOMAIN rpm_msgq_out :
            rpm_msgq_out[i] \in R /\ (~backwards => rpm_msgq_out[i] \in F)
      BY <2>1, <2>2
    <2> QED
      BY <2>3, <2>4 DEF SpeedPlausible
  <1> QED
    BY <1>1, EncoderInductive, PTL

\* For both wheels: pulses and direction of an estimate are exactly the wheel's own,
\* for every limit MaxPulse the assumption allows and wherever the counter wraps,
\* unless the wheel reversed since the last estimate, or stopped after turning
\* backwards, or the flag of the start met its first step down
\* (encoder_service.c:110-148).
THEOREM EncoderCountExact == EncoderSpec => CountExact
  <1> DEFINE Exact == Sample /\ ~Reverses /\ ~misread /\ ~FlagMisleads =>
                        LET pulses == moved + delta
                        IN /\ Counted(counter')
                                = IF pulses < 0 THEN -pulses ELSE pulses
                           /\ is_counting_up' <=> pulses >= 0
  <1>1. EncoderInv /\ [EncoderNext]_encoderVars => [Exact]_encoderVars
    BY EncoderConstantsFact, CountedExact DEF EncoderInv
  <1>2. EncoderSpec => [][Exact]_encoderVars
    <2> HIDE DEF Exact
    <2> QED
      BY <1>1, EncoderInductive, PTL DEF EncoderSpec
  <1> QED
    BY <1>2 DEF CountExact
=============================================================================
