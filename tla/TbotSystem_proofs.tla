-------------------------- MODULE TbotSystem_proofs --------------------------
(***************************************************************************)
(* The command path of the tbot, for any motions, limits and capacities:   *)
(* what is proved of motion control alone holds in the system, and a stop  *)
(* or a supervisor takes effect.                                           *)
(***************************************************************************)
EXTENDS TbotSystem, Msgq_proofs

-----------------------------------------------------------------------------
\* The ramp of motion control, for every int16_t speed and every limit of the
\* ramp.

\* An int16_t holds an int16_t value unchanged, and something of its type always.
LEMMA Int16Cast ==
  ASSUME NEW x \in -2 * Int16Max - 2 .. 2 * Int16Max + 1
  PROVE  ToInt16(x) \in Int16 /\ (x \in Int16 => ToInt16(x) = x)
  BY Int16Assumption DEF ToInt16, Int16

\* One step of ApplyMotionLimit towards a value whose distance fits an int16_t:
\* between the two, and no further than the limit of that direction
\* (motion_control_service.c:49-76).
LEMMA RampStep ==
  ASSUME NEW prev \in Int16, NEW value \in Int16,
         Distance(value, prev) <= Int16Max
  PROVE  LET next == ApplyMotionLimit(prev, value)
         IN /\ next \in Int16
            /\ \/ prev <= next /\ next <= value
               \/ value <= next /\ next <= prev
            /\ prev > 0 => next - prev <= accel /\ prev - next <= decel
            /\ prev < 0 => prev - next <= accel /\ next - prev <= decel
            /\ next = prev => value = prev
  <1> DEFINE diff == value - prev
  <1>1. diff \in Int16 /\ ToInt16(diff) = diff
    BY Int16Cast, Int16Assumption DEF Distance, Int16
  <1>2. accel \in 1..Int16Max /\ decel \in 1..Int16Max
    BY LimitAssumption, Int16Assumption
  <1>3. CASE prev > 0 /\ diff > accel
    <2>1. prev + accel \in Int16
      BY <1>2, <1>3, Int16Assumption DEF Int16
    <2>2. ApplyMotionLimit(prev, value) = prev + accel
      BY <1>1, <1>2, <1>3, <2>1, Int16Cast, Int16Assumption DEF ApplyMotionLimit, Int16
    <2> QED BY <1>2, <1>3, <2>1, <2>2, Int16Assumption DEF Int16
  <1>4. CASE prev < 0 /\ diff < -accel
    <2>1. prev - accel \in Int16
      BY <1>2, <1>4, Int16Assumption DEF Int16
    <2>2. ApplyMotionLimit(prev, value) = prev - accel
      BY <1>1, <1>2, <1>4, <2>1, Int16Cast, Int16Assumption DEF ApplyMotionLimit, Int16
    <2> QED BY <1>2, <1>4, <2>1, <2>2, Int16Assumption DEF Int16
  <1>5. CASE prev < 0 /\ diff > decel
    <2>1. prev + decel \in Int16
      BY <1>2, <1>5, Int16Assumption DEF Int16
    <2>2. ApplyMotionLimit(prev, value) = prev + decel
      BY <1>1, <1>2, <1>5, <2>1, Int16Cast, Int16Assumption DEF ApplyMotionLimit, Int16
    <2> QED BY <1>2, <1>5, <2>1, <2>2, Int16Assumption DEF Int16
  <1>6. CASE prev > 0 /\ diff < -decel
    <2>1. prev - decel \in Int16
      BY <1>2, <1>6, Int16Assumption DEF Int16
    <2>2. ApplyMotionLimit(prev, value) = prev - decel
      BY <1>1, <1>2, <1>6, <2>1, Int16Cast, Int16Assumption DEF ApplyMotionLimit, Int16
    <2> QED BY <1>2, <1>6, <2>1, <2>2, Int16Assumption DEF Int16
  <1>7. CASE /\ ~(prev > 0 /\ diff > accel) /\ ~(prev < 0 /\ diff < -accel)
             /\ ~(prev < 0 /\ diff > decel) /\ ~(prev > 0 /\ diff < -decel)
    <2>1. ApplyMotionLimit(prev, value) = value
      BY <1>1, <1>7 DEF ApplyMotionLimit
    <2> QED BY <1>2, <1>7, <2>1, Int16Assumption DEF Int16
  <1> QED BY <1>3, <1>4, <1>5, <1>6, <1>7

\* Whatever the distance, the result is an int16_t.
LEMMA RampType ==
  ASSUME NEW prev \in Int16, NEW value \in Int16
  PROVE  ApplyMotionLimit(prev, value) \in Int16
  <1>1. /\ prev + accel \in -2 * Int16Max - 2 .. 2 * Int16Max + 1 /\ prev - accel \in -2 * Int16Max - 2 .. 2 * Int16Max + 1
        /\ prev + decel \in -2 * Int16Max - 2 .. 2 * Int16Max + 1 /\ prev - decel \in -2 * Int16Max - 2 .. 2 * Int16Max + 1
    BY LimitAssumption, Int16Assumption DEF Int16
  <1> QED
    BY <1>1, Int16Cast, Int16Assumption DEF ApplyMotionLimit

-----------------------------------------------------------------------------

LEMMA InitType == Init => TypeOK
  <1>1. \A S : << >> \in Seq(S) /\ Len(<< >>) = 0
    OBVIOUS
  <1> QED
    BY <1>1, DepthAssumption, Int16Assumption DEF Init, TypeOK, Standstill, Wheels, Int16

\* Serving a motion: the step of each wheel.
LEMMA ServeEffect ==
  ASSUME TypeOK, ServeMotion
  PROVE  /\ command' \in Motions
         /\ TargetRpm(command') \in [Wheels -> Int16]
         /\ prev_target_rpm' = [i \in Wheels |->
              ApplyMotionLimit(prev_target_rpm[i], TargetRpm(command')[i])]
         /\ prev_target_rpm' \in [Wheels -> Int16]
         /\ desired_motion_msgq' \in Seq(Motions)
         /\ Len(desired_motion_msgq') <= Depth
  <1>1. /\ desired_motion_msgq \in Seq(Motions) /\ ~MsgqEmpty(desired_motion_msgq)
        /\ Len(desired_motion_msgq) <= Depth
    BY DEF TypeOK, ServeMotion
  <1>2. /\ command' \in Motions
        /\ desired_motion_msgq' \in Seq(Motions)
        /\ Len(desired_motion_msgq') = Len(desired_motion_msgq) - 1
        /\ Len(desired_motion_msgq) \in Nat
    BY <1>1, GotRest DEF ServeMotion
  <1>3. TargetRpm(command') \in [Wheels -> Int16]
    BY <1>2, TargetAssumption
  <1>4. prev_target_rpm' = [i \in Wheels |->
          ApplyMotionLimit(prev_target_rpm[i], TargetRpm(command')[i])]
    BY DEF ServeMotion
  <1>5. prev_target_rpm' \in [Wheels -> Int16]
    BY <1>3, <1>4, RampType DEF TypeOK
  <1> QED
    BY <1>1, <1>2, <1>3, <1>4, <1>5, DepthAssumption

LEMMA StepType == TypeOK /\ [Next]_vars => TypeOK'
  <1> SUFFICES ASSUME TypeOK, [Next]_vars PROVE TypeOK'
    OBVIOUS
  <1>0. /\ desired_motion_msgq \in Seq(Motions) /\ Len(desired_motion_msgq) <= Depth
        /\ desired_rpm_msgq \in Seq([Wheels -> Int16])
        /\ Len(desired_rpm_msgq) <= Depth
    BY DEF TypeOK
  <1>1. CASE ServeMotion
    <2>1. /\ desired_rpm_msgq' \in Seq([Wheels -> Int16])
          /\ Len(desired_rpm_msgq') <= Depth
      BY <1>0, <1>1, ServeEffect, OverwriteFits, DepthAssumption DEF ServeMotion
    <2>2. command' \in [linear : Int, angular : Int]
      BY <1>1, ServeEffect, MotionsAssumption
    <2> QED
      BY <1>1, <2>1, <2>2, ServeEffect DEF TypeOK
  <1>2. ASSUME NEW m \in Motions, MotionArrives(m) PROVE TypeOK'
    <2>1. /\ desired_motion_msgq' \in Seq(Motions)
          /\ Len(desired_motion_msgq') <= Depth
      BY <1>0, <1>2, OverwriteFits, DepthAssumption DEF MotionArrives
    <2> QED
      BY <1>2, <2>1 DEF TypeOK, MotionArrives
  <1>3. CASE RpmTaken
    <2>1. /\ MsgqRest(desired_rpm_msgq) \in Seq([Wheels -> Int16])
          /\ Len(MsgqRest(desired_rpm_msgq)) = Len(desired_rpm_msgq) - 1
          /\ Len(desired_rpm_msgq) \in Nat
      BY <1>0, <1>3, GotRest DEF RpmTaken
    <2>2. Len(MsgqRest(desired_rpm_msgq)) <= Depth
      BY <1>0, <2>1, DepthAssumption
    <2> QED
      BY <1>3, <2>1, <2>2 DEF TypeOK, RpmTaken
  <1>4. ASSUME NEW t \in BusTargets, BusTargetArrives(t) PROVE TypeOK'
    <2>1. /\ desired_rpm_msgq' \in Seq([Wheels -> Int16])
          /\ Len(desired_rpm_msgq') <= Depth
      BY <1>0, <1>4, OverwriteFits, DepthAssumption, BusAssumption
         DEF BusTargetArrives
    <2> QED
      BY <1>4, <2>1 DEF TypeOK, BusTargetArrives
  <1>5. CASE UNCHANGED vars
    BY <1>5 DEF TypeOK, vars
  <1> QED
    BY <1>1, <1>2, <1>3, <1>4, <1>5 DEF Next, SomeMotionArrives, SomeBusTargetArrives

\* Wheel speeds stay int16_t values and the queues within their capacity.
THEOREM TypeCorrect == Spec => []TypeOK
  BY InitType, StepType, PTL DEF Spec

\* Only serving a motion changes the wheel speeds.
LEMMA OnlyServe ==
  ASSUME [Next]_vars, prev_target_rpm' # prev_target_rpm
  PROVE  ServeMotion
  BY DEF Next, vars, SomeMotionArrives, MotionArrives, SomeBusTargetArrives,
         BusTargetArrives, RpmTaken

\* The ramp never exceeds its limits on a turning wheel
\* (motion_control_service.c:54-68).
THEOREM RampIsLimited == Spec => RampLimited
  <1>1. TypeOK /\ [Next]_vars =>
          [\A i \in Wheels : InRange(i) =>
             LET next == prev_target_rpm'[i]
             IN /\ Prev(i) > 0 =>
                     next - Prev(i) <= accel /\ Prev(i) - next <= decel
                /\ Prev(i) < 0 =>
                     Prev(i) - next <= accel /\ next - Prev(i) <= decel]_vars
    <2> SUFFICES ASSUME TypeOK, [Next]_vars, NEW i \in Wheels, InRange(i)
                 PROVE  /\ Prev(i) > 0 =>
                             /\ prev_target_rpm'[i] - Prev(i) <= accel
                             /\ Prev(i) - prev_target_rpm'[i] <= decel
                        /\ Prev(i) < 0 =>
                             /\ Prev(i) - prev_target_rpm'[i] <= accel
                             /\ prev_target_rpm'[i] - Prev(i) <= decel
      OBVIOUS
    <2>0. prev_target_rpm[i] \in Int16 /\ accel \in 1..Int16Max /\ decel \in 1..Int16Max
      BY LimitAssumption DEF TypeOK
    <2>1. CASE prev_target_rpm' = prev_target_rpm
      BY <2>0, <2>1, Int16Assumption DEF Prev, Int16
    <2>2. CASE prev_target_rpm' # prev_target_rpm
      <3>1. ServeMotion
        BY <2>2, OnlyServe
      <3>2. /\ Goal(i) \in Int16
            /\ prev_target_rpm'[i] = ApplyMotionLimit(prev_target_rpm[i], Goal(i))
        BY <3>1, ServeEffect DEF Goal
      <3> QED
        BY <2>0, <3>2, RampStep DEF Prev, InRange
    <2> QED
      BY <2>1, <2>2
  <1> QED
    BY <1>1, TypeCorrect, PTL DEF Spec, RampLimited

\* The ramp never moves away from the commanded speed and never overshoots it
\* (motion_control_service.c:49-76).
THEOREM RampIsDirected == Spec => RampHeadsForCommand
  <1>1. TypeOK /\ [Next]_vars =>
          [prev_target_rpm' # prev_target_rpm =>
             \A i \in Wheels : InRange(i) =>
               LET next == prev_target_rpm'[i]
               IN \/ Prev(i) <= next /\ next <= Goal(i)
                  \/ Goal(i) <= next /\ next <= Prev(i)]_vars
    <2> SUFFICES ASSUME TypeOK, [Next]_vars, NEW i \in Wheels, InRange(i),
                        prev_target_rpm' # prev_target_rpm
                 PROVE  \/ /\ Prev(i) <= prev_target_rpm'[i]
                           /\ prev_target_rpm'[i] <= Goal(i)
                        \/ /\ Goal(i) <= prev_target_rpm'[i]
                           /\ prev_target_rpm'[i] <= Prev(i)
      OBVIOUS
    <2>1. ServeMotion
      BY OnlyServe
    <2>2. /\ prev_target_rpm[i] \in Int16 /\ Goal(i) \in Int16
          /\ prev_target_rpm'[i] = ApplyMotionLimit(prev_target_rpm[i], Goal(i))
      BY <2>1, ServeEffect DEF Goal, TypeOK
    <2> QED
      BY <2>2, RampStep DEF Prev, InRange
  <1> QED
    BY <1>1, TypeCorrect, PTL DEF Spec, RampHeadsForCommand

-----------------------------------------------------------------------------

\* Types of what the system adds to motion control.
CoordinatorTypeOK ==
  /\ estop_triggered \in BOOLEAN /\ sup_mode \in SupModes
  /\ desired_motion \in Motions
  /\ late \in Nat

\* While driving is blocked nothing but standstills is added to the queue, so
\* the position of a motion in it bounds how many can still be served late.
LateInv ==
  /\ late <= Depth
  /\ ~Blocked => late = 0
  /\ Blocked => \A i \in 1..Len(desired_motion_msgq) :
       desired_motion_msgq[i] # Coord!ZeroMotion => late + i <= Depth

\* Each action of the coordinator is an action of motion control's environment.
LEMMA CoordinatorStepType ==
  ASSUME CoordinatorTypeOK, TypeOK, CoordinatorDecides \/ CoordinatorSends
  PROVE  /\ CoordinatorTypeOK'
         /\ SomeMotionArrives \/ UNCHANGED vars
  <1>0. StillLate \in Nat
    BY DEF StillLate, CoordinatorTypeOK
  <1>1. CASE CoordinatorDecides
    BY <1>0, <1>1 DEF CoordinatorDecides, Coord!Decide, CoordinatorTypeOK,
       motionControl, vars
  <1>2. CASE CoordinatorSends
    <2>1. desired_motion' \in Motions
      BY <1>2, WiringAssumption DEF CoordinatorSends, Coord!Send, CoordinatorTypeOK
    <2>2. MotionArrives(desired_motion')
      BY <1>2 DEF CoordinatorSends, Coord!Send, MotionArrives, motionControl,
         Coord!Overwrite, Overwrite, Coord!MsgqFull, MsgqFull,
         Coord!MsgqPut, MsgqPut
    <2> QED
      BY <1>0, <1>2, <2>1, <2>2
      DEF CoordinatorSends, Coord!Send, CoordinatorTypeOK, SomeMotionArrives
  <1> QED
    BY <1>1, <1>2

\* In this system motion control meets only what its own specification expects:
\* motions it can convert, and a second writer of its output queue
\* (motion_control_service.c:96-134, messenger_service.c:124-138).
LEMMA SystemStep ==
  ASSUME CoordinatorTypeOK, TypeOK, [SystemNext]_systemVars
  PROVE  CoordinatorTypeOK' /\ [Next]_vars
  <1>1. CASE CoordinatorDecides \/ CoordinatorSends
    BY <1>1, CoordinatorStepType DEF Next
  <1>2. CASE MotionControlTurn
    BY <1>2 DEF MotionControlTurn, coordinator, CoordinatorTypeOK, Next
  <1>3. CASE TakeTarget
    BY <1>3 DEF TakeTarget, coordinator, CoordinatorTypeOK, Next
  <1>4. CASE BusSpeedArrives
    BY <1>4 DEF BusSpeedArrives, coordinator, CoordinatorTypeOK, Next
  <1>5. CASE UNCHANGED systemVars
    BY <1>5 DEF systemVars, coordinator, CoordinatorTypeOK, vars
  <1> QED
    BY <1>1, <1>2, <1>3, <1>4, <1>5 DEF SystemNext

LEMMA SystemInitType == SystemInit => CoordinatorTypeOK /\ TypeOK /\ Init
  <1> SUFFICES ASSUME SystemInit PROVE CoordinatorTypeOK /\ TypeOK /\ Init
    OBVIOUS
  <1>1. Init /\ TypeOK
    BY InitType DEF SystemInit
  <1>2. /\ estop_triggered = FALSE /\ sup_mode = kNonSupervised
        /\ desired_motion = Coord!ZeroMotion /\ late = 0
    BY DEF SystemInit, Coord!Init
  <1> QED
    BY <1>1, <1>2, WiringAssumption DEF CoordinatorTypeOK

LEMMA SystemTypes == SystemSpec => [](CoordinatorTypeOK /\ TypeOK)
  <1>1. CoordinatorTypeOK /\ TypeOK /\ [SystemNext]_systemVars
          => CoordinatorTypeOK' /\ TypeOK'
    BY SystemStep, StepType
  <1> QED
    BY <1>1, SystemInitType, PTL DEF SystemSpec

\* The system is one of the environments motion control is specified for: every
\* step of it is a step of motion control's specification or none
\* (tbot_interface.c:170-223).
THEOREM SystemImplementsMotionControl == SystemSpec => Spec
  <1>1. CoordinatorTypeOK /\ TypeOK /\ [SystemNext]_systemVars => [Next]_vars
    BY SystemStep
  <1> QED
    BY <1>1, SystemInitType, SystemTypes, PTL DEF SystemSpec, Spec

\* The ramp keeps its limits in the firmware, with the messenger writing the same
\* queue (motion_control_service.c:54-68).
THEOREM SystemRampIsLimited == SystemSpec => RampLimited
  BY SystemImplementsMotionControl, RampIsLimited, PTL

\* ... and heads for what the coordinator commands
\* (motion_control_service.c:49-76).
THEOREM SystemRampIsDirected == SystemSpec => RampHeadsForCommand
  BY SystemImplementsMotionControl, RampIsDirected, PTL

-----------------------------------------------------------------------------

\* The coordinator's steps leave no more to be served late.
LEMMA CoordinatorStepLate ==
  ASSUME CoordinatorTypeOK, TypeOK, LateInv,
         CoordinatorDecides \/ CoordinatorSends
  PROVE  LateInv'
  <1> DEFINE q == desired_motion_msgq
  <1>0. q \in Seq(Motions) /\ Len(q) \in Nat /\ Len(q) <= Depth /\ late \in Nat
    BY DEF TypeOK, CoordinatorTypeOK
  <1>1. CASE CoordinatorDecides
    <2>1. q' = q /\ late' = StillLate
      BY <1>1 DEF CoordinatorDecides, Coord!Decide
    <2>2. CASE ~Blocked'
      BY <2>1, <2>2, DepthAssumption DEF LateInv, StillLate
    <2>3. CASE Blocked'
      <3>1. late' = late /\ late <= Depth
        BY <2>1, <2>3 DEF StillLate, LateInv
      <3>2. ASSUME NEW i \in 1..Len(q), q[i] # Coord!ZeroMotion
            PROVE  late + i <= Depth
        BY <1>0, <3>2, DepthAssumption DEF LateInv
      <3> QED
        BY <2>1, <2>3, <3>1, <3>2 DEF LateInv
    <2> QED
      BY <2>2, <2>3
  <1>2. CASE CoordinatorSends
    <2>1. /\ Blocked' = Blocked
          /\ late' = StillLate
          /\ Blocked => desired_motion' = Coord!ZeroMotion
          /\ q' = Overwrite(q, desired_motion', Depth)
      BY <1>2 DEF CoordinatorSends, Coord!Send, Blocked, Coord!Overwrite,
         Overwrite, Coord!MsgqFull, MsgqFull, Coord!MsgqPut, MsgqPut
    <2>2. late' = late
      BY <2>1 DEF StillLate, LateInv
    <2>3. ASSUME Blocked, NEW i \in 1..Len(q'), q'[i] # Coord!ZeroMotion
          PROVE  late + i <= Depth
      <3>1. q' = Overwrite(q, Coord!ZeroMotion, Depth)
        BY <2>1, <2>3
      <3>2. Coord!ZeroMotion \in Motions
        BY WiringAssumption
      <3>3. CASE MsgqFull(q, Depth)
        <4>1. q' = <<Coord!ZeroMotion>>
          BY <3>1, <3>3 DEF Overwrite
        <4> QED
          BY <2>3, <4>1
      <3>4. CASE ~MsgqFull(q, Depth)
        <4>1. q' = MsgqPut(q, Coord!ZeroMotion)
          BY <3>1, <3>4 DEF Overwrite
        <4>2. /\ Len(q') = Len(q) + 1 /\ q'[Len(q) + 1] = Coord!ZeroMotion
              /\ \A k \in 1..Len(q) : q'[k] = q[k]
          BY <1>0, <3>2, <3>4, <4>1, PutFits, DepthAssumption
        <4>3. i \in 1..Len(q) /\ q[i] # Coord!ZeroMotion
          BY <1>0, <2>3, <4>2
        <4> QED
          BY <2>3, <4>3 DEF LateInv
      <3> QED
        BY <3>3, <3>4
    <2> QED
      BY <2>1, <2>2, <2>3 DEF LateInv
  <1> QED
    BY <1>1, <1>2

\* Serving a motion moves every other one of the queue one place forward.
LEMMA MotionControlTurnLate ==
  ASSUME CoordinatorTypeOK, TypeOK, LateInv, MotionControlTurn
  PROVE  LateInv'
  <1> DEFINE q == desired_motion_msgq
  <1>0. q \in Seq(Motions) /\ Len(q) \in Nat /\ Len(q) <= Depth /\ late \in Nat
    BY DEF TypeOK, CoordinatorTypeOK
  <1>1. /\ ~MsgqEmpty(q) /\ q' = MsgqRest(q) /\ command' = MsgqGot(q)
        /\ Blocked' = Blocked
        /\ late' = IF Blocked /\ command' # Coord!ZeroMotion /\ late <= Depth
                     THEN late + 1 ELSE late
    BY DEF MotionControlTurn, ServeMotion, coordinator, Blocked
  <1>2. /\ Len(q) > 0 /\ Len(q') = Len(q) - 1 /\ command' = q[1]
        /\ \A k \in 1..Len(q') : q'[k] = q[k + 1]
    BY <1>0, <1>1, GotRest
  <1>3. CASE ~Blocked
    BY <1>1, <1>3 DEF LateInv
  <1>4. CASE Blocked
    <2>1. \A k \in 1..Len(q) : q[k] # Coord!ZeroMotion => late + k <= Depth
      BY <1>4 DEF LateInv
    <2>2. late' <= Depth /\ late' <= late + 1 /\ late' \in Nat
      BY <1>0, <1>1, <1>2, <2>1, DepthAssumption DEF LateInv
    <2>3. ASSUME NEW i \in 1..Len(q'), q'[i] # Coord!ZeroMotion
          PROVE  late' + i <= Depth
      <3>1. i + 1 \in 1..Len(q) /\ q[i + 1] # Coord!ZeroMotion /\ i \in Nat
        BY <1>0, <1>2, <2>3
      <3>2. late + (i + 1) <= Depth
        BY <2>1, <3>1
      <3>3. i \in Nat /\ late \in Nat /\ late' \in Nat /\ Depth \in Nat
        BY <1>0, <2>2, <3>1, DepthAssumption
      <3>4. late' <= late + 1
        BY <2>2
      <3>5. \A a, b, k, d \in Nat : b <= a + 1 /\ a + (k + 1) <= d => b + k <= d
        OBVIOUS
      <3> QED
        BY <3>2, <3>3, <3>4, <3>5
    <2>4. Blocked'
      BY <1>1, <1>4
    <2> QED
      BY <2>2, <2>3, <2>4 DEF LateInv
  <1> QED
    BY <1>3, <1>4

\* After a stop or a supervisor was seen, at most what the queue held is still
\* served (coordinator_service.c:107-170, motion_control_service.c:96).
THEOREM BlockWorks == SystemSpec => []BlockTakesEffect
  <1>1. SystemInit => LateInv
    <2> SUFFICES ASSUME SystemInit PROVE LateInv
      OBVIOUS
    <2>1. desired_motion_msgq = << >> /\ late = 0
      BY DEF SystemInit, Init
    <2> QED
      BY <2>1, DepthAssumption DEF LateInv
  <1>2. CoordinatorTypeOK /\ TypeOK /\ LateInv /\ [SystemNext]_systemVars => LateInv'
    <2> SUFFICES ASSUME CoordinatorTypeOK, TypeOK, LateInv, [SystemNext]_systemVars
                 PROVE  LateInv'
      OBVIOUS
    <2>1. CASE CoordinatorDecides \/ CoordinatorSends
      BY <2>1, CoordinatorStepLate
    <2>2. CASE MotionControlTurn
      BY <2>2, MotionControlTurnLate
    <2>3. CASE TakeTarget \/ BusSpeedArrives \/ UNCHANGED systemVars
      <3>1. UNCHANGED <<desired_motion_msgq, coordinator, late>>
        BY <2>3 DEF TakeTarget, RpmTaken, BusSpeedArrives, SomeBusTargetArrives,
           BusTargetArrives, systemVars, vars
      <3> QED
        BY <3>1 DEF LateInv, Blocked, coordinator
    <2> QED
      BY <2>1, <2>2, <2>3 DEF SystemNext
  <1>3. LateInv => BlockTakesEffect
    BY DEF LateInv, BlockTakesEffect
  <1> QED
    BY <1>1, <1>2, <1>3, SystemTypes, PTL DEF SystemSpec
=============================================================================
