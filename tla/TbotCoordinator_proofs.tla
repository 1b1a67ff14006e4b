----------------------- MODULE TbotCoordinator_proofs -----------------------
(***************************************************************************)
(* The coordinator's safety, for every set of frames, motions and          *)
(* supervisor modes, every time-out a uint8_t counter can hold, and every  *)
(* queue capacity.                                                         *)
(***************************************************************************)
EXTENDS TbotCoordinator, Msgq_proofs

-----------------------------------------------------------------------------
\* Shapes of the data.

LEMMA MotionTypes ==
  /\ ZeroMotion \in Motions
  /\ \A f \in RcFrames : /\ RcMotion(f) \in Motions
                         /\ SelectsRc(f) \in BOOLEAN
                         /\ SwitchedToStop(f) \in BOOLEAN
  /\ \A m \in CanMotions : m \in Motions
  <1>1. ZeroMotion \in Motions
    BY DEF ZeroMotion, Motions
  <1>2. ASSUME NEW f \in RcFrames
        PROVE  /\ RcMotion(f) \in Motions
               /\ SelectsRc(f) \in BOOLEAN /\ SwitchedToStop(f) \in BOOLEAN
    <2>1. f \in [ch0 : Int, ch2 : Int, ch6 : Int, ch7 : Int]
      BY FramesAssumption
    <2> QED
      BY <2>1 DEF RcMotion, Motions, SelectsRc, SwitchedToStop
  <1> QED
    BY <1>1, <1>2, CanAssumption

-----------------------------------------------------------------------------
\* The loop counters are the history counters, capped where they stop counting.

Capped(n, timeout) == IF n > timeout + 1 THEN timeout + 1 ELSE n

CountersInv ==
  /\ rc_counter = Capped(rcSilence, rc_timeout_count)
  /\ can_counter = Capped(canSilence, can_timeout_count)

\* Where the two motions of the loop come from.
MotionInv ==
  /\ desired_motion_from_can =
       IF canSilence <= can_timeout_count + 1 THEN lastCan ELSE ZeroMotion
  /\ control_mode = "RC" => desired_motion \in {RcMotion(lastRc), ZeroMotion}
  /\ control_mode = "CAN" /\ pc \in {"sup", "motion"}
       => desired_motion = desired_motion_from_can

IInv == TypeOK /\ EstopFollowsSwitch /\ RcVerdict /\ CountersInv /\ MotionInv

-----------------------------------------------------------------------------

LEMMA InitIInv == Init => IInv
  <1> SUFFICES ASSUME Init PROVE IInv
    OBVIOUS
  <1> USE DEF Init
  <1>1. TypeOK
    <2>1. \A S : << >> \in Seq(S)
      OBVIOUS
    <2>2. Len(<< >>) = 0 /\ 0 <= Depth
      BY DepthAssumption
    <2>3. /\ 0 \in 0..rc_timeout_count + 1 /\ 0 \in 0..can_timeout_count + 1
          /\ 0 \in 0..rc_timeout_count + 2 /\ 0 \in 0..can_timeout_count + 2
      BY TimeoutAssumption
    <2> QED
      BY <2>1, <2>2, <2>3, MotionTypes, SupAssumption, Zenon DEF TypeOK
  <1>2. EstopFollowsSwitch /\ RcVerdict
    BY DEF EstopFollowsSwitch, RcVerdict, RcAlive
  <1>3. CountersInv
    BY TimeoutAssumption DEF CountersInv, Capped
  <1>4. MotionInv
    BY TimeoutAssumption DEF MotionInv
  <1> QED
    BY <1>1, <1>2, <1>3, <1>4 DEF IInv

\* The counting of missed polls.
LEMMA LongerSteps ==
  ASSUME NEW t \in 0..254, NEW n \in 0..t + 2
  PROVE  /\ Longer(n, t) \in 0..t + 2
         /\ Capped(n, t) \in 0..t + 1
         /\ Capped(n, t) > t <=> n > t
         /\ Capped(Longer(n, t), t)
              = IF Capped(n, t) > t THEN Capped(n, t) ELSE Capped(n, t) + 1
         /\ Longer(n, t) <= t + 1 <=> n <= t
  BY DEF Longer, Capped

LEMMA StepIInv == IInv /\ [Next]_vars => IInv'
  <1> SUFFICES ASSUME IInv, [Next]_vars PROVE IInv'
    OBVIOUS
  <1> USE DepthAssumption, TimeoutAssumption
  <1>0. TypeOK /\ EstopFollowsSwitch /\ RcVerdict /\ CountersInv /\ MotionInv
    BY DEF IInv
  <1>1. CASE RcFrame
    <2> DEFINE f == MsgqGot(rc_data_msgq)
    <2>1. /\ f \in RcFrames /\ MsgqRest(rc_data_msgq) \in Seq(RcFrames)
          /\ Len(MsgqRest(rc_data_msgq)) <= Depth
      <3>1. rc_data_msgq \in Seq(RcFrames) /\ ~MsgqEmpty(rc_data_msgq)
            /\ Len(rc_data_msgq) <= Depth
        BY <1>0, <1>1 DEF TypeOK, RcFrame
      <3> QED BY <3>1, GotRest
    <2>2. RcMotion(f) \in Motions /\ SelectsRc(f) \in BOOLEAN
          /\ SwitchedToStop(f) \in BOOLEAN
      BY <2>1, MotionTypes
    <2>3. TypeOK'
      BY <1>0, <1>1, <2>1, <2>2
      DEF TypeOK, RcFrame, inQueues, outQueues, motions, canGhosts
    <2>4. lastRc' = f /\ f # NoRc /\ rcSilence' = 0 /\ RcAlive'
      BY <1>1, <2>1, NoRcAssumption DEF RcFrame, RcAlive
    <2>5. EstopFollowsSwitch' /\ RcVerdict'
      BY <1>1, <2>2, <2>4 DEF EstopFollowsSwitch, RcVerdict, RcFrame
    <2>6. CountersInv'
      BY <1>0, <1>1 DEF CountersInv, Capped, RcFrame, canGhosts
    <2>7. MotionInv'
      BY <1>0, <1>1, <2>4 DEF MotionInv, RcFrame, canGhosts
    <2> QED
      BY <2>3, <2>5, <2>6, <2>7 DEF IInv
  <1>2. CASE RcMiss
    <2>1. /\ rcSilence' = Longer(rcSilence, rc_timeout_count)
          /\ rcSilence \in 0..rc_timeout_count + 2
          /\ rc_counter = Capped(rcSilence, rc_timeout_count)
          /\ lastRc' = lastRc
      BY <1>0, <1>2 DEF RcMiss, TypeOK, CountersInv, Capped
    <2>2. /\ rcSilence' \in 0..rc_timeout_count + 2
          /\ rc_counter > rc_timeout_count <=> rcSilence > rc_timeout_count
          /\ rcSilence' <= rc_timeout_count + 1 <=> rcSilence <= rc_timeout_count
          /\ rc_counter' = Capped(rcSilence', rc_timeout_count)
      <3>1. /\ rcSilence' \in 0..rc_timeout_count + 2
            /\ rc_counter > rc_timeout_count <=> rcSilence > rc_timeout_count
            /\ rcSilence' <= rc_timeout_count + 1 <=> rcSilence <= rc_timeout_count
            /\ Capped(rcSilence', rc_timeout_count)
                 = IF rc_counter > rc_timeout_count THEN rc_counter ELSE rc_counter + 1
        BY <2>1, LongerSteps
      <3> QED
        BY <1>2, <3>1 DEF RcMiss
    <2>3. TypeOK'
      <3>1. rc_counter' \in 0..rc_timeout_count + 1
        BY <2>2 DEF Capped
      <3>2. /\ rc_connected' \in BOOLEAN /\ estop_triggered' \in BOOLEAN
            /\ control_mode' \in {"RC", "CAN"}
        BY <1>0, <1>2, Zenon DEF TypeOK, RcMiss
      <3> QED
        BY <1>0, <1>2, <2>2, <3>1, <3>2, Zenon
        DEF TypeOK, RcMiss, inQueues, outQueues, motions, canGhosts
    <2>4. RcAlive' <=> RcAlive /\ rcSilence <= rc_timeout_count
      BY <2>1, <2>2 DEF RcAlive
    <2>5. EstopFollowsSwitch' /\ RcVerdict'
      BY <1>0, <1>2, <2>1, <2>2, <2>4
      DEF EstopFollowsSwitch, RcVerdict, RcMiss, RcAlive
    <2>6. CountersInv'
      BY <1>0, <1>2, <2>2 DEF CountersInv, Capped, RcMiss, canGhosts
    <2>7. MotionInv'
      BY <1>0, <1>2 DEF MotionInv, RcMiss, motions, canGhosts
    <2> QED
      BY <2>3, <2>5, <2>6, <2>7 DEF IInv
  <1>3. CASE CanMotion
    <2> DEFINE m == MsgqGot(can_motion_msgq)
    <2>1. /\ m \in CanMotions /\ MsgqRest(can_motion_msgq) \in Seq(CanMotions)
          /\ Len(MsgqRest(can_motion_msgq)) <= Depth
      <3>1. can_motion_msgq \in Seq(CanMotions) /\ ~MsgqEmpty(can_motion_msgq)
            /\ Len(can_motion_msgq) <= Depth
        BY <1>0, <1>3 DEF TypeOK, CanMotion
      <3> QED BY <3>1, GotRest
    <2>2. m \in Motions
      BY <2>1, MotionTypes
    <2>3. TypeOK'
      BY <1>0, <1>3, <2>1, <2>2
      DEF TypeOK, CanMotion, outQueues, robotState, rcGhosts
    <2>4. EstopFollowsSwitch' /\ RcVerdict'
      BY <1>0, <1>3
      DEF EstopFollowsSwitch, RcVerdict, RcAlive, CanMotion, robotState, rcGhosts
    <2>5. CountersInv'
      BY <1>0, <1>3 DEF CountersInv, Capped, CanMotion, rcGhosts
    <2>6. MotionInv'
      BY <1>0, <1>3 DEF MotionInv, CanMotion, robotState, rcGhosts
    <2> QED
      BY <2>3, <2>4, <2>5, <2>6 DEF IInv
  <1>4. CASE CanMiss
    <2>1. /\ canSilence' = Longer(canSilence, can_timeout_count)
          /\ canSilence \in 0..can_timeout_count + 2
          /\ can_counter = Capped(canSilence, can_timeout_count)
          /\ lastCan' = lastCan
      BY <1>0, <1>4 DEF CanMiss, TypeOK, CountersInv, Capped
    <2>2. /\ canSilence' \in 0..can_timeout_count + 2
          /\ can_counter > can_timeout_count <=> canSilence > can_timeout_count
          /\ canSilence' <= can_timeout_count + 1
               <=> canSilence <= can_timeout_count
          /\ can_counter' = Capped(canSilence', can_timeout_count)
      <3>1. /\ canSilence' \in 0..can_timeout_count + 2
            /\ can_counter > can_timeout_count <=> canSilence > can_timeout_count
            /\ canSilence' <= can_timeout_count + 1 <=> canSilence <= can_timeout_count
            /\ Capped(canSilence', can_timeout_count)
                 = IF can_counter > can_timeout_count THEN can_counter ELSE can_counter + 1
        BY <2>1, LongerSteps
      <3> QED
        BY <1>4, <3>1 DEF CanMiss
    <2>3. desired_motion_from_can' \in Motions
      BY <1>0, <1>4, MotionTypes DEF TypeOK, CanMiss
    <2>4. TypeOK'
      <3>1. can_counter' \in 0..can_timeout_count + 1
        BY <2>2 DEF Capped
      <3> QED
        BY <1>0, <1>4, <2>2, <2>3, <3>1
        DEF TypeOK, CanMiss, inQueues, outQueues, robotState, rcGhosts
    <2>5. EstopFollowsSwitch' /\ RcVerdict'
      BY <1>0, <1>4
      DEF EstopFollowsSwitch, RcVerdict, RcAlive, CanMiss, robotState, rcGhosts
    <2>6. CountersInv'
      BY <1>0, <1>4, <2>2 DEF CountersInv, Capped, CanMiss, rcGhosts
    <2>7. MotionInv'
      BY <1>0, <1>4, <2>1, <2>2 DEF MotionInv, CanMiss, robotState, rcGhosts
    <2> QED
      BY <2>4, <2>5, <2>6, <2>7 DEF IInv
  <1>5. CASE CanNotPolled
    <2>1. TypeOK'
      BY <1>0, <1>5 DEF TypeOK, CanNotPolled, inQueues, outQueues, robotState,
                        motions, rcGhosts, canGhosts
    <2>2. EstopFollowsSwitch' /\ RcVerdict' /\ CountersInv' /\ MotionInv'
      BY <1>0, <1>5 DEF EstopFollowsSwitch, RcVerdict, RcAlive, CountersInv,
           Capped, MotionInv, CanNotPolled, robotState, motions, rcGhosts,
           canGhosts
    <2> QED BY <2>1, <2>2 DEF IInv
  <1>6. CASE CheckSupervisor
    <2>1. sup_mode' \in SupModes /\ supervisor_cmd_msgq' \in Seq(SupModes)
          /\ Len(supervisor_cmd_msgq') <= Depth
      <3>1. supervisor_cmd_msgq \in Seq(SupModes)
            /\ Len(supervisor_cmd_msgq) <= Depth /\ sup_mode \in SupModes
        BY <1>0 DEF TypeOK
      <3> QED BY <1>6, <3>1, GotRest DEF CheckSupervisor
    <2>2. TypeOK'
      BY <1>0, <1>6, <2>1 DEF TypeOK, CheckSupervisor, outQueues, motions,
                              rcGhosts, canGhosts
    <2>3. EstopFollowsSwitch' /\ RcVerdict' /\ CountersInv' /\ MotionInv'
      BY <1>0, <1>6 DEF EstopFollowsSwitch, RcVerdict, RcAlive, CountersInv,
           Capped, MotionInv, CheckSupervisor, motions, rcGhosts, canGhosts
    <2> QED BY <2>2, <2>3 DEF IInv
  <1>7. CASE SendMotion
    <2>1. desired_motion' \in Motions
      BY <1>0, <1>7, MotionTypes DEF TypeOK, SendMotion
    <2>2. motion_msgq' \in Seq(Motions) /\ Len(motion_msgq') <= Depth
      <3>1. motion_msgq \in Seq(Motions) /\ Len(motion_msgq) <= Depth
        BY <1>0 DEF TypeOK
      <3> QED BY <1>7, <2>1, <3>1, OverwriteFits DEF SendMotion
    <2>3. TypeOK'
      BY <1>0, <1>7, <2>1, <2>2 DEF TypeOK, SendMotion, inQueues, robotState,
                                    rcGhosts, canGhosts
    <2>4. EstopFollowsSwitch' /\ RcVerdict' /\ CountersInv' /\ MotionInv'
      BY <1>0, <1>7 DEF EstopFollowsSwitch, RcVerdict, RcAlive, CountersInv,
           Capped, MotionInv, SendMotion, robotState, rcGhosts, canGhosts
    <2> QED BY <2>3, <2>4 DEF IInv
  <1>8. CASE SendNoMotion
    <2>1. TypeOK'
      BY <1>0, <1>8 DEF TypeOK, SendNoMotion, inQueues, outQueues, robotState,
                        motions, rcGhosts, canGhosts
    <2>2. EstopFollowsSwitch' /\ RcVerdict' /\ CountersInv' /\ MotionInv'
      BY <1>0, <1>8 DEF EstopFollowsSwitch, RcVerdict, RcAlive, CountersInv,
           Capped, MotionInv, SendNoMotion, robotState, motions, rcGhosts,
           canGhosts
    <2> QED BY <2>1, <2>2 DEF IInv
  <1>9. CASE UpdateState
    <2> DEFINE States == [rc_connected : BOOLEAN, estop : BOOLEAN,
                          control_mode : {"RC", "CAN"}, sup_mode : SupModes]
    <2>1. robot_state_msgq' \in Seq(States) /\ Len(robot_state_msgq') <= Depth
      <3>1. robot_state_msgq \in Seq(States) /\ Len(robot_state_msgq) <= Depth
            /\ RobotState \in States
        BY <1>0 DEF TypeOK, RobotState
      <3> HIDE DEF States
      <3> QED BY <1>9, <3>1, OverwriteFits DEF UpdateState
    <2>2. TypeOK'
      BY <1>0, <1>9, <2>1 DEF TypeOK, UpdateState, inQueues, robotState,
                              motions, rcGhosts, canGhosts
    <2>3. EstopFollowsSwitch' /\ RcVerdict' /\ CountersInv' /\ MotionInv'
      BY <1>0, <1>9 DEF EstopFollowsSwitch, RcVerdict, RcAlive, CountersInv,
           Capped, MotionInv, UpdateState, robotState, motions, rcGhosts,
           canGhosts
    <2> QED BY <2>2, <2>3 DEF IInv
  <1>10. CASE Environment
    <2>1. UNCHANGED loopVars
      BY <1>10 DEF Environment, RcArrives, CanMotionArrives, SupervisorArrives,
                   MotionTaken, StateTaken
    <2>2. EstopFollowsSwitch' /\ RcVerdict' /\ CountersInv' /\ MotionInv'
      BY <1>0, <2>1 DEF EstopFollowsSwitch, RcVerdict, RcAlive, CountersInv,
           Capped, MotionInv, loopVars, robotState, motions, rcGhosts, canGhosts
    <2>3. TypeOK'
      <3> DEFINE States == [rc_connected : BOOLEAN, estop : BOOLEAN,
                            control_mode : {"RC", "CAN"}, sup_mode : SupModes]
      <3>1. /\ rc_data_msgq \in Seq(RcFrames) /\ Len(rc_data_msgq) <= Depth
            /\ can_motion_msgq \in Seq(CanMotions)
            /\ Len(can_motion_msgq) <= Depth
            /\ supervisor_cmd_msgq \in Seq(SupModes)
            /\ Len(supervisor_cmd_msgq) <= Depth
            /\ motion_msgq \in Seq(Motions) /\ Len(motion_msgq) <= Depth
            /\ robot_state_msgq \in Seq(States)
            /\ Len(robot_state_msgq) <= Depth
        BY <1>0 DEF TypeOK
      <3> HIDE DEF States
      <3>2. rc_data_msgq' \in Seq(RcFrames) /\ Len(rc_data_msgq') <= Depth
        BY <1>10, <3>1, OverwriteFits
        DEF Environment, RcArrives, CanMotionArrives, SupervisorArrives,
            MotionTaken, StateTaken, inQueues
      <3>3. can_motion_msgq' \in Seq(CanMotions)
            /\ Len(can_motion_msgq') <= Depth
        BY <1>10, <3>1, OverwriteFits
        DEF Environment, RcArrives, CanMotionArrives, SupervisorArrives,
            MotionTaken, StateTaken, inQueues
      <3>4. supervisor_cmd_msgq' \in Seq(SupModes)
            /\ Len(supervisor_cmd_msgq') <= Depth
        BY <1>10, <3>1, OverwriteFits
        DEF Environment, RcArrives, CanMotionArrives, SupervisorArrives,
            MotionTaken, StateTaken, inQueues
      <3>5. motion_msgq' \in Seq(Motions) /\ Len(motion_msgq') <= Depth
        <4>1. \/ motion_msgq' = motion_msgq
              \/ ~MsgqEmpty(motion_msgq) /\ motion_msgq' = MsgqRest(motion_msgq)
          BY <1>10 DEF Environment, RcArrives, CanMotionArrives,
               SupervisorArrives, MotionTaken, StateTaken, outQueues
        <4>2. CASE motion_msgq' = motion_msgq
          BY <3>1, <4>2
        <4>3. CASE ~MsgqEmpty(motion_msgq)
                   /\ motion_msgq' = MsgqRest(motion_msgq)
          <5>1. /\ MsgqRest(motion_msgq) \in Seq(Motions)
                /\ Len(MsgqRest(motion_msgq)) = Len(motion_msgq) - 1
                /\ Len(motion_msgq) \in Nat
            BY <3>1, <4>3, GotRest
          <5> QED
            BY <3>1, <4>3, <5>1
        <4> QED
          BY <4>1, <4>2, <4>3
      <3>6. robot_state_msgq' \in Seq(States) /\ Len(robot_state_msgq') <= Depth
        BY <1>10, <3>1, GotRest
        DEF Environment, RcArrives, CanMotionArrives, SupervisorArrives,
            MotionTaken, StateTaken, outQueues
      <3> QED
        BY <1>0, <2>1, <3>2, <3>3, <3>4, <3>5, <3>6
        DEF States, TypeOK, loopVars, robotState, motions, rcGhosts, canGhosts
    <2> QED BY <2>2, <2>3 DEF IInv
  <1>11. CASE UNCHANGED vars
    <2>1. TypeOK'
      BY <1>0, <1>11 DEF TypeOK, vars, inQueues, outQueues, robotState,
                         motions, rcGhosts, canGhosts
    <2>2. EstopFollowsSwitch' /\ RcVerdict' /\ CountersInv' /\ MotionInv'
      BY <1>0, <1>11 DEF EstopFollowsSwitch, RcVerdict, RcAlive, CountersInv,
           Capped, MotionInv, vars, robotState, motions, rcGhosts, canGhosts
    <2> QED BY <2>1, <2>2 DEF IInv
  <1> QED
    BY <1>1, <1>2, <1>3, <1>4, <1>5, <1>6, <1>7, <1>8, <1>9, <1>10, <1>11
    DEF Next, Coordinate

LEMMA SpecIInv == Spec => []IInv
  BY InitIInv, StepIInv, PTL DEF Spec

-----------------------------------------------------------------------------
\* The theorems.

\* Every variable keeps its type: no queue exceeds its capacity and neither
\* uint8_t counter of the loop can wrap (coordinator_service.c:72-122).
THEOREM TypeCorrect == Spec => []TypeOK
  BY SpecIInv, PTL DEF IInv

\* The robot is stopped exactly as the RC stop switch says while the link lives
\* (coordinator_service.c:107-122).
THEOREM EstopCorrect == Spec => []EstopFollowsSwitch
  BY SpecIInv, PTL DEF IInv

\* The control mode and the link report follow the RC link alone
\* (coordinator_service.c:93-122).
THEOREM VerdictCorrect == Spec => []RcVerdict
  BY SpecIInv, PTL DEF IInv

\* A step from the motion decision to the state report that sends a motion sends
\* one with a live source.
LEMMA SendStepLive ==
  ASSUME IInv, SendMotion
  PROVE  /\ motion_msgq' # << >>
         /\ LiveSource(motion_msgq'[Len(motion_msgq')])
  <1>0. TypeOK /\ EstopFollowsSwitch /\ RcVerdict /\ MotionInv
    BY DEF IInv
  <1>1. desired_motion' \in Motions
    BY <1>0, MotionTypes DEF TypeOK, SendMotion
  <1>2. /\ motion_msgq' # << >>
        /\ motion_msgq'[Len(motion_msgq')] = desired_motion'
    <2>1. motion_msgq \in Seq(Motions) /\ Len(motion_msgq) <= Depth
      BY <1>0 DEF TypeOK
    <2> QED
      BY <1>1, <2>1, DepthAssumption, OverwriteFits DEF SendMotion
  <1>3. LiveSource(desired_motion')
    <2>1. CASE estop_triggered
      BY <2>1 DEF SendMotion, LiveSource
    <2>2. CASE ~estop_triggered /\ control_mode = "RC"
      BY <1>0, <2>2
      DEF SendMotion, LiveSource, EstopFollowsSwitch, RcVerdict, MotionInv
    <2>3. CASE ~estop_triggered /\ control_mode = "CAN"
      BY <1>0, <2>3
      DEF SendMotion, LiveSource, EstopFollowsSwitch, RcVerdict, MotionInv
    <2> QED
      BY <1>0, <2>1, <2>2, <2>3 DEF TypeOK
  <1> QED
    BY <1>2, <1>3

\* No stale, superseded or stopped motion ever reaches motion control
\* (coordinator_service.c:93-170).
THEOREM MotionSafety == Spec => SentMotionIsLive
  <1>1. IInv /\ [Next]_vars =>
          [pc = "motion" /\ pc' = "state" /\ sup_mode = kNonSupervised
             => motion_msgq' # << >>
                /\ LiveSource(motion_msgq'[Len(motion_msgq')])]_vars
    <2> SUFFICES ASSUME IInv, Next, pc = "motion", pc' = "state",
                        sup_mode = kNonSupervised
                 PROVE  motion_msgq' # << >>
                        /\ LiveSource(motion_msgq'[Len(motion_msgq')])
      OBVIOUS
    <2>1. SendMotion
      BY DEF Next, Coordinate, Environment, RcFrame, RcMiss, CanMotion, CanMiss,
             CanNotPolled, CheckSupervisor, SendNoMotion, UpdateState,
             RcArrives, CanMotionArrives, SupervisorArrives, MotionTaken,
             StateTaken, loopVars
    <2> QED
      BY <2>1, SendStepLive
  <1> QED
    BY <1>1, SpecIInv, PTL DEF Spec, SentMotionIsLive

\* The coordinator implements what motion control relies on: every step of it
\* decides, sends, or is a step of motion control (coordinator_service.c:78-182).
\* The fairness of the promise is left to the model checker.
THEOREM CoordinatorImplementsPromise == Spec => Promise!Spec
  <1>1. Init => Promise!Init
    BY DEF Init, Promise!Init, ZeroMotion, Promise!ZeroMotion
  <1>2. TypeOK /\ TypeOK' /\ [Next]_vars => [Promise!Next]_Promise!coordinator
    <2> SUFFICES ASSUME TypeOK, TypeOK', [Next]_vars
                 PROVE  Promise!Next \/ UNCHANGED Promise!coordinator
      BY DEF Promise!Next, Promise!coordinator
    <2>1. CASE SendMotion
      <3>1. /\ sup_mode = kNonSupervised
            /\ desired_motion' = IF estop_triggered THEN Promise!ZeroMotion
                                                    ELSE desired_motion
            /\ motion_msgq' = Overwrite(motion_msgq, desired_motion', Depth)
            /\ UNCHANGED <<estop_triggered, sup_mode>>
        BY <2>1 DEF SendMotion, robotState, ZeroMotion, Promise!ZeroMotion
      <3> QED
        BY <3>1 DEF Promise!Next, Promise!Send, Overwrite, Promise!Overwrite,
           MsgqFull, Promise!MsgqFull, MsgqPut, Promise!MsgqPut
    <2>2. CASE MotionTaken
      BY <2>2 DEF MotionTaken, loopVars, robotState, motions, Promise!Next,
         Promise!Taken, MsgqEmpty, Promise!MsgqEmpty, MsgqRest, Promise!MsgqRest
    <2>3. CASE ~SendMotion /\ ~MotionTaken
      <3>1. motion_msgq' = motion_msgq
        BY <2>3 DEF Next, Coordinate, Environment, RcFrame, RcMiss, CanMotion,
             CanMiss, CanNotPolled, CheckSupervisor, SendNoMotion, UpdateState,
             RcArrives, CanMotionArrives, SupervisorArrives, StateTaken,
             inQueues, outQueues, vars
      <3>2. /\ estop_triggered' \in BOOLEAN /\ sup_mode' \in SupModes
            /\ desired_motion' \in Motions
        BY DEF TypeOK
      <3> QED
        BY <3>1, <3>2 DEF Promise!Next, Promise!Decide
    <2> QED
      BY <2>1, <2>2, <2>3
  <1> QED
    BY <1>1, <1>2, TypeCorrect, PTL DEF Spec, Promise!Spec
=============================================================================
