------------------------ MODULE RemoteControl_proofs ------------------------
(***************************************************************************)
(* The way of the remote control: proofs about the rccar's coordinator and *)
(* messenger (RccarDrive), and about the receiver that its frames come from*)
(* (SbusReceiver, Sbus), for any capacity of the queues and of the ring    *)
(* buffer, any frames, failures and losses.                                *)
(*                                                                         *)
(* RccarDrive: that at most as many speeds are sent after a stop as the    *)
(* state queue holds is inductive with what the queue and the messenger's  *)
(* place in its loop still allow (StopInv); that stale motions are bounded *)
(* by the motion queue, with how many of its motions are old (StaleInv);   *)
(* that the VESC has the frames of the motion sent last, with the frames   *)
(* themselves (FrameInv).                                                  *)
(*                                                                         *)
(* SbusReceiver: a transmitter's bytes decode to its channels (Decoded).   *)
(* Every byte in the ring has its place on the line, and what is missing   *)
(* between two of them was lost (RingInv); a decoder that began with the   *)
(* head of a frame either has the beginning of that frame or is further    *)
(* down the line than it has bytes (DecoderInv, Began), and then fewer     *)
(* losses than a frame cannot bring it to the tail of another frame.       *)
(***************************************************************************)
EXTENDS RccarDrive, SbusReceiver, Msgq_proofs, TLAPS

Busy == IF pc = "state" THEN 0 ELSE 1
Go == [estop |-> FALSE, mode |-> "RC"]
States == [estop : BOOLEAN, mode : {"RC", "CAN"}]

StopInv ==
  Muted =>
    /\ afterMute + Busy <= Depth
    /\ \A i \in 1..Len(robot_state_msgq) :
         robot_state_msgq[i] = Go => afterMute + Busy + i <= Depth

StaleInv ==
  /\ old <= Len(desired_motion_msgq) \/ ~Muted
  /\ Muted => /\ staleTaken = 0
              /\ stoppedLast <=> control_mode = "RC"
              /\ stoppedLast => old = 0 \/ old < Len(desired_motion_msgq)
  /\ ~Muted => staleTaken + old <= IF stoppedLast THEN MotionDepth - 2
                                                  ELSE MotionDepth - 1

ServoFrame == VescSetServoPosCmdPacketToFrame(VescId, ServoPos(rc_desired_motion), 2000)
RpmFrame == VescSetRpmCmdPacketToFrame(VescId, MotorRpm(rc_desired_motion))

FrameInv ==
  ~failed =>
    /\ pc = "rpm" => servo_frame = ServoFrame
    /\ pc \in {"state", "motion"} =>
         \/ servo_frame = NoFrame
         \/ servo_frame = ServoFrame /\ rpm_frame = RpmFrame

IInv == TypeOK /\ StopInv /\ StaleInv /\ FrameInv
-----------------------------------------------------------------------------
\* Types.

LEMMA RcMotionType ==
  ASSUME NEW f \in RcFrames
  PROVE  RcMotion(f) \in Motions
  <1>1. f.ch1 \in Channel /\ f.ch2 \in Channel
    BY FramesAssumption
  <1>2. -f.ch1 \in Channel /\ 0 \in Channel
    BY <1>1 DEF Channel
  <1>3. /\ RcMotion(f).linear \in Channel /\ RcMotion(f).angular \in Channel
        /\ RcMotion(f) = [linear |-> RcMotion(f).linear,
                          angular |-> RcMotion(f).angular]
    BY <1>1, <1>2 DEF RcMotion
  <1> QED
    BY <1>3 DEF Motions

LEMMA ZeroMotionType == ZeroMotion \in Motions
  BY DEF ZeroMotion, Motions, Channel

LEMMA InitType == Init => TypeOK
  <1> SUFFICES ASSUME Init PROVE TypeOK
    OBVIOUS
  <1>1. /\ << >> \in Seq(RcFrames) /\ << >> \in Seq(Motions)
        /\ << >> \in Seq([estop : BOOLEAN, mode : {"RC", "CAN"}])
        /\ Len(<< >>) = 0
    OBVIOUS
  <1>2. /\ 0 <= Depth /\ 0 <= MotionDepth /\ 0 \in 0..rc_timeout_count + 1
        /\ 0 \in 0..MaxFailures /\ 0 \in 0..MotionDepth
    BY DepthAssumption, TimeoutAssumption
  <1> QED
    BY <1>1, <1>2, ZeroMotionType DEF Init, TypeOK

\* A send that fails is counted.
LEMMA FailType ==
  ASSUME TypeOK, SendFails
  PROVE  failures' \in 0..MaxFailures /\ failed' \in BOOLEAN
  <1>1. \A n \in 0..MaxFailures : n < MaxFailures => n + 1 \in 0..MaxFailures
    BY DepthAssumption
  <1> QED
    BY <1>1 DEF SendFails, TypeOK

\* What a turn of the coordinator decides.
LEMMA TurnDecides ==
  ASSUME TypeOK, RcFrame \/ RcLost \/ RcMiss
  PROVE  /\ rc_data_msgq' \in Seq(RcFrames) /\ Len(rc_data_msgq') <= Depth
         /\ rc_connected' \in BOOLEAN /\ estop_triggered' \in BOOLEAN
         /\ control_mode' \in {"RC", "CAN"} /\ desired_motion' \in Motions
         /\ rc_counter' \in 0..rc_timeout_count + 1
  <1>1. CASE RcFrame
    <2>1. /\ MsgqGot(rc_data_msgq) \in RcFrames
          /\ MsgqRest(rc_data_msgq) \in Seq(RcFrames)
          /\ Len(MsgqRest(rc_data_msgq)) <= Depth
      BY <1>1, GotFits, DepthAssumption DEF RcFrame, TypeOK
    <2>2. RcMotion(MsgqGot(rc_data_msgq)) \in Motions
      BY <2>1, RcMotionType
    <2> QED
      BY <1>1, <2>1, <2>2, ZeroMotionType, TimeoutAssumption
      DEF RcFrame, TypeOK, SwitchedToGo
  <1>2. CASE RcLost
    BY <1>2 DEF RcLost, TypeOK
  <1>3. CASE RcMiss
    BY <1>3, ZeroMotionType, TimeoutAssumption DEF RcMiss, TypeOK
  <1> QED
    BY <1>1, <1>2, <1>3

LEMMA CoordinateType == TypeOK /\ Coordinate => TypeOK'
  <1> SUFFICES ASSUME TypeOK, Coordinate PROVE TypeOK'
    OBVIOUS
  <1>1. /\ rc_data_msgq' \in Seq(RcFrames) /\ Len(rc_data_msgq') <= Depth
        /\ rc_connected' \in BOOLEAN /\ estop_triggered' \in BOOLEAN
        /\ control_mode' \in {"RC", "CAN"} /\ desired_motion' \in Motions
        /\ rc_counter' \in 0..rc_timeout_count + 1
    BY TurnDecides DEF Coordinate
  <1>2. /\ desired_motion_msgq' \in Seq(Motions)
        /\ Len(desired_motion_msgq') <= MotionDepth
    <2>1. /\ Overwrite(desired_motion_msgq, desired_motion', MotionDepth) \in Seq(Motions)
          /\ Len(Overwrite(desired_motion_msgq, desired_motion', MotionDepth)) <= MotionDepth
      BY <1>1, OverwriteFits, DepthAssumption DEF TypeOK
    <2> QED
      BY <2>1 DEF Coordinate, SendMotion, TypeOK
  <1>3. /\ robot_state_msgq' \in Seq(States) /\ Len(robot_state_msgq') <= Depth
    <2>1. [estop |-> estop_triggered', mode |-> control_mode'] \in States
      BY <1>1 DEF States
    <2>2. robot_state_msgq \in Seq(States) /\ Len(robot_state_msgq) <= Depth
      BY DEF TypeOK, States
    <2> QED
      BY <2>1, <2>2, OverwriteFits, DepthAssumption DEF Coordinate, SendState
  <1>4. /\ old' \in 0..MotionDepth /\ staleTaken' \in 0..MotionDepth
        /\ stoppedLast' \in BOOLEAN /\ afterMute' \in Nat
    <2>1. Len(desired_motion_msgq) \in 0..MotionDepth
      BY DEF TypeOK
    <2>2. old' \in {0, old, Len(desired_motion_msgq)}
      BY DEF Coordinate, Mute
    <2>3. staleTaken' \in {0, staleTaken} /\ afterMute' \in {0, afterMute}
      BY DEF Coordinate, Mute
    <2>4. stoppedLast' \in BOOLEAN
      BY DEF Coordinate, Mute, TypeOK
    <2> QED
      BY <2>1, <2>2, <2>3, <2>4, DepthAssumption DEF TypeOK
  <1> QED
    BY <1>1, <1>2, <1>3, <1>4 DEF Coordinate, TypeOK, States, vesc

LEMMA MessengerType == TypeOK /\ StaleInv /\ Messenger => TypeOK'
  <1> SUFFICES ASSUME TypeOK, StaleInv, Messenger PROVE TypeOK'
    OBVIOUS
  <1>1. CASE GetState
    <2>1. /\ MsgqRest(robot_state_msgq) \in Seq(States)
          /\ Len(MsgqRest(robot_state_msgq)) <= Depth
      BY <1>1, GotFits, DepthAssumption DEF GetState, TypeOK, States
    <2> QED
      BY <1>1, <2>1 DEF GetState, TypeOK, States, roboState, vesc, muting
  <1>2. CASE GetMotion
    <2>1. /\ MsgqGot(desired_motion_msgq) \in Motions
          /\ MsgqRest(desired_motion_msgq) \in Seq(Motions)
          /\ Len(MsgqRest(desired_motion_msgq)) <= MotionDepth
      BY <1>2, GotFits, DepthAssumption DEF GetMotion, TypeOK
    <2>2. old' \in 0..MotionDepth /\ staleTaken' \in 0..MotionDepth
      BY <1>2, DepthAssumption DEF GetMotion, TypeOK, StaleInv
    <2> QED
      BY <1>2, <2>1, <2>2 DEF GetMotion, TypeOK, roboState
  <1>3. CASE NoMotion
    BY <1>3 DEF NoMotion, TypeOK, roboState, vesc, muting
  <1>4. CASE SendServoPosCmd
    <2>1. failures' \in 0..MaxFailures /\ failed' \in BOOLEAN
      BY <1>4, FailType DEF SendServoPosCmd, TypeOK
    <2> QED
      BY <1>4, <2>1 DEF SendServoPosCmd, TypeOK, roboState, muting
  <1>5. CASE SendSetRpmCmd
    <2>1. failures' \in 0..MaxFailures /\ failed' \in BOOLEAN
      BY <1>5, FailType DEF SendSetRpmCmd, TypeOK
    <2>2. afterMute' \in Nat
      BY <1>5 DEF SendSetRpmCmd, TypeOK
    <2> QED
      BY <1>5, <2>1, <2>2 DEF SendSetRpmCmd, NextTurn, TypeOK, roboState
  <1> QED
    BY <1>1, <1>2, <1>3, <1>4, <1>5 DEF Messenger

LEMMA ArrivesType ==
  ASSUME TypeOK, NEW f \in RcFrames, RcArrives(f)
  PROVE  TypeOK'
  <1>1. /\ rc_data_msgq' \in Seq(RcFrames) /\ Len(rc_data_msgq') <= Depth
    BY OverwriteFits, DepthAssumption DEF RcArrives, TypeOK
  <1> QED
    BY <1>1 DEF RcArrives, TypeOK, roboState, vesc, muting

LEMMA StepType == TypeOK /\ StaleInv /\ [Next]_vars => TypeOK'
  <1> SUFFICES ASSUME TypeOK, StaleInv, [Next]_vars PROVE TypeOK'
    OBVIOUS
  <1>1. CASE UNCHANGED vars
    BY <1>1 DEF vars, roboState, vesc, muting, TypeOK
  <1> QED
    BY <1>1, ArrivesType, CoordinateType, MessengerType DEF Next
-----------------------------------------------------------------------------
\* After a stop.

LEMMA CoordinateStop == TypeOK /\ StopInv /\ Coordinate => StopInv'
  <1> SUFFICES ASSUME TypeOK, StopInv, Coordinate, Muted' PROVE StopInv'
    BY DEF StopInv
  <1> DEFINE new == [estop |-> estop_triggered', mode |-> control_mode']
             q == robot_state_msgq
  <1>1. /\ q' = Overwrite(q, new, Depth) /\ Busy' = Busy
        /\ new # Go
    BY DEF Coordinate, SendState, Busy, Muted, Go
  <1>2. q \in Seq(States) /\ Len(q) \in Nat /\ Len(q) <= Depth
        /\ Depth \in Nat \ {0} /\ Busy \in {0, 1} /\ afterMute \in Nat
    BY DepthAssumption DEF TypeOK, States, Busy
  <1>3. CASE MsgqFull(q, Depth)
    <2>1. q' = <<new>>
      BY <1>1, <1>3 DEF Overwrite
    <2>2. \A i \in 1..Len(q') : q'[i] # Go
      BY <1>1, <2>1
    <2>3. afterMute' + Busy' <= Depth
      BY <1>1, <1>2 DEF Coordinate, Mute, StopInv
    <2> QED
      BY <2>2, <2>3 DEF StopInv
  <1>4. CASE ~MsgqFull(q, Depth)
    <2>1. /\ Len(q') = Len(q) + 1 /\ Len(q) < Depth /\ q'[Len(q) + 1] # Go
          /\ \A i \in 1..Len(q) : q'[i] = q[i]
      BY <1>1, <1>2, <1>4 DEF Overwrite, MsgqPut, MsgqFull
    <2>2. CASE Muted
      <3>1. afterMute' = afterMute
        BY <2>2 DEF Coordinate, Mute
      <3>2. \A i \in 1..Len(q') : q'[i] = Go => afterMute' + Busy' + i <= Depth
        BY <1>1, <1>2, <2>1, <2>2, <3>1 DEF StopInv
      <3> QED
        BY <1>1, <2>2, <3>1, <3>2 DEF StopInv
    <2>3. CASE ~Muted
      <3>1. afterMute' = 0
        BY <2>3 DEF Coordinate, Mute
      <3>2. \A i \in 1..Len(q') : q'[i] = Go => i <= Len(q)
        BY <1>2, <2>1
      <3>3. \A i \in 1..Len(q') : q'[i] = Go => afterMute' + Busy' + i <= Depth
        BY <1>1, <1>2, <2>1, <3>1, <3>2
      <3>4. afterMute' + Busy' <= Depth
        BY <1>1, <1>2, <3>1
      <3> QED
        BY <3>3, <3>4 DEF StopInv
    <2> QED
      BY <2>2, <2>3
  <1> QED
    BY <1>3, <1>4

LEMMA MessengerStop == TypeOK /\ StopInv /\ Messenger => StopInv'
  <1> SUFFICES ASSUME TypeOK, StopInv, Messenger, Muted' PROVE StopInv'
    BY DEF StopInv
  <1> DEFINE q == robot_state_msgq
  <1>1. q \in Seq(States) /\ Len(q) \in Nat /\ afterMute \in Nat
        /\ Depth \in Nat \ {0}
    BY DepthAssumption DEF TypeOK, States
  <1>2. Muted
    BY DEF Messenger, GetState, GetMotion, NoMotion, SendServoPosCmd,
       SendSetRpmCmd, roboState, Muted
  <1>3. CASE GetState
    <2>1. /\ Len(q') = Len(q) - 1 /\ Len(q) > 0 /\ MsgqGot(q) = q[1]
          /\ q[1] \in States
          /\ \A i \in 1..Len(q') : q'[i] = q[i + 1]
      BY <1>1, <1>3, GotRest DEF GetState
    <2>2. afterMute' = afterMute /\ Busy = 0
      BY <1>3 DEF GetState, muting, Busy
    <2>3. Busy' = 0 \/ (Busy' = 1 /\ q[1] = Go)
      <3>1. ASSUME NEW r \in States, ~r.estop, r.mode = "RC" PROVE r = Go
        BY <3>1 DEF States, Go
      <3>2. pc' = "motion" => ~q[1].estop /\ q[1].mode = "RC"
        BY <1>3, <2>1 DEF GetState
      <3>3. pc' \in {"state", "motion"}
        BY <1>3 DEF GetState
      <3> QED
        BY <2>1, <3>1, <3>2, <3>3 DEF Busy
    <2>4. CASE Busy' = 0
      <3>1. afterMute + 0 <= Depth
        BY <1>1, <1>2, <2>2 DEF StopInv
      <3>2. ASSUME NEW i \in 1..Len(q'), q'[i] = Go PROVE afterMute + 0 + i <= Depth
        <4>1. i \in Nat /\ i + 1 \in 1..Len(q) /\ q[i + 1] = Go
          BY <1>1, <2>1, <3>2
        <4>2. afterMute + Busy + (i + 1) <= Depth
          BY <1>2, <4>1 DEF StopInv
        <4> QED
          BY <1>1, <2>2, <4>1, <4>2
      <3> QED
        BY <2>2, <2>4, <3>1, <3>2 DEF StopInv
    <2>5. CASE Busy' = 1 /\ q[1] = Go
      <3>1. afterMute + 1 <= Depth
        BY <1>1, <1>2, <2>1, <2>2, <2>5 DEF StopInv
      <3>2. \A i \in 1..Len(q') : q'[i] = Go => afterMute' + Busy' + i <= Depth
        BY <1>1, <1>2, <2>1, <2>2, <2>5 DEF StopInv
      <3> QED
        BY <2>2, <2>5, <3>1, <3>2 DEF StopInv
    <2> QED
      BY <2>3, <2>4, <2>5
  <1>4. CASE GetMotion \/ SendServoPosCmd
    <2>1. q' = q /\ afterMute' = afterMute /\ Busy' = Busy
      BY <1>4 DEF GetMotion, SendServoPosCmd, muting, Busy
    <2> QED
      BY <1>2, <2>1 DEF StopInv
  <1>5. CASE NoMotion \/ SendSetRpmCmd
    <2>1. /\ q' = q /\ Busy = 1 /\ Busy' = 0
          /\ (afterMute' = afterMute \/ afterMute' = afterMute + 1)
      BY <1>5 DEF NoMotion, SendSetRpmCmd, NextTurn, muting, Busy
    <2>2. afterMute' \in Nat /\ afterMute' <= afterMute + 1
      <3>1. CASE afterMute' = afterMute
        BY <1>1, <2>1, <3>1
      <3>2. CASE afterMute' = afterMute + 1
        BY <1>1, <2>1, <3>2
      <3> QED
        BY <2>1, <3>1, <3>2
    <2>3. /\ afterMute + 1 <= Depth
          /\ \A i \in 1..Len(q) : q[i] = Go => afterMute + 1 + i <= Depth
      BY <1>2, <2>1 DEF StopInv
    <2>4. afterMute' <= Depth
      BY <1>1, <2>2, <2>3
    <2>5. ASSUME NEW i \in 1..Len(q), q[i] = Go PROVE afterMute' + i <= Depth
      <3>1. afterMute + 1 + i <= Depth
        BY <2>3, <2>5
      <3>2. i \in Nat
        BY <1>1
      <3>3. \A a, b, n, d \in Nat : a <= b + 1 /\ b + 1 + n <= d => a + n <= d
        OBVIOUS
      <3> QED
        BY <1>1, <2>2, <3>1, <3>2, <3>3
    <2>6. pc' = "state"
      BY <1>5 DEF NoMotion, SendSetRpmCmd, NextTurn
    <2> QED
      BY <2>1, <2>2, <2>4, <2>5, <2>6 DEF StopInv, Busy
  <1> QED
    BY <1>3, <1>4, <1>5 DEF Messenger

-----------------------------------------------------------------------------
\* Motions from before.

LEMMA CoordinateStale == TypeOK /\ StaleInv /\ Coordinate => StaleInv'
  <1> SUFFICES ASSUME TypeOK, StaleInv, Coordinate PROVE StaleInv'
    OBVIOUS
  <1> DEFINE q == desired_motion_msgq
  <1>1. /\ q \in Seq(Motions) /\ Len(q) \in Nat /\ Len(q) <= MotionDepth
        /\ MotionDepth \in Nat /\ MotionDepth >= 2
        /\ old \in Nat /\ staleTaken \in Nat
    BY DepthAssumption DEF TypeOK
  <1>2. control_mode' \in {"RC", "CAN"} /\ desired_motion' \in Motions
    BY TurnDecides DEF Coordinate
  <1>3. CASE control_mode' = "CAN"
    <2>1. q' = q /\ Muted' /\ old' = Len(q) /\ staleTaken' = 0 /\ stoppedLast' = FALSE
      BY <1>3 DEF Coordinate, SendMotion, Mute, Muted
    <2> QED
      BY <1>1, <1>3, <2>1 DEF StaleInv
  <1>4. CASE control_mode' = "RC" /\ MsgqFull(q, MotionDepth)
    <2>1. q' = <<desired_motion'>> /\ Len(q') = 1 /\ old' = 0
      BY <1>4 DEF Coordinate, SendMotion, Mute, Overwrite
    <2>2. Muted' => staleTaken' = 0 /\ stoppedLast' = TRUE
      BY <1>4 DEF Coordinate, Mute
    <2>3. ~Muted' => staleTaken' = staleTaken /\ stoppedLast' = stoppedLast
      BY DEF Coordinate, Mute
    <2>4. staleTaken <= IF stoppedLast THEN MotionDepth - 2 ELSE MotionDepth - 1
      BY <1>1 DEF StaleInv
    <2> QED
      BY <1>1, <1>4, <2>1, <2>2, <2>3, <2>4 DEF StaleInv
  <1>5. CASE control_mode' = "RC" /\ ~MsgqFull(q, MotionDepth)
    <2>1. q' = Append(q, desired_motion') /\ Len(q') = Len(q) + 1
          /\ Len(q) < MotionDepth
      BY <1>1, <1>2, <1>5 DEF Coordinate, SendMotion, Overwrite, MsgqPut, MsgqFull
    <2>2. CASE estop_triggered'
      <3>1. Muted' /\ old' = Len(q) /\ staleTaken' = 0 /\ stoppedLast' = TRUE
        BY <1>5, <2>2 DEF Coordinate, Mute, Muted
      <3> QED
        BY <1>1, <1>5, <2>1, <3>1 DEF StaleInv
    <2>3. CASE ~estop_triggered'
      <3>1. /\ ~Muted' /\ old' = old /\ staleTaken' = staleTaken
            /\ stoppedLast' = stoppedLast
        BY <1>5, <2>3 DEF Coordinate, Mute, Muted
      <3>2. staleTaken + old <= IF stoppedLast THEN MotionDepth - 2
                                               ELSE MotionDepth - 1
        BY <1>1, <2>1 DEF StaleInv
      <3> QED
        BY <3>1, <3>2 DEF StaleInv
    <2> QED
      BY <2>2, <2>3
  <1> QED
    BY <1>2, <1>3, <1>4, <1>5

LEMMA MessengerStale == TypeOK /\ StaleInv /\ Messenger => StaleInv'
  <1> SUFFICES ASSUME TypeOK, StaleInv, Messenger PROVE StaleInv'
    OBVIOUS
  <1>1. CASE GetMotion
    <2> DEFINE q == desired_motion_msgq
    <2>1. /\ q \in Seq(Motions) /\ Len(q) \in Nat /\ Len(q') = Len(q) - 1
          /\ Len(q) > 0
      BY <1>1, GotRest DEF GetMotion, TypeOK
    <2>2. /\ Muted' = Muted /\ control_mode' = control_mode
          /\ stoppedLast' = stoppedLast
          /\ old' = IF old > 0 THEN old - 1 ELSE 0
          /\ staleTaken' = IF old > 0 /\ ~Muted THEN staleTaken + 1 ELSE staleTaken
      BY <1>1 DEF GetMotion, roboState, Muted
    <2>3. old \in Nat /\ staleTaken \in Nat /\ MotionDepth \in Nat
      BY DepthAssumption DEF TypeOK
    <2>4. CASE Muted
      BY <2>1, <2>2, <2>3, <2>4 DEF StaleInv
    <2>5. CASE ~Muted
      BY <2>1, <2>2, <2>3, <2>5 DEF StaleInv
    <2> QED
      BY <2>4, <2>5
  <1>2. CASE GetState \/ NoMotion \/ SendServoPosCmd \/ SendSetRpmCmd
    <2>1. /\ Muted' = Muted /\ control_mode' = control_mode
          /\ stoppedLast' = stoppedLast /\ old' = old
          /\ staleTaken' = staleTaken
          /\ desired_motion_msgq' = desired_motion_msgq
      BY <1>2 DEF GetState, NoMotion, SendServoPosCmd, SendSetRpmCmd, roboState,
         muting, Muted
    <2> QED
      BY <2>1 DEF StaleInv
  <1> QED
    BY <1>1, <1>2 DEF Messenger
-----------------------------------------------------------------------------
\* Frames.

LEMMA FrameStep == FrameInv /\ [Next]_vars => FrameInv'
  <1> SUFFICES ASSUME FrameInv, [Next]_vars, ~failed' PROVE FrameInv'
    BY DEF FrameInv
  <1>1. CASE \/ UNCHANGED vars \/ Coordinate
             \/ \E f \in RcFrames : RcArrives(f)
    <2>1. /\ pc' = pc /\ rc_desired_motion' = rc_desired_motion
          /\ servo_frame' = servo_frame /\ rpm_frame' = rpm_frame
          /\ failed' = failed
      BY <1>1 DEF vars, vesc, Coordinate, RcArrives
    <2> QED
      BY <2>1 DEF FrameInv, ServoFrame, RpmFrame
  <1>2. CASE GetState \/ NoMotion
    <2>1. /\ pc \in {"state", "motion"}
          /\ pc' \in {"state", "motion"}
          /\ rc_desired_motion' = rc_desired_motion
          /\ servo_frame' = servo_frame /\ rpm_frame' = rpm_frame
          /\ failed' = failed
      BY <1>2 DEF GetState, NoMotion, vesc
    <2> QED
      BY <2>1 DEF FrameInv, ServoFrame, RpmFrame
  <1>3. CASE GetMotion
    BY <1>3 DEF GetMotion, FrameInv
  <1>4. CASE SendServoPosCmd
    <2>1. pc' = "rpm" /\ servo_frame' = ServoFrame
          /\ rc_desired_motion' = rc_desired_motion
      BY <1>4 DEF SendServoPosCmd, SendFails, ServoFrame
    <2> QED
      BY <2>1 DEF FrameInv, ServoFrame
  <1>5. CASE SendSetRpmCmd
    <2>1. /\ pc = "rpm" /\ pc' = "state" /\ failed' = failed
          /\ rpm_frame' = RpmFrame
          /\ servo_frame' = servo_frame
          /\ rc_desired_motion' = rc_desired_motion
      BY <1>5 DEF SendSetRpmCmd, NextTurn, SendFails, RpmFrame
    <2> QED
      BY <2>1 DEF FrameInv, ServoFrame, RpmFrame
  <1> QED
    BY <1>1, <1>2, <1>3, <1>4, <1>5 DEF Next, Messenger

\* What waits for the messenger, and what it has sent, changes in no step
\* but the coordinator's and its own.
LEMMA ElsewhereStep ==
  ASSUME StopInv, StaleInv,
         UNCHANGED vars \/ \E f \in RcFrames : RcArrives(f)
  PROVE  StopInv' /\ StaleInv'
  <1>1. /\ robot_state_msgq' = robot_state_msgq /\ pc' = pc
        /\ desired_motion_msgq' = desired_motion_msgq
        /\ estop_triggered' = estop_triggered /\ control_mode' = control_mode
        /\ old' = old /\ staleTaken' = staleTaken
        /\ stoppedLast' = stoppedLast /\ afterMute' = afterMute
    BY DEF vars, RcArrives, roboState, muting
  <1> QED
    BY <1>1 DEF StopInv, StaleInv, Busy, Muted

LEMMA InitInv == Init => IInv
  <1> SUFFICES ASSUME Init PROVE IInv
    OBVIOUS
  <1>1. Depth \in Nat \ {0} /\ MotionDepth \in Nat \ {0, 1} /\ Len(<< >>) = 0
    BY DepthAssumption
  <1>2. StopInv
    BY <1>1 DEF Init, StopInv, Busy
  <1>3. StaleInv
    BY <1>1 DEF Init, StaleInv, Muted
  <1>4. FrameInv
    BY DEF Init, FrameInv
  <1> QED
    BY <1>2, <1>3, <1>4, InitType DEF IInv

LEMMA StepInv == IInv /\ [Next]_vars => IInv'
  <1> SUFFICES ASSUME IInv, [Next]_vars PROVE IInv'
    OBVIOUS
  <1>1. TypeOK' /\ FrameInv'
    BY StepType, FrameStep DEF IInv
  <1>2. StopInv' /\ StaleInv'
    BY ElsewhereStep, CoordinateStop, MessengerStop, CoordinateStale,
       MessengerStale DEF IInv, Next
  <1> QED
    BY <1>1, <1>2 DEF IInv

LEMMA RccarInductive == Spec => []IInv
  <1> QED
    BY InitInv, StepInv, PTL DEF Spec
-----------------------------------------------------------------------------
\* The frames for the VESC.

LEMMA WordBytes ==
  ASSUME NEW x \in Int, -2147483648 <= x, x <= 2147483647
  PROVE  Word(Bytes(x)) = x
  BY DEF Word, Bytes

\* A position cut after its last thousandth loses less than that.
LEMMA TruncateRest ==
  ASSUME NEW x \in Nat
  PROVE  /\ Truncate(x, 2000) \in Nat
         /\ 0 <= x - 2000 * Truncate(x, 2000) /\ x - 2000 * Truncate(x, 2000) < 2000
  BY SMT DEF Truncate

LEMMA MotorRpmFits ==
  ASSUME NEW m \in Motions
  PROVE  /\ MotorRpm(m) \in Int
         /\ -2147483648 <= MotorRpm(m) /\ MotorRpm(m) <= 2147483647
  <1>1. m.linear \in Int /\ -1307 <= m.linear /\ m.linear <= 1307
    BY DEF Motions, Channel
  <1>2. MaxRpm \in Nat /\ MaxRpm <= 1000000
    BY VescAssumption
  <1>3. \A r, l \in Int : 0 <= r /\ r <= 1000000 /\ -1307 <= l /\ l <= 1307 =>
          /\ r * l \in Int /\ -1307000000 <= r * l /\ r * l <= 1307000000
    OBVIOUS
  <1>4. /\ MaxRpm * m.linear \in Int
        /\ -1307000000 <= MaxRpm * m.linear
        /\ MaxRpm * m.linear <= 1307000000
    BY <1>1, <1>2, <1>3
  <1> QED
    BY <1>4 DEF MotorRpm, Truncate

\* A position of the servo is read back.
LEMMA ServoReads ==
  ASSUME NEW num \in Int
  PROVE  ReadsPosition(VescSetServoPosCmdPacketToFrame(VescId, num, 2000), VescId,
                       num, 2000)
  <1> DEFINE f == VescSetServoPosCmdPacketToFrame(VescId, num, 2000)
             c == ClampCommand(num, 2000)
             x == 1000 * c
             n == Truncate(x, 2000)
  <1>1. c \in Nat /\ c <= 2000
    BY SMT DEF ClampCommand
  <1>2. f.id = VescProcessShortBufferCmdFrameId + VescId
        /\ f.data[3] = VescCommSetServoPosId
        /\ f.data[4] = n \div 256 /\ f.data[5] = n % 256
    BY DEF VescSetServoPosCmdPacketToFrame
  <1> HIDE DEF c, f
  <1>3. x \in Nat /\ x <= 2000000
    BY <1>1, SMT
  <1> HIDE DEF x
  <1>4. n \in Nat /\ 0 <= x - 2000 * n /\ x - 2000 * n < 2000
    BY <1>3, TruncateRest, SMT
  <1> HIDE DEF n
  <1>5. 256 * f.data[4] + f.data[5] = n
    BY <1>2, <1>4, SMT
  <1>6. VescReads(f, VescId) = VescCmd("servo_pos", n)
    BY <1>2, <1>5, VescAssumption DEF VescReads, VescProcessShortBufferCmdFrameId,
       VescRpmCmdFrameId
  <1>7. VescReads(f, VescId).type = "servo_pos" /\ VescReads(f, VescId).value = n
    BY <1>6 DEF VescCmd
  <1>8. ReadsPosition(f, VescId, num, 2000)
    BY <1>4, <1>7 DEF ReadsPosition, x, c
  <1> QED
    BY <1>8 DEF f

\* And so is a speed.
LEMMA RpmReads ==
  ASSUME NEW m \in Motions
  PROVE  VescReads(VescSetRpmCmdPacketToFrame(VescId, MotorRpm(m)), VescId)
           = VescCmd("rpm", MotorRpm(m))
  <1>1. Word(Bytes(MotorRpm(m))) = MotorRpm(m)
    BY MotorRpmFits, WordBytes
  <1> QED
    BY <1>1, VescAssumption DEF VescSetRpmCmdPacketToFrame, VescReads,
       VescProcessShortBufferCmdFrameId, VescRpmCmdFrameId

LEMMA IInvReads == IInv => VescReadsCommand
  <1> SUFFICES ASSUME IInv, pc = "state", ~failed, servo_frame # NoFrame
               PROVE  VescObeys(rc_desired_motion)
    BY DEF VescReadsCommand
  <1>1. servo_frame = ServoFrame /\ rpm_frame = RpmFrame
    BY DEF IInv, FrameInv
  <1>2. rc_desired_motion \in Motions /\ ServoPos(rc_desired_motion) \in Int
    BY DEF IInv, TypeOK, Motions, Channel, ServoPos
  <1> QED
    BY <1>1, <1>2, ServoReads, RpmReads DEF VescObeys, ServoFrame, RpmFrame
-----------------------------------------------------------------------------
\* The theorems.

\* The types of the rccar's coordinator and messenger: no queue grows beyond its
\* capacity, no motion leaves the range of the channels.
THEOREM RccarTypeCorrect == Spec => []TypeOK
  <1>1. IInv => TypeOK
    BY DEF IInv
  <1> QED
    BY <1>1, RccarInductive, PTL

\* After a stop or a change to CAN at most as many speeds are sent as the state queue
\* holds, one in the code, for all frames, and wherever in its loop the messenger
\* is (messenger_service.c:136-159).
THEOREM RccarOneAfterStop == Spec => []OneAfterStop
  <1>1. IInv => OneAfterStop
    <2> SUFFICES ASSUME IInv, Muted PROVE afterMute <= Depth
      BY DEF OneAfterStop
    <2>1. afterMute + Busy <= Depth /\ afterMute \in Nat /\ Depth \in Nat
      BY DepthAssumption DEF IInv, StopInv, TypeOK
    <2> QED
      BY <2>1 DEF Busy
  <1> QED
    BY <1>1, RccarInductive, PTL

\* When RC drives again, as many motions from before as the queue holds but one are
\* still taken from it; after a stop by the switch one fewer, none in the code
\* (coordinator_service.c:131-147).
THEOREM RccarStaleOnce == Spec => []StaleOnce
  <1>1. IInv => StaleOnce
    <2> SUFFICES ASSUME IInv PROVE StaleOnce
      OBVIOUS
    <2>1. staleTaken \in Nat /\ old \in Nat /\ MotionDepth \in Nat \ {0, 1}
      BY DepthAssumption DEF IInv, TypeOK
    <2>2. CASE Muted
      BY <2>1, <2>2 DEF IInv, StaleInv, StaleOnce
    <2>3. CASE ~Muted
      BY <2>1, <2>3 DEF IInv, StaleInv, StaleOnce
    <2> QED
      BY <2>2, <2>3
  <1> QED
    BY <1>1, RccarInductive, PTL

\* Unless a send failed, the VESC reads position and speed of the motion sent last,
\* whatever the motion, the largest speed and the VESC's number
\* (messenger_service.c:143-153, vesc_cmd_parser.c:35-58, 114-126).
THEOREM RccarVescReadsCommand == Spec => []VescReadsCommand
  BY IInvReads, RccarInductive, PTL

-----------------------------------------------------------------------------
\* The receiver that the remote control's motions come from.

LEMMA SbusNumbers ==
  /\ FrameLength = 25 /\ FrameHead = 15 /\ FrameTail = 0
  /\ \A x \in Uint8 : x \in Int /\ 0 <= x /\ x < 256
  /\ \A x \in Int : 0 <= x /\ x < 256 => x \in Uint8
  BY SMT DEF FrameLength, FrameHead, FrameTail,
     Uint8

-----------------------------------------------------------------------------
\* The decoder takes apart what the transmitter put together.

LEMMA Eleven ==
  ASSUME NEW x \in Int, 0 <= x, x < 2048, NEW s \in Int, NEW v, v = x + 2048 * s
  PROVE  v % 2048 = x
  BY SMT

\* The bits of a channel that spreads over two or three bytes.
LEMMA Spread ==
  ASSUME NEW x \in Int, 0 <= x, x < 2048
  PROVE  /\ (x % 256) + 256 * (x \div 256) = x /\ 0 <= x \div 256 /\ x \div 256 < 8
         /\ (x % 32) + 32 * (x \div 32) = x /\ 0 <= x \div 32 /\ x \div 32 < 64
         /\ (x % 4) + 4 * ((x \div 4) % 256) + 1024 * (x \div 1024) = x
         /\ 0 <= x \div 1024 /\ x \div 1024 < 2
         /\ (x % 128) + 128 * (x \div 128) = x /\ 0 <= x \div 128 /\ x \div 128 < 16
         /\ (x % 16) + 16 * (x \div 16) = x /\ 0 <= x \div 16 /\ x \div 16 < 128
         /\ (x % 2) + 2 * ((x \div 2) % 256) + 512 * (x \div 512) = x
         /\ 0 <= x \div 512 /\ x \div 512 < 4
         /\ (x % 64) + 64 * (x \div 64) = x /\ 0 <= x \div 64 /\ x \div 64 < 32
         /\ (x % 8) + 8 * (x \div 8) = x /\ 0 <= x \div 8 /\ x \div 8 < 256
  <1>1. /\ (x % 256) + 256 * (x \div 256) = x /\ 0 <= x \div 256 /\ x \div 256 < 8
        /\ (x % 32) + 32 * (x \div 32) = x /\ 0 <= x \div 32 /\ x \div 32 < 64
    BY SMT
  <1>2. /\ (x % 128) + 128 * (x \div 128) = x /\ 0 <= x \div 128 /\ x \div 128 < 16
        /\ (x % 16) + 16 * (x \div 16) = x /\ 0 <= x \div 16 /\ x \div 16 < 128
    BY SMT
  <1>3. /\ (x % 64) + 64 * (x \div 64) = x /\ 0 <= x \div 64 /\ x \div 64 < 32
        /\ (x % 8) + 8 * (x \div 8) = x /\ 0 <= x \div 8 /\ x \div 8 < 256
    BY SMT
  <1>4. /\ (x % 4) + 4 * ((x \div 4) % 256) + 1024 * (x \div 1024) = x
        /\ 0 <= x \div 1024 /\ x \div 1024 < 2
    BY SMT
  <1>5. /\ (x % 2) + 2 * ((x \div 2) % 256) + 512 * (x \div 512) = x
        /\ 0 <= x \div 512 /\ x \div 512 < 4
    BY SMT
  <1> QED
    BY <1>1, <1>2, <1>3, <1>4, <1>5

\* The part of a byte above a channel's last bits is the next channel's.
LEMMA Above ==
  ASSUME NEW x \in Int, NEW s \in Int, 0 <= x
  PROVE  /\ x < 8 => (x + s * 8) \div 8 = s
         /\ x < 64 => (x + s * 64) \div 64 = s
         /\ x < 2 => (x + s * 2) \div 2 = s
         /\ x < 16 => (x + s * 16) \div 16 = s
         /\ x < 128 => (x + s * 128) \div 128 = s
         /\ x < 4 => (x + s * 4) \div 4 = s
         /\ x < 32 => (x + s * 32) \div 32 = s
  BY SMT

\* Eleven bytes hold eight channels.
LEMMA Unpacked ==
  ASSUME NEW c, NEW n \in {0, 8},
         \A i \in 1..8 : c[n + i] \in Int /\ 0 <= c[n + i] /\ c[n + i] < 2048,
         NEW buf, NEW from \in Int,
         \A k \in 1..11 : buf[from + k] = Packed(c, n)[k]
  PROVE  \A i \in 1..8 : ChannelParts(buf, from)[i] % 2048 = c[n + i]
  <1> DEFINE d(i) == c[n + i]
             b(k) == buf[from + k]
             p(i) == ChannelParts(buf, from)[i]
  <1>1. /\ d(1) \in Int /\ d(2) \in Int /\ d(3) \in Int /\ d(4) \in Int
        /\ d(5) \in Int /\ d(6) \in Int /\ d(7) \in Int /\ d(8) \in Int
        /\ 0 <= d(1) /\ 0 <= d(2) /\ 0 <= d(3) /\ 0 <= d(4)
        /\ 0 <= d(5) /\ 0 <= d(6) /\ 0 <= d(7) /\ 0 <= d(8)
        /\ d(1) < 2048 /\ d(2) < 2048 /\ d(3) < 2048 /\ d(4) < 2048
        /\ d(5) < 2048 /\ d(6) < 2048 /\ d(7) < 2048 /\ d(8) < 2048
    BY SMT
  <1>2. /\ b(1) = d(1) % 256
        /\ b(2) = d(1) \div 256 + (d(2) % 32) * 8
        /\ b(3) = d(2) \div 32 + (d(3) % 4) * 64
        /\ b(4) = (d(3) \div 4) % 256
        /\ b(5) = d(3) \div 1024 + (d(4) % 128) * 2
        /\ b(6) = d(4) \div 128 + (d(5) % 16) * 16
        /\ b(7) = d(5) \div 16 + (d(6) % 2) * 128
        /\ b(8) = (d(6) \div 2) % 256
        /\ b(9) = d(6) \div 512 + (d(7) % 64) * 4
        /\ b(10) = d(7) \div 64 + (d(8) % 8) * 32
        /\ b(11) = d(8) \div 8
    BY SMT DEF Packed
  <1>3. /\ p(1) = b(1) \div 1 + b(2) * 256
        /\ p(2) = b(2) \div 8 + b(3) * 32
        /\ p(3) = b(3) \div 64 + b(4) * 4 + b(5) * 1024
        /\ p(4) = b(5) \div 2 + b(6) * 128
        /\ p(5) = b(6) \div 16 + b(7) * 16
        /\ p(6) = b(7) \div 128 + b(8) * 2 + b(9) * 512
        /\ p(7) = b(9) \div 4 + b(10) * 64
        /\ p(8) = b(10) \div 32 + b(11) * 8
    BY SMT DEF ChannelParts, Up, Down
  <1> HIDE DEF d, b, p
  <1>4. p(1) % 2048 = d(1)
    <2>1. p(1) = d(1) + 2048 * (d(2) % 32)
      <3>1. d(1) % 256 \in Int /\ d(1) \div 256 \in Int /\ d(2) % 32 \in Int
        BY <1>1, SMT
      <3>2. (d(1) % 256) + 256 * (d(1) \div 256) = d(1)
        BY <1>1, Spread
      <3>3. p(1) = (d(1) % 256) + (d(1) \div 256 + (d(2) % 32) * 8) * 256
        BY <1>2, <1>3, <3>1, SMT
      <3> QED
        BY <3>1, <3>2, <3>3, SMT
    <2>2. d(2) % 32 \in Int
      BY <1>1, SMT
    <2> QED
      BY <1>1, <2>1, <2>2, Eleven
  <1>5. p(2) % 2048 = d(2)
    <2>1. b(2) \div 8 = d(2) % 32
      <3>1. d(1) \div 256 \in Int /\ d(2) % 32 \in Int
        BY <1>1, SMT
      <3> QED
        BY <1>1, <1>2, <3>1, Spread, Above, SMT
    <2>2. p(2) = d(2) + 2048 * (d(3) % 4)
      BY <1>1, <1>2, <1>3, <2>1, Spread, SMT
    <2>3. d(3) % 4 \in Int
      BY <1>1, SMT
    <2> QED
      BY <1>1, <2>2, <2>3, Eleven
  <1>6. p(3) % 2048 = d(3)
    <2>1. b(3) \div 64 = d(3) % 4
      <3>1. d(2) \div 32 \in Int /\ d(3) % 4 \in Int
        BY <1>1, SMT
      <3> QED
        BY <1>1, <1>2, <3>1, Spread, Above, SMT
    <2>2. p(3) = d(3) + 2048 * (d(4) % 128)
      <3>1. /\ d(3) % 4 \in Int /\ (d(3) \div 4) % 256 \in Int
            /\ d(3) \div 1024 \in Int /\ d(4) % 128 \in Int
        BY <1>1, SMT
      <3>2. (d(3) % 4) + 4 * ((d(3) \div 4) % 256) + 1024 * (d(3) \div 1024) = d(3)
        BY <1>1, Spread
      <3>3. p(3) = (d(3) % 4) + ((d(3) \div 4) % 256) * 4
                     + (d(3) \div 1024 + (d(4) % 128) * 2) * 1024
        BY <1>2, <1>3, <2>1
      <3> QED
        BY <3>1, <3>2, <3>3, SMT
    <2>3. d(4) % 128 \in Int
      BY <1>1, SMT
    <2> QED
      BY <1>1, <2>2, <2>3, Eleven
  <1>7. p(4) % 2048 = d(4)
    <2>1. b(5) \div 2 = d(4) % 128
      <3>1. d(3) \div 1024 \in Int /\ d(4) % 128 \in Int
        BY <1>1, SMT
      <3> QED
        BY <1>1, <1>2, <3>1, Spread, Above, SMT
    <2>2. p(4) = d(4) + 2048 * (d(5) % 16)
      BY <1>1, <1>2, <1>3, <2>1, Spread, SMT
    <2>3. d(5) % 16 \in Int
      BY <1>1, SMT
    <2> QED
      BY <1>1, <2>2, <2>3, Eleven
  <1>8. p(5) % 2048 = d(5)
    <2>1. b(6) \div 16 = d(5) % 16
      <3>1. d(4) \div 128 \in Int /\ d(5) % 16 \in Int
        BY <1>1, SMT
      <3> QED
        BY <1>1, <1>2, <3>1, Spread, Above, SMT
    <2>2. p(5) = d(5) + 2048 * (d(6) % 2)
      BY <1>1, <1>2, <1>3, <2>1, Spread, SMT
    <2>3. d(6) % 2 \in Int
      BY <1>1, SMT
    <2> QED
      BY <1>1, <2>2, <2>3, Eleven
  <1>9. p(6) % 2048 = d(6)
    <2>1. b(7) \div 128 = d(6) % 2
      <3>1. d(5) \div 16 \in Int /\ d(6) % 2 \in Int
        BY <1>1, SMT
      <3> QED
        BY <1>1, <1>2, <3>1, Spread, Above, SMT
    <2>2. p(6) = d(6) + 2048 * (d(7) % 64)
      <3>1. /\ d(6) % 2 \in Int /\ (d(6) \div 2) % 256 \in Int
            /\ d(6) \div 512 \in Int /\ d(7) % 64 \in Int
        BY <1>1, SMT
      <3>2. (d(6) % 2) + 2 * ((d(6) \div 2) % 256) + 512 * (d(6) \div 512) = d(6)
        BY <1>1, Spread
      <3>3. p(6) = (d(6) % 2) + ((d(6) \div 2) % 256) * 2
                     + (d(6) \div 512 + (d(7) % 64) * 4) * 512
        BY <1>2, <1>3, <2>1
      <3> QED
        BY <3>1, <3>2, <3>3, SMT
    <2>3. d(7) % 64 \in Int
      BY <1>1, SMT
    <2> QED
      BY <1>1, <2>2, <2>3, Eleven
  <1>10. p(7) % 2048 = d(7)
    <2>1. b(9) \div 4 = d(7) % 64
      <3>1. d(6) \div 512 \in Int /\ d(7) % 64 \in Int
        BY <1>1, SMT
      <3> QED
        BY <1>1, <1>2, <3>1, Spread, Above, SMT
    <2>2. p(7) = d(7) + 2048 * (d(8) % 8)
      BY <1>1, <1>2, <1>3, <2>1, Spread, SMT
    <2>3. d(8) % 8 \in Int
      BY <1>1, SMT
    <2> QED
      BY <1>1, <2>2, <2>3, Eleven
  <1>11. p(8) % 2048 = d(8)
    <2>1. b(10) \div 32 = d(8) % 8
      <3>1. d(7) \div 64 \in Int /\ d(8) % 8 \in Int
        BY <1>1, SMT
      <3>2. 0 <= d(7) \div 64 /\ d(7) \div 64 < 32
        BY <1>1, Spread
      <3>3. b(10) = d(7) \div 64 + (d(8) % 8) * 32
        BY <1>2
      <3> QED
        BY <3>1, <3>2, <3>3, Above
    <2>2. p(8) = d(8) + 2048 * (0)
      BY <1>1, <1>2, <1>3, <2>1, Spread, SMT
    <2>3. 0 \in Int
      BY <1>1, SMT
    <2> QED
      BY <1>1, <2>2, <2>3, Eleven
  <1>12. \A i \in 1..8 : p(i) % 2048 = d(i)
    BY <1>4, <1>5, <1>6, <1>7, <1>8, <1>9, <1>10, <1>11
  <1> QED
    BY <1>12 DEF p, d

\* ... and a whole frame its message.
LEMMA Decoded ==
  ASSUME NEW f \in SbusFrames,
         NEW buf, \A k \in 1..25 : buf[k] = FrameBytes(f)[k]
  PROVE  SbusBuildMessage(buf) = MessageOf(f)
  <1> DEFINE c == f.channels
  <1>1. \A i \in 1..16 : c[i] \in Int /\ 0 <= c[i] /\ c[i] < 2048
    BY SMT DEF SbusFrames
  <1>2. /\ \A k \in 1..11 : buf[1 + k] = Packed(c, 0)[k]
        /\ \A k \in 1..11 : buf[12 + k] = Packed(c, 8)[k]
        /\ buf[24] = f.flags
    BY SbusNumbers, SMT DEF FrameBytes
  <1> HIDE DEF c
  <1>3. \A i \in 1..8 : ChannelParts(buf, 1)[i] % 2048 = c[0 + i]
    BY <1>1, <1>2, Unpacked
  <1>4. \A i \in 1..8 : ChannelParts(buf, 12)[i] % 2048 = c[8 + i]
    <2>1. \A i \in 1..8 : 8 + i \in 1..16
      OBVIOUS
    <2> QED
      BY <1>1, <1>2, <2>1, Unpacked
  <1>5. [i \in 1..16 |-> IF i <= 8 THEN ChannelParts(buf, 1)[i] % 2048
                         ELSE ChannelParts(buf, 12)[i - 8] % 2048]
          = [i \in 1..16 |-> c[i]]
    <2>1. ASSUME NEW i \in 1..16
          PROVE  (IF i <= 8 THEN ChannelParts(buf, 1)[i] % 2048
                  ELSE ChannelParts(buf, 12)[i - 8] % 2048) = c[i]
      <3>1. CASE i <= 8
        BY <1>3, <3>1
      <3>2. CASE ~(i <= 8)
        <4>1. i - 8 \in 1..8 /\ 8 + (i - 8) = i
          BY <3>2
        <4> QED
          BY <1>4, <3>2, <4>1
      <3> QED
        BY <3>1, <3>2
    <2> QED
      BY <2>1
  <1>6. f.channels = [i \in 1..16 |-> f.channels[i]]
    BY DEF SbusFrames
  <1> QED
    BY <1>2, <1>5, <1>6 DEF SbusBuildMessage, MessageOf, c

\* A byte holds what is put into it.
LEMMA PackedBytes ==
  ASSUME NEW c, NEW n \in {0, 8},
         \A i \in 1..8 : c[n + i] \in Int /\ 0 <= c[n + i] /\ c[n + i] < 2048
  PROVE  \A k \in 1..11 : Packed(c, n)[k] \in Uint8
  <1> DEFINE d(i) == c[n + i]
             b(k) == Packed(c, n)[k]
             Holds(k) == b(k) \in Int /\ 0 <= b(k) /\ b(k) < 256
  <1>1. /\ d(1) \in Int /\ d(2) \in Int /\ d(3) \in Int /\ d(4) \in Int
        /\ d(5) \in Int /\ d(6) \in Int /\ d(7) \in Int /\ d(8) \in Int
        /\ 0 <= d(1) /\ 0 <= d(2) /\ 0 <= d(3) /\ 0 <= d(4)
        /\ 0 <= d(5) /\ 0 <= d(6) /\ 0 <= d(7) /\ 0 <= d(8)
        /\ d(1) < 2048 /\ d(2) < 2048 /\ d(3) < 2048 /\ d(4) < 2048
        /\ d(5) < 2048 /\ d(6) < 2048 /\ d(7) < 2048 /\ d(8) < 2048
    BY SMT
  <1>2. /\ b(1) = d(1) % 256
        /\ b(2) = d(1) \div 256 + (d(2) % 32) * 8
        /\ b(3) = d(2) \div 32 + (d(3) % 4) * 64
        /\ b(4) = (d(3) \div 4) % 256
        /\ b(5) = d(3) \div 1024 + (d(4) % 128) * 2
        /\ b(6) = d(4) \div 128 + (d(5) % 16) * 16
        /\ b(7) = d(5) \div 16 + (d(6) % 2) * 128
        /\ b(8) = (d(6) \div 2) % 256
        /\ b(9) = d(6) \div 512 + (d(7) % 64) * 4
        /\ b(10) = d(7) \div 64 + (d(8) % 8) * 32
        /\ b(11) = d(8) \div 8
    BY SMT DEF Packed
  <1> HIDE DEF d, b
  <1>3. Holds(1) /\ Holds(2)
    BY <1>1, <1>2, SMT
  <1>4. Holds(3) /\ Holds(4)
    BY <1>1, <1>2, SMT
  <1>5. Holds(5) /\ Holds(6)
    BY <1>1, <1>2, SMT
  <1>6. Holds(7) /\ Holds(8)
    BY <1>1, <1>2, SMT
  <1>7. Holds(9) /\ Holds(10)
    BY <1>1, <1>2, SMT
  <1>8. Holds(11)
    BY <1>1, <1>2, SMT
  <1>9. ASSUME NEW k \in 1..11 PROVE Holds(k)
    BY <1>3, <1>4, <1>5, <1>6, <1>7, <1>8
  <1> QED
    BY <1>9, SbusNumbers DEF b

LEMMA FrameFacts ==
  ASSUME NEW f \in Frames
  PROVE  /\ f \in SbusFrames
         /\ \A k \in 1..25 : /\ BytesOf[f][k] = FrameBytes(f)[k]
                             /\ BytesOf[f][k] \in Uint8
         /\ BytesOf[f][1] = 15 /\ BytesOf[f][25] = 0
  <1> DEFINE c == f.channels
  <1>1. f \in SbusFrames
    BY LineAssumption
  <1>2. /\ \A i \in 1..16 : c[i] \in Int /\ 0 <= c[i] /\ c[i] < 2048
        /\ f.flags \in Uint8
    BY <1>1, SMT DEF SbusFrames
  <1> HIDE DEF c
  <1>3. \A k \in 1..11 : /\ Packed(c, 0)[k] \in Uint8
                         /\ Packed(c, 8)[k] \in Uint8
    <2>1. \A i \in 1..8 : 0 + i \in 1..16 /\ 8 + i \in 1..16
      OBVIOUS
    <2> QED
      BY <1>2, <2>1, PackedBytes
  <1>4. BytesOf[f] = FrameBytes(f)
    BY DEF BytesOf
  <1>5. 15 \in Uint8 /\ 0 \in Uint8
    BY SbusNumbers
  <1>6. ASSUME NEW k \in 1..25 PROVE FrameBytes(f)[k] \in Uint8
    <2>1. CASE k \in 2..12
      <3>1. FrameBytes(f)[k] = Packed(c, 0)[k - 1]
        BY <2>1, SbusNumbers DEF FrameBytes, c
      <3> QED
        BY <1>3, <2>1, <3>1
    <2>2. CASE k \in 13..23
      <3>1. FrameBytes(f)[k] = Packed(c, 8)[k - 12]
        BY <2>2, SbusNumbers DEF FrameBytes, c
      <3> QED
        BY <1>3, <2>2, <3>1
    <2>3. CASE k \in {1, 24, 25}
      <3>1. FrameBytes(f)[k] \in {15, f.flags, 0}
        BY <2>3, SbusNumbers DEF FrameBytes
      <3> QED
        BY <1>2, <1>5, <3>1
    <2> QED
      BY <2>1, <2>2, <2>3
  <1>7. FrameBytes(f)[1] = 15 /\ FrameBytes(f)[25] = 0
    BY SbusNumbers DEF FrameBytes
  <1> QED
    BY <1>1, <1>4, <1>6, <1>7

-----------------------------------------------------------------------------
\* The line, the ring and the decoder.

\* How many bytes of the line came before, lost ones included, up to this one.
At(s) == 25 * s.n + s.k
OnLine == 25 * sent + position
Taken == OnLine - lost - Len(ring_buffer)

RingBytes == [byte : Uint8, from : Sources]
Messages ==
  {ReceiverData(SbusBuildMessage(d)) : d \in Seq(Uint8)}

\* What is in the ring are bytes of the line in their order, and all that are
\* missing between them, before or behind them are among the lost ones.
InPlace(i) ==
  LET e == ring_buffer[i].from
  IN /\ ring_buffer[i].byte = BytesOf[e.of][e.k] /\ e.k # 0
     /\ At(source) + i <= At(e) /\ At(e) <= OnLine - (Len(ring_buffer) - i)
     /\ e.n = sent => e.of = frame
     /\ e.n = source.n => e.of = source.of
     /\ quiet => Quiet(e.of)

InOrder(i, j) ==
  LET e == ring_buffer[i].from  g == ring_buffer[j].from
  IN i < j => /\ At(g) - At(e) >= j - i
              /\ e.n = g.n => e.of = g.of

SourceInPlace ==
  /\ 0 <= Taken /\ Taken <= At(source) /\ At(source) <= OnLine - Len(ring_buffer)
  /\ source.n = sent => source.of = frame
  /\ quiet => Quiet(frame)

RingInv ==
  /\ \A i \in 1..Len(ring_buffer) : InPlace(i)
  /\ \A i, j \in 1..Len(ring_buffer) : InOrder(i, j)
  /\ SourceInPlace

Sure == lost = 0 \/ (quiet /\ lost < 25)

\* The decoder began with the head of the m-th frame.  When nothing is missing
\* since, it has the beginning of that frame.
Began(m) ==
  /\ Taken - (Len(data) - 1) <= 25 * m + 1
  /\ 25 * m + Len(data) <= At(source)
  /\ At(source) = 25 * m + Len(data) =>
       /\ source.n = m
       /\ \A j \in 1..Len(data) : data[j] = BytesOf[source.of][j]

DecoderInv ==
  /\ decode_state = "WAIT_FOR_SOF" => Len(data) \in {0, 24, 25}
  /\ decode_state = "WAIT_FOR_PAYLOAD" => Len(data) \in 1..23
  /\ decode_state = "WAIT_FOR_EOF" => Len(data) = 24
  /\ Sure /\ decode_state # "WAIT_FOR_SOF" => \E m \in Nat : Began(m)
  /\ lost = 0 /\ decode_state = "WAIT_FOR_SOF" => source.k \in {0, 25}
  /\ Sure /\ Len(data) = 25 => sbus_msg_buffer = MessageOf(source.of)

ReceiverInv ==
  /\ ReceiverTypeOK /\ RingInv /\ DecoderInv /\ NoLostWakeup
  /\ rc_data_msgq_out \in Seq(Messages)

LEMMA ReceiverStarts ==
  ASSUME ReceiverInit
  PROVE  ReceiverInv
  <1>1. /\ frame \in Frames /\ source = [of |-> frame, n |-> 0, k |-> 0]
        /\ ring_buffer = << >> /\ data = << >> /\ rc_data_msgq_out = << >>
        /\ position = 0 /\ sent = 0 /\ lost = 0 /\ Len(<< >>) = 0
    BY DEF ReceiverInit, Here
  <1>2. /\ << >> \in Seq(RingBytes) /\ << >> \in Seq(Uint8)
        /\ << >> \in Seq(Messages)
    OBVIOUS
  <1>3. ReceiverTypeOK
    <2>1. quiet \in BOOLEAN
      BY DEF ReceiverInit, Quiet
    <2>2. /\ source \in Sources /\ 0 \in 0..(FrameLength - 1)
          /\ 0 \in 0..MaxFrames /\ 0 <= RingSize /\ 0 <= RcDepth
          /\ 0 <= FrameLength
      BY <1>1, SbusNumbers, LineAssumption DEF Sources
    <2>3. /\ rx_sem = 0 /\ receiver_pc = "wait" /\ decode_state = "WAIT_FOR_SOF"
      BY DEF ReceiverInit
    <2> QED
      BY <1>1, <1>2, <2>1, <2>2, <2>3 DEF ReceiverTypeOK, RingBytes
  <1>4. At(source) = 0 /\ OnLine = 0 /\ Taken = 0
    <2>1. source.n = 0 /\ source.k = 0
      BY <1>1
    <2>2. Len(ring_buffer) = 0
      BY <1>1
    <2>3. position = 0 /\ sent = 0 /\ lost = 0
      BY <1>1
    <2>4. At(source) = 0 /\ OnLine = 0
      BY <2>1, <2>3 DEF At, OnLine
    <2> QED
      BY <2>2, <2>3, <2>4 DEF Taken
  <1>5. RingInv
    <2>1. Len(ring_buffer) = 0 /\ source.of = frame /\ quiet = Quiet(frame)
      BY <1>1 DEF ReceiverInit
    <2>2. SourceInPlace
      BY <1>4, <2>1 DEF SourceInPlace
    <2> QED
      BY <2>1, <2>2 DEF RingInv
  <1>6. DecoderInv /\ NoLostWakeup
    BY <1>1 DEF DecoderInv, ReceiverInit, NoLostWakeup
  <1> QED
    BY <1>1, <1>2, <1>3, <1>5, <1>6 DEF ReceiverInv

\* The kinds of what the arguments below count with.
LEMMA ReceiverNumbers ==
  ASSUME ReceiverTypeOK
  PROVE  /\ sent \in Nat /\ sent \in 0..MaxFrames /\ position \in 0..24 /\ lost \in Nat
         /\ ring_buffer \in Seq(RingBytes) /\ Len(ring_buffer) \in Nat
         /\ \A i \in 1..Len(ring_buffer) : ring_buffer[i] \in RingBytes
         /\ source \in Sources /\ frame \in Frames
         /\ data \in Seq(Uint8) /\ Len(data) \in Nat
         /\ OnLine \in Nat /\ Taken \in Int
  <1>1. /\ sent \in Nat /\ sent \in 0..MaxFrames /\ position \in 0..24 /\ lost \in Nat
        /\ ring_buffer \in Seq(RingBytes) /\ source \in Sources
        /\ frame \in Frames /\ data \in Seq(Uint8)
    BY SbusNumbers, LineAssumption DEF ReceiverTypeOK, RingBytes
  <1> HIDE DEF RingBytes
  <1>2. /\ Len(ring_buffer) \in Nat /\ Len(data) \in Nat
        /\ \A i \in 1..Len(ring_buffer) : ring_buffer[i] \in RingBytes
    BY <1>1
  <1>3. OnLine \in Nat
    BY <1>1 DEF OnLine
  <1> QED
    BY <1>1, <1>2, <1>3 DEF Taken

LEMMA SourceNumbers ==
  ASSUME NEW s \in Sources
  PROVE  /\ s.n \in Nat /\ s.k \in 0..25 /\ s.of \in Frames
         /\ At(s) \in Nat /\ At(s) = 25 * s.n + s.k
  BY SbusNumbers DEF Sources, At

LEMMA RingNumbers ==
  ASSUME NEW b \in RingBytes
  PROVE  b.byte \in Uint8 /\ b.from \in Sources
  BY DEF RingBytes

-----------------------------------------------------------------------------
\* The line goes on.

LEMMA Advanced ==
  ASSUME ReceiverTypeOK, sent < MaxFrames,
         NEW last \in (position + 1)..25, Advance(last)
  PROVE  /\ frame' \in Frames /\ position' \in 0..24 /\ sent' \in 0..MaxFrames
         /\ quiet' \in BOOLEAN
         /\ OnLine' = OnLine + (last - position)
         /\ (sent' = sent /\ frame' = frame) \/ sent' = sent + 1
         /\ quiet' => quiet
         /\ (quiet => Quiet(frame)) => (quiet' => Quiet(frame'))
  <1>1. sent \in Nat /\ sent \in 0..MaxFrames /\ position \in 0..24 /\ frame \in Frames
    BY ReceiverNumbers
  <1>2. quiet \in BOOLEAN
    BY DEF ReceiverTypeOK
  <1>3. MaxFrames \in Nat
    BY LineAssumption
  <1>4. CASE last < 25
    <2>1. position' = last /\ frame' = frame /\ sent' = sent /\ quiet' = quiet
      BY <1>4, SbusNumbers DEF Advance
    <2>2. OnLine' = OnLine + (last - position)
      BY <1>1, <2>1 DEF OnLine
    <2> QED
      BY <1>1, <1>2, <1>4, <2>1, <2>2
  <1>5. CASE ~(last < 25)
    <2>1. /\ position' = 0 /\ sent' = sent + 1 /\ frame' \in Frames
          /\ quiet' = (quiet /\ Quiet(frame'))
      BY <1>5, SbusNumbers DEF Advance
    <2>2. last = 25
      BY <1>1, <1>5
    <2>3. OnLine' = OnLine + (last - position)
      BY <1>1, <2>1, <2>2 DEF OnLine
    <2>4. quiet' \in BOOLEAN /\ (quiet' => quiet) /\ (quiet' => Quiet(frame'))
      BY <1>2, <2>1
    <2>5. position' \in 0..24 /\ sent' \in 0..MaxFrames
      BY <1>1, <1>3, <2>1
    <2> QED
      BY <2>1, <2>3, <2>4, <2>5
  <1> QED
    BY <1>4, <1>5

\* A byte that is on the line already stays what it was.
LEMMA Known ==
  ASSUME ReceiverTypeOK,
         (sent' = sent /\ frame' = frame) \/ sent' = sent + 1,
         NEW s \in Sources, At(s) <= OnLine, s.n = sent => s.of = frame
  PROVE  s.n = sent' => s.of = frame'
  <1>1. At(s) = 25 * s.n + s.k /\ s.n \in Nat /\ s.k \in 0..25
    BY SourceNumbers
  <1>2. sent \in Nat /\ position \in 0..24 /\ OnLine = 25 * sent + position
    BY ReceiverNumbers DEF OnLine
  <1>3. s.n <= sent
    BY <1>1, <1>2
  <1> QED
    BY <1>1, <1>2, <1>3

LEMMA Joined ==
  ASSUME NEW S, NEW q \in Seq(S), NEW r \in Seq(S)
  PROVE  /\ q \o r \in Seq(S) /\ Len(q \o r) = Len(q) + Len(r)
         /\ \A i \in 1..Len(q) : (q \o r)[i] = q[i]
         /\ \A i \in 1..Len(r) : (q \o r)[Len(q) + i] = r[i]
  OBVIOUS

\* The next c bytes of the line are new in the ring, behind the others.
Stored(new, c) ==
  /\ \A i \in 1..c : /\ new[i].byte = BytesOf[frame][position + i]
                     /\ new[i].from.n = sent /\ new[i].from.of = frame
                     /\ new[i].from.k = position + i
  /\ Len(ring_buffer') = Len(ring_buffer) + c
  /\ \A i \in 1..Len(ring_buffer) : ring_buffer'[i] = ring_buffer[i]
  /\ \A i \in 1..c : ring_buffer'[Len(ring_buffer) + i] = new[i]

LEMMA LineRing ==
  ASSUME ReceiverTypeOK, RingInv, sent < MaxFrames,
         NEW last \in (position + 1)..25, Advance(last),
         NEW c \in 0..(last - position), NEW new, Stored(new, c),
         lost' = lost + (last - position) - c, source' = source
  PROVE  Taken' = Taken /\ RingInv'
  <1> DEFINE L == Len(ring_buffer)
             from(i) == ring_buffer[i].from
             at(i) == At(from(i))
             d == last - position
             S == At(source)
  <1>1. /\ sent \in Nat /\ position \in 0..24 /\ lost \in Nat /\ L \in Nat
        /\ source \in Sources /\ OnLine \in Nat /\ OnLine = 25 * sent + position
        /\ \A i \in 1..L : ring_buffer[i] \in RingBytes
        /\ Taken = OnLine - lost - L /\ c \in Nat /\ d \in Nat /\ c <= d
    <2>1. /\ sent \in Nat /\ position \in 0..24 /\ lost \in Nat /\ L \in Nat
          /\ source \in Sources /\ OnLine \in Nat
          /\ \A i \in 1..L : ring_buffer[i] \in RingBytes
      BY ReceiverNumbers
    <2>2. c \in Nat /\ d \in Nat /\ c <= d
      BY <2>1
    <2> QED
      BY <2>1, <2>2 DEF OnLine, Taken
  <1> HIDE DEF L, from, at, d, S
  <1>2. /\ OnLine' = OnLine + d
        /\ (sent' = sent /\ frame' = frame) \/ sent' = sent + 1
        /\ quiet' => quiet
        /\ (quiet => Quiet(frame)) => (quiet' => Quiet(frame'))
    BY Advanced DEF d
  <1>3. \A i \in 1..c : At(new[i].from) = OnLine + i
    <2>1. ASSUME NEW i \in 1..c PROVE At(new[i].from) = OnLine + i
      <3>1. new[i].from.n = sent /\ new[i].from.k = position + i
        BY DEF Stored
      <3>2. At(new[i].from) = 25 * sent + (position + i)
        BY <3>1 DEF At
      <3>3. i \in Nat
        OBVIOUS
      <3> QED
        BY <1>1, <3>2, <3>3
    <2> QED
      BY <2>1
  <1>6. /\ Len(ring_buffer') = L + c
        /\ \A i \in 1..L : ring_buffer'[i] = ring_buffer[i]
        /\ \A i \in 1..c : ring_buffer'[L + i] = new[i]
        /\ \A i \in 1..c : /\ new[i].byte = BytesOf[frame][position + i]
                           /\ new[i].from.n = sent /\ new[i].from.of = frame
                           /\ new[i].from.k = position + i
    BY DEF Stored, L
  <1>7. Taken' = Taken
    <2>1. lost' = lost + d - c
      BY DEF d
    <2>2. Taken' = OnLine' - lost' - Len(ring_buffer')
      BY DEF Taken
    <2>3. Taken' = (OnLine + d) - (lost + d - c) - (L + c)
      BY <1>2, <1>6, <2>1, <2>2
    <2> QED
      BY <1>1, <2>3, SMT
  <1>8. /\ 0 <= Taken /\ Taken <= S /\ S <= OnLine - L
        /\ source.n = sent => source.of = frame
        /\ quiet => Quiet(frame)
    BY DEF RingInv, SourceInPlace, S, L
  <1>9. S \in Nat
    BY <1>1, SourceNumbers DEF S
  <1>10. SourceInPlace'
    <2>1. source.n = sent' => source.of = frame'
      <3>1. S <= OnLine
        BY <1>1, <1>8, <1>9
      <3> QED
        BY <1>1, <1>2, <1>8, <3>1, Known DEF S
    <2>2. S <= OnLine' - Len(ring_buffer')
      BY <1>1, <1>2, <1>6, <1>8, <1>9
    <2> QED
      BY <1>2, <1>7, <1>8, <2>1, <2>2 DEF SourceInPlace, At, S
  \* An element of the longer ring is an old one or a new one.
  <1>11. ASSUME NEW i \in 1..L
         PROVE  /\ ring_buffer'[i] = ring_buffer[i] /\ at(i) \in Nat
                /\ ring_buffer[i].byte = BytesOf[from(i).of][from(i).k]
                /\ from(i).k # 0 /\ S + i <= at(i)
                /\ at(i) <= OnLine - (L - i)
                /\ from(i).n = sent => from(i).of = frame
                /\ from(i).n = sent' => from(i).of = frame'
                /\ from(i).n = source.n => from(i).of = source.of
                /\ quiet => Quiet(from(i).of)
    <2>1. from(i) \in Sources
      BY <1>1, RingNumbers DEF from
    <2>2. at(i) \in Nat
      BY <2>1, SourceNumbers DEF at
    <2>3. InPlace(i)
      BY DEF RingInv, L
    <2>4. at(i) <= OnLine - (L - i) /\ (from(i).n = sent => from(i).of = frame)
      BY <2>3 DEF InPlace, L, at, from
    <2>5. at(i) <= OnLine
      BY <1>1, <2>2, <2>4
    <2>6. from(i).n = sent' => from(i).of = frame'
      BY <1>2, <2>1, <2>4, <2>5, Known DEF at
    <2> QED
      BY <1>6, <2>2, <2>3, <2>6 DEF InPlace, L, at, from, S
  <1>12. ASSUME NEW i \in 1..(L + c), i \notin 1..L
         PROVE  /\ i - L \in 1..c /\ L + (i - L) = i
                /\ ring_buffer'[i] = new[i - L]
    <2>1. i - L \in 1..c /\ L + (i - L) = i
      BY <1>1, <1>12
    <2> QED
      BY <1>6, <2>1
  <1>13. ASSUME NEW i \in 1..(L + c) PROVE InPlace(i)'
    <2>1. CASE i \in 1..L
      <3>1. at(i) <= OnLine' - (Len(ring_buffer') - i)
        <4>1. at(i) \in Nat /\ at(i) <= OnLine - (L - i) /\ i \in Nat
          BY <1>1, <1>11, <2>1
        <4>2. L \in Nat /\ OnLine \in Nat /\ c \in Nat /\ d \in Nat /\ c <= d
          BY <1>1
        <4> QED
          BY <1>2, <1>6, <4>1, <4>2
      <3> QED
        BY <1>2, <1>11, <2>1, <3>1 DEF InPlace, At, S, from, at
    <2>2. CASE i \notin 1..L
      <3> DEFINE k == i - L
      <3>1. k \in 1..c /\ L + k = i /\ ring_buffer'[i] = new[k]
        BY <1>12, <2>2
      <3> HIDE DEF k
      <3>2. /\ S + i <= At(new[k].from)
            /\ At(new[k].from) <= OnLine' - (Len(ring_buffer') - i)
        <4>1. /\ At(new[k].from) = OnLine + k /\ k \in Nat /\ k <= c /\ L + k = i
          BY <1>1, <1>3, <3>1
        <4>2. L \in Nat /\ OnLine \in Nat /\ c \in Nat /\ d \in Nat /\ c <= d
          BY <1>1
        <4>3. OnLine' = OnLine + d /\ Len(ring_buffer') = L + c /\ S <= OnLine - L
          BY <1>2, <1>6, <1>8
        <4>4. S + i <= At(new[k].from)
          BY <1>9, <4>1, <4>2, <4>3
        <4>5. Len(ring_buffer') - i = c - k
          BY <4>1, <4>2, <4>3
        <4>6. OnLine + k <= (OnLine + d) - (c - k)
          BY <4>1, <4>2
        <4> QED
          BY <4>1, <4>3, <4>4, <4>5, <4>6
      <3>3. new[k].from.k # 0
        <4>1. new[k].from.k = position + k
          BY <1>6, <3>1
        <4>2. k \in Nat /\ k # 0 /\ position \in Nat
          BY <1>1, <3>1
        <4> QED
          BY <4>1, <4>2
      <3>4. new[k].from.n = sent' => new[k].from.of = frame'
        <4>1. new[k].from.n = sent /\ new[k].from.of = frame
          BY <1>6, <3>1
        <4>2. sent + 1 # sent
          BY <1>1
        <4> QED
          BY <1>2, <4>1, <4>2
      <3>5. new[k].from.n = source.n => new[k].from.of = source.of
        BY <1>6, <1>8, <3>1
      <3>6. quiet' => Quiet(new[k].from.of)
        BY <1>2, <1>6, <1>8, <3>1
      <3>7. new[k].byte = BytesOf[new[k].from.of][new[k].from.k]
        BY <1>6, <3>1
      <3> QED
        BY <3>1, <3>2, <3>3, <3>4, <3>5, <3>6, <3>7 DEF InPlace, At, S
    <2> QED
      BY <2>1, <2>2
  <1>14. ASSUME NEW i \in 1..(L + c), NEW j \in 1..(L + c), i < j PROVE InOrder(i, j)'
    <2>1. CASE j \in 1..L
      <3>1. i \in 1..L
        BY <1>1, <1>14, <2>1
      <3>2. InOrder(i, j)
        BY <2>1, <3>1 DEF RingInv, L
      <3> QED
        BY <1>6, <2>1, <3>1, <3>2 DEF InOrder, At
    <2>2. CASE i \in 1..L /\ j \notin 1..L
      <3> DEFINE k == j - L
      <3>1. k \in 1..c /\ L + k = j /\ ring_buffer'[j] = new[k]
        BY <1>12, <2>2
      <3> HIDE DEF k
      <3>2. At(new[k].from) - at(i) >= j - i
        BY <1>1, <1>3, <1>11, <2>2, <3>1
      <3>3. from(i).n = new[k].from.n => from(i).of = new[k].from.of
        BY <1>6, <1>11, <2>2, <3>1
      <3> QED
        BY <1>6, <2>2, <3>1, <3>2, <3>3 DEF InOrder, At, at, from
    <2>3. CASE i \notin 1..L /\ j \notin 1..L
      <3> DEFINE k == i - L
                 m == j - L
      <3>1. /\ k \in 1..c /\ L + k = i /\ ring_buffer'[i] = new[k]
            /\ m \in 1..c /\ L + m = j /\ ring_buffer'[j] = new[m]
        BY <1>12, <2>3
      <3> HIDE DEF k, m
      <3>2. At(new[m].from) - At(new[k].from) >= j - i
        BY <1>1, <1>3, <3>1
      <3>3. new[k].from.of = new[m].from.of
        BY <1>6, <3>1
      <3> QED
        BY <3>1, <3>2, <3>3 DEF InOrder, At
    <2>4. i \notin 1..L => j \notin 1..L
      BY <1>1, <1>14
    <2> QED
      BY <2>1, <2>2, <2>3, <2>4
  <1>15. ASSUME NEW i \in 1..(L + c), NEW j \in 1..(L + c) PROVE InOrder(i, j)'
    <2>1. CASE i < j
      BY <1>14, <2>1
    <2>2. CASE ~(i < j)
      BY <2>2 DEF InOrder
    <2> QED
      BY <2>1, <2>2
  <1>16. RingInv'
    BY <1>6, <1>10, <1>13, <1>15 DEF RingInv
  <1> QED
    BY <1>7, <1>16

\* How RxReady and LoseByte store: a part of the line's next bytes.
LEMMA LineStored ==
  ASSUME ReceiverTypeOK,
         NEW c \in 0..(25 - position),
         ring_buffer' = ring_buffer \o
           [i \in 1..c |-> [byte |-> BytesOf[frame][position + i],
                            from |-> Here(position + i)]]
  PROVE  /\ ring_buffer' \in Seq(RingBytes)
         /\ \E new : Stored(new, c)
  <1> DEFINE new == [i \in 1..c |-> [byte |-> BytesOf[frame][position + i],
                                     from |-> Here(position + i)]]
  <1>1. /\ sent \in Nat /\ position \in 0..24 /\ frame \in Frames
        /\ ring_buffer \in Seq(RingBytes) /\ c \in Nat /\ c <= 25 - position
    BY ReceiverNumbers
  <1>2. ASSUME NEW i \in 1..c
        PROVE  /\ new[i] \in RingBytes
               /\ new[i].byte = BytesOf[frame][position + i]
               /\ new[i].from.n = sent /\ new[i].from.of = frame
               /\ new[i].from.k = position + i
    <2>1. position + i \in 1..25 /\ position + i \in 0..25
      BY <1>1
    <2>2. BytesOf[frame][position + i] \in Uint8
      BY <1>1, <2>1, FrameFacts
    <2>3. [of |-> frame, n |-> sent, k |-> position + i] \in Sources
      BY <1>1, <2>1, SbusNumbers DEF Sources
    <2>4. /\ new[i].byte = BytesOf[frame][position + i]
          /\ new[i].from = [of |-> frame, n |-> sent, k |-> position + i]
          /\ new[i] \in RingBytes
      BY <2>2, <2>3 DEF Here, RingBytes
    <2> QED
      BY <2>4
  <1>3. new \in [1..c -> RingBytes]
    BY <1>2
  <1>4. ring_buffer' = ring_buffer \o new
    OBVIOUS
  <1> HIDE DEF new
  <1>5. new \in Seq(RingBytes) /\ Len(new) = c
    BY <1>1, <1>3
  <1>6. /\ ring_buffer \o new \in Seq(RingBytes)
        /\ Len(ring_buffer \o new) = Len(ring_buffer) + c
        /\ \A i \in 1..Len(ring_buffer) : (ring_buffer \o new)[i] = ring_buffer[i]
        /\ \A i \in 1..c : (ring_buffer \o new)[Len(ring_buffer) + i] = new[i]
    <2>1. /\ ring_buffer \o new \in Seq(RingBytes)
          /\ Len(ring_buffer \o new) = Len(ring_buffer) + Len(new)
          /\ \A i \in 1..Len(ring_buffer) : (ring_buffer \o new)[i] = ring_buffer[i]
          /\ \A i \in 1..Len(new) : (ring_buffer \o new)[Len(ring_buffer) + i] = new[i]
      <3>1. ring_buffer \in Seq(RingBytes) /\ new \in Seq(RingBytes)
        BY <1>1, <1>5
      <3> QED
        BY <3>1, Joined
    <2> QED
      BY <1>5, <2>1
  <1>7. Stored(new, c)
    BY <1>2, <1>4, <1>6 DEF Stored
  <1> QED
    BY <1>4, <1>6, <1>7

\* The decoder's part of the invariant is about the bytes taken, not the line.
LEMMA DecoderStays ==
  ASSUME ReceiverTypeOK, DecoderInv,
         UNCHANGED <<decoder, source>>, Taken' = Taken,
         quiet' => quiet, lost' \in Nat, lost <= lost'
  PROVE  DecoderInv'
  <1>1. /\ decode_state' = decode_state /\ data' = data /\ source' = source
        /\ sbus_msg_buffer' = sbus_msg_buffer
    BY DEF decoder
  <1>2. lost \in Nat
    BY ReceiverNumbers
  <1>3. /\ Sure' => Sure
        /\ lost' = 0 => lost = 0
    BY <1>2 DEF Sure
  <1>4. \A m \in Nat : Began(m)' <=> Began(m)
    BY <1>1 DEF Began, At
  <1> QED
    BY <1>1, <1>3, <1>4 DEF DecoderInv

\* What the line does changes neither the thread nor the decoder.
LEMMA LineStep ==
  ASSUME ReceiverInv, sent < MaxFrames,
         NEW last \in (position + 1)..25, Advance(last),
         NEW c \in 0..(last - position), NEW new, Stored(new, c),
         ring_buffer' \in Seq(RingBytes), Len(ring_buffer) + c <= RingSize,
         lost' = lost + (last - position) - c,
         rx_sem' = 1 \/ (rx_sem' = rx_sem /\ ring_buffer' = ring_buffer),
         UNCHANGED <<receiver_pc, decoder, rc_data_msgq_out, source>>
  PROVE  ReceiverInv'
  <1>1. /\ sent \in Nat /\ position \in 0..24 /\ lost \in Nat
        /\ c \in Nat /\ c <= last - position
    BY ReceiverNumbers DEF ReceiverInv
  <1>2. lost' \in Nat /\ lost <= lost'
    BY <1>1
  <1>3. source' = source /\ rc_data_msgq_out' = rc_data_msgq_out /\ receiver_pc' = receiver_pc
    OBVIOUS
  <1>4. Taken' = Taken /\ RingInv'
    BY <1>3, LineRing DEF ReceiverInv
  <1>5. /\ frame' \in Frames /\ position' \in 0..24 /\ sent' \in 0..MaxFrames
        /\ quiet' \in BOOLEAN /\ (quiet' => quiet)
    BY Advanced DEF ReceiverInv
  <1>6. ReceiverTypeOK /\ DecoderInv /\ NoLostWakeup
    BY DEF ReceiverInv
  <1>7. DecoderInv'
    BY <1>2, <1>4, <1>5, <1>6, DecoderStays
  <1>8. ReceiverTypeOK'
    <2>1. /\ decode_state' = decode_state /\ data' = data
      BY DEF decoder
    <2>2. rx_sem' \in 0..1
      BY <1>6 DEF ReceiverTypeOK
    <2>3. Len(ring_buffer') <= RingSize
      BY DEF Stored
    <2> QED
      BY <1>2, <1>3, <1>5, <1>6, <2>1, <2>2, <2>3, SbusNumbers
      DEF ReceiverTypeOK, RingBytes
  <1>9. NoLostWakeup'
    BY <1>3, <1>6 DEF NoLostWakeup
  <1> QED
    BY <1>3, <1>4, <1>7, <1>8, <1>9 DEF ReceiverInv

LEMMA RxReadyKeeps ==
  ASSUME ReceiverInv, NEW n \in Chunks, RxReady(n)
  PROVE  ReceiverInv'
  <1> DEFINE last == IF position + n < 25 THEN position + n ELSE 25
             room == RingSize - Len(ring_buffer)
             c == IF last - position < room THEN last - position ELSE room
  <1>1. /\ position \in 0..24 /\ Len(ring_buffer) \in Nat /\ n \in 1..25
        /\ RingSize \in Nat /\ Len(ring_buffer) <= RingSize
    BY ReceiverNumbers, SbusNumbers, LineAssumption DEF ReceiverInv, ReceiverTypeOK
  <1>2. last \in (position + 1)..25 /\ room \in Nat
    BY <1>1
  <1>3. c \in 0..(last - position) /\ c \in 0..(25 - position) /\ Len(ring_buffer) + c <= RingSize
    <2> HIDE DEF last
    <2> QED
      BY <1>1, <1>2
  <1>4. /\ ring_buffer' = ring_buffer \o
             [i \in 1..c |-> [byte |-> BytesOf[frame][position + i],
                              from |-> Here(position + i)]]
    BY SbusNumbers DEF RxReady
  <1>8. /\ lost' = lost + (last - position) - c
        /\ Advance(last) /\ sent < MaxFrames /\ rx_sem' = 1
        /\ UNCHANGED <<receiver_pc, decoder, rc_data_msgq_out, source>>
    BY SbusNumbers DEF RxReady
  <1> HIDE DEF last, room, c
  <1>5. rx_sem \in 0..1 /\ ReceiverTypeOK
    BY DEF ReceiverInv, ReceiverTypeOK
  <1>6. /\ ring_buffer' \in Seq(RingBytes)
        /\ \E new : Stored(new, c)
    BY <1>3, <1>4, <1>5, LineStored
  <1>7. PICK new : Stored(new, c)
    BY <1>6
  <1> QED
    <2>1. /\ lost' = lost + (last - position) - c
          /\ Advance(last) /\ sent < MaxFrames
          /\ rx_sem' = 1 \/ (rx_sem' = rx_sem /\ ring_buffer' = ring_buffer)
          /\ UNCHANGED <<receiver_pc, decoder, rc_data_msgq_out, source>>
          /\ ring_buffer' \in Seq(RingBytes) /\ Len(ring_buffer) + c <= RingSize
      BY <1>3, <1>6, <1>8
    <2>2. last \in (position + 1)..25 /\ c \in 0..(last - position) /\ Stored(new, c)
      BY <1>2, <1>3, <1>7
    <2> QED
      BY <2>1, <2>2, LineStep

LEMMA LoseByteKeeps ==
  ASSUME ReceiverInv, LoseByte
  PROVE  ReceiverInv'
  <1>1. /\ position \in 0..24 /\ Len(ring_buffer) \in Nat /\ lost \in Nat
        /\ ring_buffer \in Seq(RingBytes) /\ Len(ring_buffer) <= RingSize
    BY ReceiverNumbers DEF ReceiverInv, ReceiverTypeOK
  <1>2. /\ sent < MaxFrames /\ Advance(position + 1)
        /\ ring_buffer' = ring_buffer /\ rx_sem' = rx_sem /\ lost' = lost + 1
        /\ UNCHANGED <<receiver_pc, decoder, rc_data_msgq_out, source>>
    BY DEF LoseByte
  <1>3. Stored(<< >>, 0)
    BY <1>1, <1>2 DEF Stored
  <1>4. /\ position + 1 \in (position + 1)..25 /\ 0 \in 0..((position + 1) - position)
        /\ lost' = lost + ((position + 1) - position) - 0
        /\ Len(ring_buffer) + 0 <= RingSize
    BY <1>1, <1>2
  <1>5. ring_buffer' \in Seq(RingBytes)
    BY <1>1, <1>2
  <1> QED
    BY <1>2, <1>3, <1>4, <1>5, LineStep

-----------------------------------------------------------------------------
\* The thread takes a byte.

LEMMA TakenRing ==
  ASSUME ReceiverTypeOK, RingInv, ring_buffer # << >>,
         source' = Head(ring_buffer).from, ring_buffer' = Tail(ring_buffer),
         UNCHANGED line
  PROVE  /\ ring_buffer' \in Seq(RingBytes) /\ Len(ring_buffer') = Len(ring_buffer) - 1
         /\ source' \in Sources /\ At(source) + 1 <= At(source')
         /\ Head(ring_buffer).byte = BytesOf[source'.of][source'.k]
         /\ Head(ring_buffer).byte \in Uint8
         /\ source'.k \in 1..25
         /\ source'.n = source.n => source'.of = source.of
         /\ quiet => Quiet(source'.of)
         /\ At(source') <= Taken + 1 + lost
         /\ Taken' = Taken + 1 /\ RingInv'
  <1> DEFINE L == Len(ring_buffer)
             e == ring_buffer[1].from
             from(i) == ring_buffer[i].from
             at(i) == At(from(i))
  <1>1. /\ lost \in Nat /\ L \in Nat /\ OnLine \in Nat
        /\ ring_buffer \in Seq(RingBytes) /\ source \in Sources
        /\ \A i \in 1..L : ring_buffer[i] \in RingBytes
    BY ReceiverNumbers
  <1>2. /\ L > 0 /\ Head(ring_buffer) = ring_buffer[1]
        /\ Tail(ring_buffer) \in Seq(RingBytes) /\ Len(Tail(ring_buffer)) = L - 1
        /\ \A i \in 1..(L - 1) : Tail(ring_buffer)[i] = ring_buffer[i + 1]
    BY <1>1
  <1>3. /\ ring_buffer' \in Seq(RingBytes) /\ Len(ring_buffer') = L - 1
        /\ \A i \in 1..(L - 1) : ring_buffer'[i] = ring_buffer[i + 1]
        /\ source' = e /\ Head(ring_buffer).byte = ring_buffer[1].byte
    BY <1>2
  <1>4. /\ frame' = frame /\ position' = position /\ sent' = sent /\ lost' = lost
        /\ quiet' = quiet
    BY DEF line
  <1>5. 1 \in 1..L
    BY <1>1, <1>2
  <1>6. InPlace(1) /\ ring_buffer[1] \in RingBytes
    BY <1>1, <1>5 DEF RingInv
  <1>7. /\ e \in Sources /\ ring_buffer[1].byte \in Uint8
        /\ At(e) \in Nat /\ At(source) \in Nat /\ e.k \in 0..25
    BY <1>1, <1>6, RingNumbers, SourceNumbers
  <1> HIDE DEF L, e, from, at
  <1>8. /\ ring_buffer[1].byte = BytesOf[e.of][e.k] /\ e.k # 0
        /\ At(source) + 1 <= At(e) /\ At(e) <= OnLine - (L - 1)
        /\ e.n = sent => e.of = frame
        /\ e.n = source.n => e.of = source.of
        /\ quiet => Quiet(e.of)
    BY <1>6 DEF InPlace, L, e
  <1>9. /\ 0 <= Taken /\ Taken <= At(source) /\ At(source) <= OnLine - L
        /\ quiet => Quiet(frame)
        /\ Taken = OnLine - lost - L
    BY DEF RingInv, SourceInPlace, L, Taken
  <1>10. OnLine' = OnLine
    BY <1>4 DEF OnLine
  <1>11. Taken' = Taken + 1
    <2>1. Taken' = OnLine' - lost' - Len(ring_buffer')
      BY DEF Taken
    <2> QED
      BY <1>1, <1>3, <1>4, <1>9, <1>10, <2>1
  <1>12. SourceInPlace'
    <2>1. /\ 0 <= Taken + 1 /\ Taken + 1 <= At(e)
          /\ At(e) <= OnLine - (L - 1)
      BY <1>1, <1>7, <1>8, <1>9
    <2> QED
      BY <1>3, <1>4, <1>8, <1>9, <1>10, <1>11, <2>1 DEF SourceInPlace, At
  <1>13. ASSUME NEW i \in 1..(L - 1) PROVE InPlace(i)'
    <2>1. i + 1 \in 1..L /\ 1 < i + 1 /\ i \in Nat
      BY <1>1
    <2>2. InPlace(i + 1) /\ InOrder(1, i + 1) /\ ring_buffer[i + 1] \in RingBytes
      BY <1>1, <1>5, <2>1 DEF RingInv, L
    <2>3. at(i + 1) \in Nat
      BY <2>2, RingNumbers, SourceNumbers DEF at, from
    <2>4. /\ at(i + 1) - At(e) >= (i + 1) - 1
          /\ e.n = from(i + 1).n => e.of = from(i + 1).of
      BY <2>1, <2>2 DEF InOrder, at, from, e
    <2>5. /\ ring_buffer[i + 1].byte = BytesOf[from(i + 1).of][from(i + 1).k]
          /\ from(i + 1).k # 0 /\ at(i + 1) <= OnLine - (L - (i + 1))
          /\ from(i + 1).n = sent => from(i + 1).of = frame
          /\ quiet => Quiet(from(i + 1).of)
      BY <2>2 DEF InPlace, at, from, L
    <2>6. At(e) + i <= at(i + 1) /\ at(i + 1) <= OnLine - ((L - 1) - i)
      BY <1>1, <1>7, <2>1, <2>3, <2>4, <2>5
    <2>7. ring_buffer'[i] = ring_buffer[i + 1]
      BY <1>3
    <2> QED
      BY <1>3, <1>4, <1>10, <2>4, <2>5, <2>6, <2>7 DEF InPlace, At, at, from
  <1>14. ASSUME NEW i \in 1..(L - 1), NEW j \in 1..(L - 1) PROVE InOrder(i, j)'
    <2>1. i + 1 \in 1..L /\ j + 1 \in 1..L /\ (i < j => i + 1 < j + 1)
          /\ (j + 1) - (i + 1) = j - i
      BY <1>1
    <2>2. InOrder(i + 1, j + 1)
      BY <2>1 DEF RingInv, L
    <2>3. ring_buffer'[i] = ring_buffer[i + 1] /\ ring_buffer'[j] = ring_buffer[j + 1]
      BY <1>3
    <2> QED
      BY <2>1, <2>2, <2>3 DEF InOrder, At
  <1>15. RingInv'
    BY <1>3, <1>12, <1>13, <1>14 DEF RingInv
  <1>16. e.k \in 1..25 /\ At(e) <= Taken + 1 + lost
    BY <1>1, <1>7, <1>8, <1>9
  <1> QED
    BY <1>3, <1>7, <1>8, <1>11, <1>15, <1>16 DEF L

\* Bytes are not mistaken for others: a byte of a quiet frame looks like a head only
\* if it is the first, and like a tail only if it is the last.
LEMMA LooksLike ==
  ASSUME NEW f \in Frames, NEW k \in 1..25, Quiet(f)
  PROVE  /\ BytesOf[f][k] = 15 => k = 1
         /\ BytesOf[f][k] = 0 => k = 25
  <1>1. BytesOf[f][1] = 15 /\ BytesOf[f][25] = 0
    BY FrameFacts
  <1>2. \A i \in 2..24 : BytesOf[f][i] # 15 /\ BytesOf[f][i] # 0
    BY SbusNumbers DEF Quiet
  <1>3. k = 1 \/ k = 25 \/ k \in 2..24
    OBVIOUS
  <1> QED
    BY <1>1, <1>2, <1>3

\* The place of a byte that is taken after the place s, when the decoder began with
\* the head of frame m.
LEMMA LastPlace ==
  ASSUME NEW n \in Nat, NEW m \in Nat, NEW s \in Nat, NEW t \in Int, NEW l \in Nat,
         s + 1 <= 25 * n + 25, 25 * m + 24 <= s, t - 23 <= 25 * m + 1, l < 25,
         25 * n + 25 <= t + 1 + l
  PROVE  n = m
  OBVIOUS

LEMMA LastOfAll ==
  ASSUME NEW n \in Nat, NEW k \in 1..25, NEW m \in Nat, NEW s \in Nat, NEW t \in Int,
         s + 1 <= 25 * n + k, 25 * m + 24 <= s, t - 23 <= 25 * m + 1, t <= s,
         25 * n + k <= t + 1
  PROVE  k = 25
  OBVIOUS

LEMMA FirstOfAll ==
  ASSUME NEW n \in Nat, NEW k \in 1..25, NEW i \in Nat, NEW j \in {0, 25}, NEW t \in Int,
         (25 * i + j) + 1 <= 25 * n + k, t <= 25 * i + j, 25 * n + k <= t + 1
  PROVE  k = 1
  OBVIOUS

\* Decoding leaves the decoder typed, and every message it sends is one.
LEMMA DecodeType ==
  ASSUME ReceiverInv, NEW ch \in Uint8,
         SbusDecode(ch)
  PROVE  /\ decode_state' \in {"WAIT_FOR_SOF", "WAIT_FOR_PAYLOAD", "WAIT_FOR_EOF"}
         /\ data' \in Seq(Uint8) /\ Len(data') <= 25
         /\ rc_data_msgq_out' \in Seq(Messages) /\ Len(rc_data_msgq_out') <= RcDepth
  <1>1. /\ data \in Seq(Uint8) /\ Len(data) \in Nat
        /\ decode_state \in {"WAIT_FOR_SOF", "WAIT_FOR_PAYLOAD", "WAIT_FOR_EOF"}
        /\ rc_data_msgq_out \in Seq(Messages) /\ Len(rc_data_msgq_out) <= RcDepth
        /\ RcDepth \in Nat \ {0}
    BY ReceiverNumbers, LineAssumption DEF ReceiverInv, ReceiverTypeOK
  <1>2. /\ decode_state = "WAIT_FOR_SOF" => Len(data) \in {0, 24, 25}
        /\ decode_state = "WAIT_FOR_PAYLOAD" => Len(data) \in 1..23
        /\ decode_state = "WAIT_FOR_EOF" => Len(data) = 24
    BY DEF ReceiverInv, DecoderInv
  <1>3. /\ Append(data, ch) \in Seq(Uint8)
        /\ Len(Append(data, ch)) = Len(data) + 1
        /\ <<ch>> \in Seq(Uint8) /\ << >> \in Seq(Uint8)
        /\ Len(<<ch>>) = 1 /\ Len(<< >>) = 0
    BY <1>1
  <1>4. CASE decode_state = "WAIT_FOR_SOF"
    <2>1. /\ data' = <<ch>> \/ data' = << >>
          /\ decode_state' \in {"WAIT_FOR_SOF", "WAIT_FOR_PAYLOAD"}
          /\ rc_data_msgq_out' = rc_data_msgq_out
      BY <1>4 DEF SbusDecode
    <2>2. data' \in Seq(Uint8) /\ Len(data') <= 25
      <3>1. CASE data' = <<ch>>
        BY <1>3, <3>1
      <3>2. CASE data' = << >>
        BY <1>3, <3>2
      <3> QED
        BY <2>1, <3>1, <3>2
    <2> QED
      BY <1>1, <2>1, <2>2
  <1>5. CASE decode_state = "WAIT_FOR_PAYLOAD"
    <2>1. /\ data' = Append(data, ch) /\ rc_data_msgq_out' = rc_data_msgq_out
          /\ decode_state' \in {"WAIT_FOR_EOF", "WAIT_FOR_PAYLOAD"}
      BY <1>5 DEF SbusDecode
    <2> QED
      <3>1. Len(data') = Len(data) + 1 /\ data' \in Seq(Uint8)
        BY <1>3, <2>1
      <3>2. Len(data) \in 1..23
        BY <1>2, <1>5
      <3> QED
        <4>1. Len(data') <= 25
          <5>1. Len(data') = Len(data) + 1
            BY <3>1
          <5>2. \A n \in 1..23 : n \in Nat /\ n <= 23
            OBVIOUS
          <5>3. Len(data) \in Nat /\ Len(data) <= 23
            BY <3>2, <5>2
          <5> QED
            BY <5>1, <5>3
        <4>2. decode_state' \in {"WAIT_FOR_SOF", "WAIT_FOR_PAYLOAD", "WAIT_FOR_EOF"}
          BY <2>1
        <4> QED
          BY <1>1, <2>1, <3>1, <4>1, <4>2
  <1>6. CASE decode_state = "WAIT_FOR_EOF"
    <2>1. CASE FrameEnds(ch)
      <3> DEFINE m == ReceiverData(SbusBuildMessage(data'))
      <3>1. /\ data' = Append(data, ch) /\ decode_state' = "WAIT_FOR_SOF"
            /\ rc_data_msgq_out' = Overwrite(rc_data_msgq_out, m, RcDepth)
        BY <1>6, <2>1 DEF SbusDecode
      <3>2. data' \in Seq(Uint8) /\ Len(data') <= 25
        <4>1. Len(data') = Len(data) + 1 /\ data' \in Seq(Uint8)
          BY <1>3, <3>1
        <4>2. Len(data) = 24
          BY <1>2, <1>6
        <4> QED
          BY <4>1, <4>2
      <3>3. m \in Messages
        BY <3>2 DEF Messages
      <3>4. rc_data_msgq_out' = Overwrite(rc_data_msgq_out, m, RcDepth)
        BY <3>1
      <3> HIDE DEF m
      <3>5. rc_data_msgq_out' \in Seq(Messages) /\ Len(rc_data_msgq_out') <= RcDepth
        BY <1>1, <3>3, <3>4, OverwriteFits
      <3> QED
        BY <3>1, <3>2, <3>5
    <2>2. CASE ~FrameEnds(ch)
      <3>1. data' = data /\ decode_state' = "WAIT_FOR_SOF" /\ rc_data_msgq_out' = rc_data_msgq_out
        BY <1>6, <2>2 DEF SbusDecode
      <3>2. Len(data) = 24
        BY <1>2, <1>6
      <3> QED
        BY <1>1, <3>1, <3>2
    <2> QED
      BY <2>1, <2>2
  <1> QED
    BY <1>1, <1>4, <1>5, <1>6

\* Where the byte is from that is decoded, and what it says: the facts that the
\* three states of the decoder use.
TakenByte(ch) ==
  /\ source' \in Sources /\ source'.k \in 1..25
  /\ At(source) + 1 <= At(source') /\ At(source') <= Taken + 1 + lost
  /\ ch = BytesOf[source'.of][source'.k] /\ ch \in Uint8
  /\ source'.n = source.n => source'.of = source.of
  /\ quiet => Quiet(source'.of)
  /\ Taken' = Taken + 1 /\ Taken <= At(source)
  /\ UNCHANGED line

LEMMA TakenNumbers ==
  ASSUME ReceiverTypeOK, NEW ch, TakenByte(ch)
  PROVE  /\ source'.n \in Nat /\ source.n \in Nat /\ source.k \in 0..25
         /\ At(source') = 25 * source'.n + source'.k
         /\ At(source) = 25 * source.n + source.k
         /\ At(source) \in Nat /\ At(source') \in Nat
         /\ source'.of \in Frames /\ source.of \in Frames
         /\ Taken \in Int /\ lost \in Nat /\ lost' = lost /\ quiet' = quiet
         /\ Sure' <=> Sure
  <1>1. source \in Sources /\ Taken \in Int /\ lost \in Nat
    BY ReceiverNumbers
  <1>2. source' \in Sources
    BY DEF TakenByte
  <1>3. lost' = lost /\ quiet' = quiet
    BY DEF TakenByte, line
  <1>4. /\ source.n \in Nat /\ source.k \in 0..25 /\ source.of \in Frames
        /\ At(source) \in Nat /\ At(source) = 25 * source.n + source.k
    BY <1>1, SourceNumbers
  <1>5. /\ source'.n \in Nat /\ source'.of \in Frames
        /\ At(source') \in Nat /\ At(source') = 25 * source'.n + source'.k
    BY <1>2, SourceNumbers
  <1> QED
    BY <1>1, <1>3, <1>4, <1>5 DEF Sure

\* A byte that looks like a tail when 24 bytes are there, of a sure stream, is the
\* tail of the frame the decoder began with; and without loss such a byte it is.
LEMMA TailTaken ==
  ASSUME ReceiverInv, NEW ch, TakenByte(ch), Sure,
         decode_state = "WAIT_FOR_EOF", lost = 0 \/ ch = 0
  PROVE  /\ source'.k = 25 /\ ch = 0
         /\ \A j \in 1..24 : data[j] = BytesOf[source'.of][j]
  <1> DEFINE e == source'
             s == At(source)
  <1>1. ReceiverTypeOK /\ Len(data) = 24
    BY DEF ReceiverInv, DecoderInv
  <1>2. /\ e.n \in Nat /\ source.n \in Nat /\ At(e) = 25 * e.n + e.k /\ s \in Nat
        /\ Taken \in Int /\ lost \in Nat /\ e.of \in Frames
    BY <1>1, TakenNumbers
  <1>3. /\ e.k \in 1..25 /\ s + 1 <= At(e) /\ At(e) <= Taken + 1 + lost
        /\ ch = BytesOf[e.of][e.k] /\ (quiet => Quiet(e.of))
        /\ (e.n = source.n => e.of = source.of) /\ Taken <= s
    BY DEF TakenByte
  <1>4. PICK m \in Nat : Began(m)
    BY DEF ReceiverInv, DecoderInv
  <1>5. /\ Taken - 23 <= 25 * m + 1 /\ 25 * m + 24 <= s
        /\ s = 25 * m + 24 => source.n = m
        /\ s = 25 * m + 24 => \A j \in 1..24 : data[j] = BytesOf[source.of][j]
    BY <1>1, <1>4 DEF Began
  <1> HIDE DEF e, s
  <1>6. e.k = 25
    <2>1. CASE lost = 0
      <3>1. /\ s + 1 <= 25 * e.n + e.k /\ 25 * e.n + e.k <= Taken + 1
        BY <1>2, <1>3, <2>1
      <3> QED
        BY <1>2, <1>3, <1>5, <3>1, LastOfAll
    <2>2. CASE lost # 0
      <3>1. quiet /\ ch = 0
        BY <2>2 DEF Sure
      <3> QED
        BY <1>2, <1>3, <3>1, LooksLike
    <2> QED
      BY <2>1, <2>2
  <1>7. ch = 0
    BY <1>2, <1>3, <1>6, FrameFacts
  <1>8. e.n = m /\ s = 25 * m + 24
    <2>1. lost < 25
      BY DEF Sure
    <2>2. /\ s + 1 <= 25 * e.n + 25 /\ 25 * e.n + 25 <= Taken + 1 + lost
      BY <1>2, <1>3, <1>6
    <2>3. e.n = m
      BY <1>2, <1>5, <2>1, <2>2, LastPlace
    <2> QED
      BY <1>2, <1>5, <2>2, <2>3
  <1>9. e.of = source.of
    BY <1>3, <1>5, <1>8
  <1> QED
    BY <1>5, <1>6, <1>7, <1>8, <1>9 DEF e

\* The first byte of a message that looks like a head, of a sure stream, is the head
\* of a frame; and without loss it is one.
LEMMA HeadTaken ==
  ASSUME ReceiverInv, NEW ch, TakenByte(ch), Sure,
         decode_state = "WAIT_FOR_SOF", lost = 0 \/ ch = 15
  PROVE  source'.k = 1 /\ ch = 15
  <1> DEFINE e == source'
             s == At(source)
  <1>1. ReceiverTypeOK /\ (lost = 0 => source.k \in {0, 25})
    BY DEF ReceiverInv, DecoderInv
  <1>2. /\ e.n \in Nat /\ source.n \in Nat /\ At(e) = 25 * e.n + e.k
        /\ s = 25 * source.n + source.k
        /\ Taken \in Int /\ lost \in Nat /\ e.of \in Frames
    BY <1>1, TakenNumbers
  <1>3. /\ e.k \in 1..25 /\ s + 1 <= At(e) /\ At(e) <= Taken + 1 + lost
        /\ ch = BytesOf[e.of][e.k] /\ (quiet => Quiet(e.of))
        /\ Taken <= s
    BY DEF TakenByte
  <1> HIDE DEF e, s
  <1>4. e.k = 1
    <2>1. CASE lost = 0
      <3>1. /\ (25 * source.n + source.k) + 1 <= 25 * e.n + e.k
            /\ Taken <= 25 * source.n + source.k
            /\ 25 * e.n + e.k <= Taken + 1
        BY <1>2, <1>3, <2>1
      <3> QED
        BY <1>1, <1>2, <1>3, <2>1, <3>1, FirstOfAll
    <2>2. CASE lost # 0
      <3>1. quiet /\ ch = 15
        BY <2>2 DEF Sure
      <3> QED
        BY <1>2, <1>3, <3>1, LooksLike
    <2> QED
      BY <2>1, <2>2
  <1> QED
    BY <1>2, <1>3, <1>4, FrameFacts DEF e

\* What the decoder has of a frame grows by the frame's next byte, or is not the
\* beginning of a frame any more.
Grows(ch) == Len(data) \in 1..23 /\ data' = Append(data, ch)

LEMMA BeganGrows ==
  ASSUME ReceiverInv, NEW ch, TakenByte(ch),
         Grows(ch), NEW m \in Nat, Began(m)
  PROVE  Began(m)'
  <1> DEFINE e == source'
             s == At(source)
             c == Len(data)
  <1>1. ReceiverTypeOK /\ data \in Seq(Uint8)
    BY ReceiverNumbers DEF ReceiverInv
  <1>2. /\ e.n \in Nat /\ source.n \in Nat /\ At(e) = 25 * e.n + e.k /\ s \in Nat
        /\ At(e) \in Nat /\ Taken \in Int
    BY <1>1, TakenNumbers
  <1>3. /\ e.k \in 1..25 /\ s + 1 <= At(e) /\ Taken' = Taken + 1
        /\ ch = BytesOf[e.of][e.k] /\ ch \in Uint8
        /\ (e.n = source.n => e.of = source.of)
    BY DEF TakenByte
  <1>4. /\ Len(data') = c + 1 /\ data'[c + 1] = ch
        /\ \A j \in 1..c : data'[j] = data[j]
    BY <1>1, <1>3 DEF Grows
  <1>5. /\ Taken - (c - 1) <= 25 * m + 1 /\ 25 * m + c <= s
        /\ s = 25 * m + c => source.n = m
        /\ s = 25 * m + c => \A j \in 1..c : data[j] = BytesOf[source.of][j]
    BY DEF Began
  <1>6. c \in 1..23 /\ c \in 1..24 /\ c \in Nat
    <2>1. \A i \in 1..23 : i \in 1..24 /\ i \in Nat
      OBVIOUS
    <2> QED
      BY <2>1 DEF Grows
  <1> HIDE DEF e, s, c
  <1>7. /\ Taken' - (Len(data') - 1) <= 25 * m + 1
        /\ 25 * m + Len(data') <= At(e)
    <2>1. Taken' - (Len(data') - 1) = Taken - (c - 1)
      BY <1>2, <1>3, <1>4, <1>6
    <2>2. 25 * m + (c + 1) <= At(e)
      BY <1>2, <1>3, <1>5, <1>6
    <2> QED
      BY <1>4, <1>5, <2>1, <2>2
  <1>8. ASSUME At(e) = 25 * m + Len(data')
        PROVE  /\ e.n = m
               /\ \A j \in 1..Len(data') : data'[j] = BytesOf[e.of][j]
    <2>1. 25 * e.n + e.k = 25 * m + (c + 1) /\ s + 1 <= 25 * e.n + e.k
      BY <1>2, <1>3, <1>4, <1>8
    <2>2. e.n = m /\ e.k = c + 1 /\ s = 25 * m + c
      <3>1. /\ e.n \in Nat /\ e.k \in 1..25 /\ s \in Nat /\ c \in 1..24
            /\ 25 * m + c <= s
        BY <1>2, <1>3, <1>5, <1>6
      <3> QED
        BY <2>1, <3>1
    <2>3. /\ e.of = source.of
          /\ \A j \in 1..c : data'[j] = BytesOf[e.of][j]
      BY <1>3, <1>4, <1>5, <2>2
    <2>4. data'[c + 1] = BytesOf[e.of][c + 1]
      BY <1>3, <1>4, <2>2
    <2>5. \A j \in 1..(c + 1) : j \in 1..c \/ j = c + 1
      BY <1>6
    <2> QED
      BY <1>4, <2>2, <2>3, <2>4, <2>5
  <1> QED
    BY <1>7, <1>8 DEF Began, At, e

LEMMA DecodeKeeps ==
  ASSUME ReceiverInv, NEW ch, TakenByte(ch),
         SbusDecode(ch)
  PROVE  DecoderInv'
  <1>1. /\ ReceiverTypeOK /\ DecoderInv /\ data \in Seq(Uint8)
        /\ Len(data) \in Nat /\ ch \in Uint8
    BY ReceiverNumbers DEF ReceiverInv, TakenByte
  <1>2. /\ lost \in Nat /\ lost' = lost /\ (Sure' <=> Sure)
        /\ source'.n \in Nat /\ source'.of \in Frames
        /\ At(source') = 25 * source'.n + source'.k /\ Taken \in Int
        /\ At(source) \in Nat /\ At(source') \in Nat
    BY <1>1, TakenNumbers
  <1>3. /\ Taken' = Taken + 1 /\ Taken <= At(source) /\ At(source) + 1 <= At(source')
        /\ ch = BytesOf[source'.of][source'.k]
    BY DEF TakenByte
  <1>4. lost = 0 => Sure
    BY DEF Sure
  <1>5. CASE decode_state = "WAIT_FOR_SOF"
    <2>1. CASE ch = 15
      <3>1. decode_state' = "WAIT_FOR_PAYLOAD" /\ data' = <<ch>>
        BY <1>5, <2>1, SbusNumbers DEF SbusDecode
      <3>2. Len(data') = 1 /\ data'[1] = ch
        BY <3>1
      <3>3. ASSUME Sure, NEW m \in Nat, m = source'.n PROVE Began(m)'
        <4>1. source'.k = 1
          BY <1>5, <2>1, <3>3, HeadTaken
        <4>2. /\ Taken' - (1 - 1) <= 25 * m + 1
              /\ 25 * m + 1 <= At(source')
          BY <1>2, <1>3, <3>3, <4>1
        <4>3. data'[1] = BytesOf[source'.of][1]
          BY <1>3, <3>2, <4>1
        <4>4. \A j \in 1..Len(data') : data'[j] = BytesOf[source'.of][j]
          BY <3>2, <4>3
        <4> QED
          BY <3>2, <3>3, <4>2, <4>4 DEF Began, At
      <3>4. Sure' => \E m \in Nat : Began(m)'
        BY <1>2, <3>3
      <3> QED
        BY <3>1, <3>2, <3>4 DEF DecoderInv
    <2>2. CASE ch # 15
      <3>1. decode_state' = "WAIT_FOR_SOF" /\ data' = << >>
        BY <1>5, <2>2, SbusNumbers DEF SbusDecode
      <3>2. Len(data') = 0
        BY <3>1
      <3>3. lost # 0
        BY <1>4, <1>5, <2>2, HeadTaken
      <3> QED
        BY <1>2, <3>1, <3>2, <3>3 DEF DecoderInv
    <2> QED
      BY <2>1, <2>2
  <1>6. CASE decode_state = "WAIT_FOR_PAYLOAD"
    <2>1. /\ data' = Append(data, ch)
          /\ decode_state' = IF Len(data') = 24 THEN "WAIT_FOR_EOF" ELSE decode_state
      <3>1. /\ data' = Append(data, ch)
            /\ decode_state' = IF PayloadEnds(Len(data'))
                               THEN "WAIT_FOR_EOF" ELSE decode_state
        BY <1>6 DEF SbusDecode
      <3>2. PayloadEnds(Len(data')) <=> Len(data') = 24
        BY SbusNumbers DEF PayloadEnds
      <3> QED
        BY <3>1, <3>2
    <2>2. Len(data) \in 1..23
      BY <1>1, <1>6 DEF DecoderInv
    <2>3. Len(data') = Len(data) + 1
      BY <1>1, <2>1
    <2>4. /\ decode_state' = "WAIT_FOR_PAYLOAD" => Len(data') \in 1..23
          /\ decode_state' = "WAIT_FOR_EOF" => Len(data') = 24
          /\ decode_state' # "WAIT_FOR_SOF" /\ Len(data') # 25
      <3>1. \A n \in 1..23 : n + 1 # 25 /\ (n + 1 # 24 => n + 1 \in 1..23)
        OBVIOUS
      <3>2. Len(data') # 25 /\ (Len(data') # 24 => Len(data') \in 1..23)
        BY <2>2, <2>3, <3>1
      <3> QED
        BY <1>6, <2>1, <3>2
    <2>5. Sure => \E m \in Nat : Began(m)
      BY <1>1, <1>6 DEF DecoderInv
    <2>6. Sure' => \E m \in Nat : Began(m)'
      BY <1>2, <2>1, <2>2, <2>5, BeganGrows DEF Grows
    <2> QED
      BY <2>4, <2>6 DEF DecoderInv
  <1>7. CASE decode_state = "WAIT_FOR_EOF"
    <2>1. Len(data) = 24 /\ decode_state' = "WAIT_FOR_SOF"
      BY <1>1, <1>7 DEF DecoderInv, SbusDecode
    <2>2. lost = 0 => source'.k = 25 /\ ch = 0
      BY <1>4, <1>7, TailTaken
    <2>3. CASE ch = 0
      <3>1. /\ data' = Append(data, ch)
            /\ sbus_msg_buffer' = SbusBuildMessage(data')
        BY <1>7, <2>3, SbusNumbers DEF SbusDecode, FrameEnds
      <3>2. /\ Len(data') = 25 /\ data'[25] = 0
            /\ \A j \in 1..24 : data'[j] = data[j]
        <4>1. /\ Len(Append(data, ch)) = Len(data) + 1
              /\ Append(data, ch)[Len(data) + 1] = ch
              /\ \A j \in 1..Len(data) : Append(data, ch)[j] = data[j]
          BY <1>1
        <4> QED
          <5>1. Len(data) = 24 /\ Len(data) + 1 = 25
            BY <2>1
          <5>2. Len(data') = 25 /\ data'[25] = ch
            BY <3>1, <4>1, <5>1
          <5>3. \A j \in 1..24 : data'[j] = data[j]
            BY <3>1, <4>1, <5>1
          <5> QED
            BY <2>3, <5>2, <5>3
      <3>3. ASSUME Sure PROVE sbus_msg_buffer' = MessageOf(source'.of)
        <4>1. \A j \in 1..24 : data'[j] = BytesOf[source'.of][j]
          BY <1>7, <2>3, <3>2, <3>3, TailTaken
        <4>2. /\ source'.of \in SbusFrames
              /\ BytesOf[source'.of][25] = 0
              /\ \A k \in 1..25 :
                   BytesOf[source'.of][k] = FrameBytes(source'.of)[k]
          BY <1>2, FrameFacts
        <4>3. \A k \in 1..25 : k \in 1..24 \/ k = 25
          OBVIOUS
        <4>4. \A k \in 1..25 : data'[k] = FrameBytes(source'.of)[k]
          BY <3>2, <4>1, <4>2, <4>3
        <4> QED
          BY <3>1, <4>2, <4>4, Decoded
      <3>4. Sure' => sbus_msg_buffer' = MessageOf(source'.of)
        BY <1>2, <3>3
      <3> QED
        BY <1>2, <2>1, <2>2, <3>2, <3>4 DEF DecoderInv
    <2>4. CASE ch # 0
      <3>1. data' = data
        BY <1>7, <2>4, SbusNumbers DEF SbusDecode, FrameEnds
      <3>2. lost # 0
        BY <2>2, <2>4
      <3> QED
        BY <1>2, <2>1, <3>1, <3>2 DEF DecoderInv
    <2> QED
      BY <2>3, <2>4
  <1>8. decode_state \in {"WAIT_FOR_SOF", "WAIT_FOR_PAYLOAD", "WAIT_FOR_EOF"}
    BY <1>1 DEF ReceiverTypeOK
  <1> QED
    BY <1>5, <1>6, <1>7, <1>8

LEMMA ProcessByteKeeps ==
  ASSUME ReceiverInv, ProcessByte
  PROVE  ReceiverInv'
  <1> DEFINE ch == Head(ring_buffer).byte
  <1>1. /\ receiver_pc = "drain" /\ ring_buffer # << >> /\ SbusDecode(ch)
        /\ source' = Head(ring_buffer).from /\ ring_buffer' = Tail(ring_buffer)
        /\ UNCHANGED line /\ rx_sem' = rx_sem /\ receiver_pc' = receiver_pc
    BY DEF ProcessByte
  <1>2. ReceiverTypeOK /\ RingInv
    BY DEF ReceiverInv
  <1>3. /\ ring_buffer' \in Seq(RingBytes) /\ Len(ring_buffer') = Len(ring_buffer) - 1
        /\ RingInv'
    BY <1>1, <1>2, TakenRing
  <1>4. TakenByte(ch)
    <2>1. Taken <= At(source)
      BY <1>2 DEF RingInv, SourceInPlace
    <2> QED
      BY <1>1, <1>2, <2>1, TakenRing DEF TakenByte
  <1> HIDE DEF ch
  <1>5. DecoderInv'
    BY <1>1, <1>4, DecodeKeeps
  <1>6. /\ decode_state' \in {"WAIT_FOR_SOF", "WAIT_FOR_PAYLOAD", "WAIT_FOR_EOF"}
        /\ data' \in Seq(Uint8) /\ Len(data') <= 25
        /\ rc_data_msgq_out' \in Seq(Messages) /\ Len(rc_data_msgq_out') <= RcDepth
    BY <1>1, <1>4, DecodeType DEF TakenByte
  <1>7. ReceiverTypeOK'
    <2>1. Len(ring_buffer') <= RingSize
      <3>1. Len(ring_buffer) \in Nat /\ Len(ring_buffer) <= RingSize /\ RingSize \in Nat
        BY <1>2, ReceiverNumbers, LineAssumption DEF ReceiverTypeOK
      <3> QED
        BY <1>3, <3>1
    <2>2. source' \in Sources
      BY <1>4 DEF TakenByte
    <2>3. /\ frame' = frame /\ position' = position /\ sent' = sent /\ lost' = lost
          /\ quiet' = quiet
      BY <1>1 DEF line
    <2> QED
      BY <1>1, <1>2, <1>3, <1>6, <2>1, <2>2, <2>3, SbusNumbers
      DEF ReceiverTypeOK, RingBytes
  <1>8. NoLostWakeup'
    BY <1>1 DEF NoLostWakeup
  <1> QED
    BY <1>3, <1>5, <1>6, <1>7, <1>8 DEF ReceiverInv

-----------------------------------------------------------------------------

LEMMA ReceiverSteps ==
  ASSUME ReceiverInv, [ReceiverNext]_receiverVars
  PROVE  ReceiverInv'
  <1>1. /\ ReceiverTypeOK /\ RingInv /\ DecoderInv /\ NoLostWakeup
        /\ rc_data_msgq_out \in Seq(Messages)
    BY DEF ReceiverInv
  \* Neither the bytes nor the decoder are concerned.
  <1>2. ASSUME UNCHANGED <<line, ring_buffer, decoder, source>>
        PROVE  RingInv' /\ DecoderInv'
    <2>1. /\ frame' = frame /\ position' = position /\ sent' = sent /\ lost' = lost
          /\ quiet' = quiet /\ ring_buffer' = ring_buffer /\ source' = source
      BY <1>2 DEF line
    <2>2. OnLine' = OnLine /\ Taken' = Taken
      BY <2>1 DEF OnLine, Taken
    <2>3. \A i \in 1..Len(ring_buffer) : InPlace(i)'
      BY <1>1, <2>1, <2>2 DEF RingInv, InPlace, At
    <2>4. \A i, j \in 1..Len(ring_buffer) : InOrder(i, j)'
      BY <1>1, <2>1, <2>2 DEF RingInv, InOrder, At
    <2>5. SourceInPlace'
      BY <1>1, <2>1, <2>2 DEF RingInv, SourceInPlace, At
    <2>6. lost \in Nat
      BY <1>1, ReceiverNumbers
    <2>7. DecoderInv'
      <3>1. UNCHANGED <<decoder, source>> /\ lost' \in Nat /\ lost <= lost'
        BY <1>2, <2>1, <2>6
      <3> QED
        BY <1>1, <2>1, <2>2, <3>1, DecoderStays
    <2> QED
      BY <2>1, <2>3, <2>4, <2>5, <2>7 DEF RingInv
  <1>3. CASE \E n \in Chunks : RxReady(n)
    BY <1>3, RxReadyKeeps
  <1>4. CASE LoseByte
    BY <1>4, LoseByteKeeps
  <1>5. CASE TakeSem
    <2>1. /\ rx_sem' = 0 /\ receiver_pc' = "drain" /\ rc_data_msgq_out' = rc_data_msgq_out
          /\ UNCHANGED <<line, ring_buffer, decoder, source>>
      BY <1>5 DEF TakeSem
    <2>2. ReceiverTypeOK'
      BY <1>1, <2>1 DEF ReceiverTypeOK, line, decoder
    <2>3. NoLostWakeup'
      BY <2>1 DEF NoLostWakeup
    <2> QED
      BY <1>1, <1>2, <2>1, <2>2, <2>3 DEF ReceiverInv
  <1>6. CASE GoWait
    <2>1. /\ ring_buffer = << >> /\ rx_sem' = rx_sem /\ receiver_pc' = "wait"
          /\ rc_data_msgq_out' = rc_data_msgq_out
          /\ UNCHANGED <<line, ring_buffer, decoder, source>>
      BY <1>6 DEF GoWait, Drained
    <2>2. ReceiverTypeOK'
      BY <1>1, <2>1 DEF ReceiverTypeOK, line, decoder
    <2>3. NoLostWakeup'
      BY <2>1 DEF NoLostWakeup
    <2> QED
      BY <1>1, <1>2, <2>1, <2>2, <2>3 DEF ReceiverInv
  <1>7. CASE ProcessByte
    BY <1>7, ProcessByteKeeps
  <1>8. CASE DataTaken
    <2>1. /\ ~MsgqEmpty(rc_data_msgq_out) /\ rc_data_msgq_out' = MsgqRest(rc_data_msgq_out)
          /\ rx_sem' = rx_sem /\ receiver_pc' = receiver_pc
          /\ UNCHANGED <<line, ring_buffer, decoder, source>>
      BY <1>8 DEF DataTaken
    <2>2. rc_data_msgq_out' \in Seq(Messages) /\ Len(rc_data_msgq_out') <= RcDepth
      BY <1>1, <2>1, GotFits, LineAssumption DEF ReceiverTypeOK
    <2>3. ReceiverTypeOK'
      BY <1>1, <2>1, <2>2 DEF ReceiverTypeOK, line, decoder
    <2>4. NoLostWakeup'
      BY <1>1, <2>1 DEF NoLostWakeup
    <2> QED
      BY <1>2, <2>1, <2>2, <2>3, <2>4 DEF ReceiverInv
  <1>9. CASE UNCHANGED receiverVars
    <2>1. /\ rx_sem' = rx_sem /\ receiver_pc' = receiver_pc /\ rc_data_msgq_out' = rc_data_msgq_out
          /\ UNCHANGED <<line, ring_buffer, decoder, source>>
      BY <1>9 DEF receiverVars
    <2>2. ReceiverTypeOK'
      BY <1>1, <2>1 DEF ReceiverTypeOK, line, decoder
    <2>3. NoLostWakeup'
      BY <1>1, <2>1 DEF NoLostWakeup
    <2> QED
      BY <1>1, <1>2, <2>1, <2>2, <2>3 DEF ReceiverInv
  <1> QED
    BY <1>3, <1>4, <1>5, <1>6, <1>7, <1>8, <1>9 DEF ReceiverNext, ReceiverThread

LEMMA ReceiverInductive == ReceiverSpec => []ReceiverInv
  <1>1. ReceiverInit => ReceiverInv
    BY ReceiverStarts
  <1>2. ReceiverInv /\ [ReceiverNext]_receiverVars => ReceiverInv'
    BY ReceiverSteps
  <1> QED
    BY <1>1, <1>2, PTL DEF ReceiverSpec

\* The receiver's variables keep their kinds: neither the ring buffer nor the
\* decoder's frame buffer nor the queue grows beyond its size (sbus_receiver.c,
\* sbus.c).
THEOREM ReceiverTypeCorrect == ReceiverSpec => []ReceiverTypeOK
  <1>1. ReceiverInv => ReceiverTypeOK
    BY DEF ReceiverInv
  <1> QED
    BY <1>1, ReceiverInductive, PTL

\* Whenever the receiver thread waits and bytes are in the ring, the semaphore is
\* given: whatever pieces the driver delivers and whenever it interrupts
\* (sbus_receiver.c:45-47, uart_interface.c:167-171).
THEOREM ReceiverNoLostWakeup == ReceiverSpec => []NoLostWakeup
  <1>1. ReceiverInv => NoLostWakeup
    BY DEF ReceiverInv
  <1> QED
    BY <1>1, ReceiverInductive, PTL

\* Every message is a frame that was sent, for all frames there are, any ring, any
\* pieces and any number of frames: when nothing is lost, and for quiet frames when
\* fewer bytes than a frame has are lost, on the line or in the full ring
\* (sbus.c:35-122).
THEOREM ReceiverFramesIntact == ReceiverSpec => []FramesIntact
  <1>1. ReceiverInv => FramesIntact
    BY SbusNumbers DEF ReceiverInv, DecoderInv, Sure, FramesIntact
  <1> QED
    BY <1>1, ReceiverInductive, PTL
=============================================================================
