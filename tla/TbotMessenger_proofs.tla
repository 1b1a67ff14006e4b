------------------------ MODULE TbotMessenger_proofs ------------------------
(***************************************************************************)
(* Both threads of the tbot's messenger, for all commands and reports the  *)
(* frames can carry and any capacities.                                    *)
(*                                                                         *)
(* Receiving: every frame in the CAN queue is the frame of a command, and  *)
(* what a command's words decode to is the command (QueuesInv); the newest *)
(* motion and the newest mode are the last of their kind in the CAN queue, *)
(* or the last in their own queue (Tracks).  Sending: what the bus has of  *)
(* the report in hand (TxInv).                                             *)
(***************************************************************************)
EXTENDS TbotMessengerRx, TbotMessengerTx, Msgq_proofs

ModesSent == {c.mode : c \in Sent("supervisor")}
MotionsSent == {<< c.left, c.right >> : c \in Sent("motion")}
PwmsSent ==
  {p \in (-128..127) \X (-127..128) : \E c \in Sent("pwm") : PwmOfCommand(p, c)}
RpmsSent == {r \in Int16 \X Int16 : \E c \in Sent("motor") : RpmOfCommand(r, c)}
FramesSent == {CommandFrame(c) : c \in Commands}

QueuesInv ==
  /\ can_msgq \in Seq(FramesSent) /\ Len(can_msgq) <= CanDepth
  /\ supervisor_cmd_msgq \in Seq(ModesSent) /\ Len(supervisor_cmd_msgq) <= Depth
  /\ desired_motion_msgq \in Seq(MotionsSent) /\ Len(desired_motion_msgq) <= Depth
  /\ actuator_cmd_msgq \in Seq(PwmsSent) /\ Len(actuator_cmd_msgq) <= CmdDepth
  /\ desired_rpm_msgq \in Seq(RpmsSent) /\ Len(desired_rpm_msgq) <= Depth

\* The newest value of one kind is still on its way, the last of its kind, or it
\* is what the queue offers last.
Tracks(can, id, frame, dest, value) ==
  \/ \E i \in 1..Len(can) :
       /\ can[i] = frame /\ frame.id = id
       /\ \A j \in 1..Len(can) : j > i => can[j].id # id
  \/ /\ \A j \in 1..Len(can) : can[j].id # id
     /\ dest = << >> \/ dest[Len(dest)] = value

MotionTracked ==
  Tracks(can_msgq, MotionCmdId, CommandFrame(newest["motion"]),
         desired_motion_msgq,
         << newest["motion"].left, newest["motion"].right >>)
ModeTracked ==
  Tracks(can_msgq, SupervisorCmdId, CommandFrame(newest["supervisor"]),
         supervisor_cmd_msgq, newest["supervisor"].mode)

NewestInv ==
  /\ newest \in [Owned -> Commands \cup {NoCommand}]
  /\ newest["motion"] \in Sent("motion") \cup {NoCommand}
  /\ newest["supervisor"] \in Sent("supervisor") \cup {NoCommand}

IInv == QueuesInv /\ NewestInv /\ MotionTracked /\ ModeTracked
-----------------------------------------------------------------------------
\* The words on the bus.

LEMMA Powers ==
  2 ^ 24 = 16777216 /\ 2 ^ 16 = 65536 /\ 2 ^ 8 = 256 /\ 2 ^ (8 - 1) = 128
    /\ 2 ^ (16 - 1) = 32768
  BY SMT

LEMMA WordsConcatenated ==
  ASSUME NEW a1, NEW a2, NEW a3, NEW a4, NEW b1, NEW b2, NEW b3, NEW b4
  PROVE  LET d == << a1, a2, a3, a4 >> \o << b1, b2, b3, b4 >>
         IN /\ d[1] = a1 /\ d[1 + 1] = a2 /\ d[1 + 2] = a3 /\ d[1 + 3] = a4
            /\ d[5] = b1 /\ d[5 + 1] = b2 /\ d[5 + 2] = b3 /\ d[5 + 3] = b4
  OBVIOUS

\* A word in its four bytes, the first with the sign.
LEMMA WordOfBytes ==
  ASSUME NEW x \in Int32
  PROVE  /\ Byte(x \div 2 ^ 24) \in Nat /\ Byte(x \div 2 ^ 16) \in Nat
         /\ Byte(x \div 2 ^ 8) \in Nat /\ Byte(x) \in Nat
         /\ ((Signed(Byte(x \div 2 ^ 24), 8) * 256 + Byte(x \div 2 ^ 16)) * 256
              + Byte(x \div 2 ^ 8)) * 256 + Byte(x) = x
  BY Powers, SMT DEF Int32, Byte, Signed

\* Two words put into a frame and taken out again are the same words.
LEMMA SpeedRead ==
  ASSUME NEW id, NEW l \in Int32, NEW r \in Int32
  PROVE  /\ DecodeWord(EncodeSpeed(id, l, r).data, 1) = l
         /\ DecodeWord(EncodeSpeed(id, l, r).data, 5) = r
         /\ EncodeSpeed(id, l, r).id = id
  <1> DEFINE d == EncodeWord(l) \o EncodeWord(r)
  <1>1. EncodeSpeed(id, l, r).data = d /\ EncodeSpeed(id, l, r).id = id
    BY DEF EncodeSpeed
  <1>2. /\ d[1] = Byte(l \div 2 ^ 24) /\ d[1 + 1] = Byte(l \div 2 ^ 16)
        /\ d[1 + 2] = Byte(l \div 2 ^ 8) /\ d[1 + 3] = Byte(l)
        /\ d[5] = Byte(r \div 2 ^ 24) /\ d[5 + 1] = Byte(r \div 2 ^ 16)
        /\ d[5 + 2] = Byte(r \div 2 ^ 8) /\ d[5 + 3] = Byte(r)
    BY WordsConcatenated DEF EncodeWord
  <1> HIDE DEF d
  <1>3. DecodeWord(d, 1) = l
    BY <1>2, WordOfBytes DEF DecodeWord
  <1>4. DecodeWord(d, 5) = r
    BY <1>2, WordOfBytes DEF DecodeWord
  <1> QED
    BY <1>1, <1>3, <1>4

\* What the messenger makes of the frame of a command.
LEMMA ModeDecoded ==
  ASSUME NEW c \in Sent("supervisor")
  PROVE  /\ CommandFrame(c).id = SupervisorCmdId
         /\ Message(CommandFrame(c)).type = "supervisor"
         /\ Message(CommandFrame(c)).mode = c.mode
         /\ c.mode \in 0..255
  <1>1. c.type = "supervisor" /\ c.mode \in 0..255
    BY CommandsAssumption DEF Sent
  <1>2. CommandFrame(c) = [id |-> SupervisorCmdId, data |-> << c.mode >>]
    BY <1>1 DEF CommandFrame
  <1> QED
    BY <1>1, <1>2 DEF Message, DecodeCanMessage, MotionCmdId,
       MotorCmdId, PwmCmdId, SupervisorCmdId

LEMMA MotionDecoded ==
  ASSUME NEW c \in Sent("motion")
  PROVE  /\ CommandFrame(c).id = MotionCmdId
         /\ Message(CommandFrame(c)).type = "motion"
         /\ MotionOf(Message(CommandFrame(c))) = << c.left, c.right >>
         /\ c.left \in Int /\ c.right \in Int
  <1>1. c.type = "motion" /\ c.left \in Int32 /\ c.right \in Int32
    BY CommandsAssumption DEF Sent
  <1>2. CommandFrame(c) = EncodeSpeed(MotionCmdId, c.left, c.right)
    BY <1>1 DEF CommandFrame
  <1>3. Message(CommandFrame(c)) =
          [type |-> "motion", left |-> c.left, right |-> c.right]
    BY <1>1, <1>2, SpeedRead DEF Message, DecodeCanMessage, MotionCmdId,
       MotorCmdId, PwmCmdId, SupervisorCmdId
  <1> QED
    BY <1>1, <1>2, <1>3, SpeedRead DEF MotionOf, Int32

\* What narrowing keeps of a number.
LEMMA ByteNarrowed ==
  ASSUME NEW x \in Int
  PROVE  ToInt8(Byte(x)) \in -128..127 /\ Narrowed(ToInt8(Byte(x)), x, 256)
  <1>1. Byte(x) \in 0..255 /\ Byte(x) % 256 = Byte(x)
    BY SMT DEF Byte
  <1>2. ToInt8(Byte(x)) = IF Byte(x) >= 128 THEN Byte(x) - 256 ELSE Byte(x)
    BY <1>1, Powers DEF ToInt8, Signed
  <1>3. (Byte(x) - x) % 256 = 0 /\ ((Byte(x) - 256) - x) % 256 = 0
    BY SMT DEF Byte
  <1>4. -256 \div 2 = -128 /\ 256 \div 2 = 128
    BY SMT
  <1> QED
    BY <1>1, <1>2, <1>3, <1>4 DEF Narrowed

LEMMA WordNarrowed ==
  ASSUME NEW x \in Int
  PROVE  ToInt16(x) \in Int16 /\ Narrowed(ToInt16(x), x, 65536)
  <1> DEFINE low == x % 65536
  <1>1. low \in Int /\ 0 <= low /\ low < 65536
    BY SMT
  <1>2. ToInt16(x) = IF low >= 32768 THEN low - 65536 ELSE low
    BY Powers DEF ToInt16, Signed
  <1>3. (low - x) % 65536 = 0 /\ ((low - 65536) - x) % 65536 = 0
    BY SMT
  <1>4. -65536 \div 2 = -32768 /\ 65536 \div 2 = 32768
    BY SMT
  <1> HIDE DEF low
  <1>5. ToInt16(x) \in Int /\ -32768 <= ToInt16(x) /\ ToInt16(x) <= 32767
    BY <1>1, <1>2, SMT
  <1>6. (ToInt16(x) - x) % 65536 = 0
    BY <1>2, <1>3
  <1> QED
    BY <1>4, <1>5, <1>6, SMT DEF Narrowed, Int16

LEMMA RpmDecoded ==
  ASSUME NEW c \in Sent("motor")
  PROVE  /\ CommandFrame(c).id = MotorCmdId
         /\ Message(CommandFrame(c)).type = "motor"
         /\ RpmOf(Message(CommandFrame(c))) \in RpmsSent
  <1>1. c.type = "motor" /\ c.left \in Int32 /\ c.right \in Int32
    BY CommandsAssumption DEF Sent
  <1>2. CommandFrame(c) = EncodeSpeed(MotorCmdId, c.left, c.right)
    BY <1>1 DEF CommandFrame
  <1>3. c.left \in Int /\ -c.right \in Int
    BY <1>1 DEF Int32
  <1>4. Message(CommandFrame(c)) =
          [type |-> "motor", left |-> c.left, right |-> c.right]
    BY <1>1, <1>2, SpeedRead DEF Message, DecodeCanMessage, MotionCmdId,
       MotorCmdId, PwmCmdId, SupervisorCmdId
  <1> DEFINE r == << ToInt16(c.left), ToInt16(-c.right) >>
  <1>5. r \in Int16 \X Int16 /\ RpmOfCommand(r, c)
    BY <1>3, WordNarrowed DEF RpmOfCommand
  <1>6. r \in RpmsSent
    BY <1>5 DEF RpmsSent
  <1> QED
    BY <1>1, <1>2, <1>4, <1>6, SpeedRead DEF RpmOf

LEMMA PwmDecoded ==
  ASSUME NEW c \in Sent("pwm")
  PROVE  /\ CommandFrame(c).id = PwmCmdId
         /\ Message(CommandFrame(c)).type = "pwm"
         /\ PwmOf(Message(CommandFrame(c))) \in PwmsSent
  <1>1. c.type = "pwm" /\ c.left \in Int /\ c.right \in Int
    BY CommandsAssumption DEF Sent
  <1>2. CommandFrame(c) = [id |-> PwmCmdId, data |-> << Byte(c.left), Byte(c.right) >>]
    BY <1>1 DEF CommandFrame
  <1> DEFINE l == ToInt8(Byte(c.left))
             r == ToInt8(Byte(c.right))
  <1>3. /\ l \in -128..127 /\ Narrowed(l, c.left, 256)
        /\ r \in -128..127 /\ Narrowed(r, c.right, 256)
    BY <1>1, ByteNarrowed
  <1>4. Message(CommandFrame(c)) = [type |-> "pwm", left |-> l, right |-> r]
    BY <1>1, <1>2 DEF Message, DecodeCanMessage, MotionCmdId,
       MotorCmdId, PwmCmdId, SupervisorCmdId
  <1> HIDE DEF l, r
  <1>5. << l, -r >> \in (-128..127) \X (-127..128) /\ -(-r) = r
    BY <1>3
  <1>6. << l, -r >> \in PwmsSent
    BY <1>3, <1>5 DEF PwmsSent, PwmOfCommand
  <1> QED
    BY <1>1, <1>2, <1>4, <1>6 DEF PwmOf
-----------------------------------------------------------------------------
\* The last of its kind, as the frames are queued, decoded and taken.

LEMMA TrackArrives ==
  ASSUME NEW S, NEW can \in Seq(S), NEW id, NEW frame, NEW dest, NEW value,
         Tracks(can, id, frame, dest, value),
         NEW f \in S, f.id # id
  PROVE  Tracks(MsgqPut(can, f), id, frame, dest, value)
  <1> DEFINE new == Append(can, f)
  <1>1. /\ Len(new) = Len(can) + 1 /\ Len(can) \in Nat /\ new[Len(can) + 1] = f
        /\ \A i \in 1..Len(can) : new[i] = can[i]
    OBVIOUS
  <1> HIDE DEF new
  <1>2. Tracks(new, id, frame, dest, value)
    BY <1>1 DEF Tracks
  <1> QED
    BY <1>2 DEF MsgqPut, new

LEMMA TrackNewest ==
  ASSUME NEW S, NEW can \in Seq(S), NEW id, NEW dest, NEW value,
         NEW f \in S, f.id = id
  PROVE  Tracks(MsgqPut(can, f), id, f, dest, value)
  <1> DEFINE new == Append(can, f)
  <1>1. Len(new) = Len(can) + 1 /\ Len(can) \in Nat /\ new[Len(can) + 1] = f
    OBVIOUS
  <1> HIDE DEF new
  <1>2. Tracks(new, id, f, dest, value)
    BY <1>1 DEF Tracks
  <1> QED
    BY <1>2 DEF MsgqPut, new

LEMMA TrackOther ==
  ASSUME NEW S, NEW can \in Seq(S), NEW id, NEW frame, NEW dest, NEW value,
         Tracks(can, id, frame, dest, value),
         ~MsgqEmpty(can), MsgqGot(can).id # id
  PROVE  Tracks(MsgqRest(can), id, frame, dest, value)
  <1> DEFINE new == MsgqRest(can)
  <1>1. /\ Len(new) = Len(can) - 1 /\ Len(can) \in Nat /\ can[1].id # id
        /\ \A i \in 1..Len(new) : new[i] = can[i + 1]
    BY GotRest
  <1> HIDE DEF new
  <1>2. CASE \E i \in 1..Len(can) :
               can[i] = frame /\ frame.id = id /\ \A j \in 1..Len(can) : j > i => can[j].id # id
    <2>1. PICK i \in 1..Len(can) :
            can[i] = frame /\ frame.id = id /\ \A j \in 1..Len(can) : j > i => can[j].id # id
      BY <1>2
    <2>2. i - 1 \in 1..Len(new) /\ new[i - 1] = frame
      <3>1. i # 1 /\ i \in Nat /\ (i - 1) + 1 = i
        BY <1>1, <2>1
      <3> QED
        BY <1>1, <2>1, <3>1
    <2>3. \A j \in 1..Len(new) : j > i - 1 => new[j].id # id
      BY <1>1, <2>1
    <2> QED
      BY <2>1, <2>2, <2>3 DEF Tracks, new
  <1>3. CASE /\ \A j \in 1..Len(can) : can[j].id # id
             /\ dest = << >> \/ dest[Len(dest)] = value
    <2>1. \A j \in 1..Len(new) : new[j].id # id
      BY <1>1, <1>3
    <2> QED
      BY <1>3, <2>1 DEF Tracks, new
  <1> QED
    BY <1>2, <1>3 DEF Tracks

LEMMA TrackDelivered ==
  ASSUME NEW S, NEW can \in Seq(S), NEW id, NEW frame, NEW dest, NEW value,
         Tracks(can, id, frame, dest, value),
         ~MsgqEmpty(can), MsgqGot(can).id = id,
         NEW got, MsgqGot(can) = frame => got[Len(got)] = value
  PROVE  Tracks(MsgqRest(can), id, frame, got, value)
  <1> DEFINE new == MsgqRest(can)
  <1>1. /\ Len(new) = Len(can) - 1 /\ Len(can) \in Nat /\ Len(can) > 0
        /\ can[1] = MsgqGot(can)
        /\ \A i \in 1..Len(new) : new[i] = can[i + 1]
    BY GotRest
  <1> HIDE DEF new
  <1>2. PICK i \in 1..Len(can) :
          can[i] = frame /\ frame.id = id /\ \A j \in 1..Len(can) : j > i => can[j].id # id
    BY <1>1 DEF Tracks
  <1>3. CASE i = 1
    <2>1. got[Len(got)] = value
      BY <1>1, <1>2, <1>3
    <2>2. \A j \in 1..Len(new) : new[j].id # id
      BY <1>1, <1>2, <1>3
    <2> QED
      BY <2>1, <2>2 DEF Tracks, new
  <1>4. CASE i # 1
    <2>1. i - 1 \in 1..Len(new) /\ new[i - 1] = frame
      BY <1>1, <1>2, <1>4
    <2>2. \A j \in 1..Len(new) : j > i - 1 => new[j].id # id
      BY <1>1, <1>2
    <2> QED
      BY <1>2, <2>1, <2>2 DEF Tracks, new
  <1> QED
    BY <1>3, <1>4

LEMMA TrackTaken ==
  ASSUME NEW S, NEW dest \in Seq(S), NEW can, NEW id, NEW frame, NEW value,
         Tracks(can, id, frame, dest, value), ~MsgqEmpty(dest)
  PROVE  Tracks(can, id, frame, MsgqRest(dest), value)
  <1> DEFINE rest == MsgqRest(dest)
  <1>1. /\ rest \in Seq(S) /\ Len(rest) = Len(dest) - 1 /\ Len(dest) \in Nat
        /\ \A i \in 1..Len(rest) : rest[i] = dest[i + 1]
    BY GotRest
  <1>2. rest = << >> \/ rest[Len(rest)] = dest[Len(dest)]
    <2> HIDE DEF rest
    <2>1. CASE Len(rest) = 0
      BY <1>1, <2>1
    <2>2. CASE Len(rest) > 0
      BY <1>1, <2>2
    <2> QED
      BY <1>1, <2>1, <2>2
  <1>3. dest # << >>
    BY DEF MsgqEmpty
  <1> QED
    BY <1>2, <1>3 DEF Tracks
-----------------------------------------------------------------------------
\* What the thread finds at the head of the CAN queue.

LEMMA KindById ==
  ASSUME NEW f
  PROVE  /\ Message(f).type = "supervisor" <=> f.id = SupervisorCmdId
         /\ Message(f).type = "motion" <=> f.id = MotionCmdId
         /\ Message(f).type = "pwm" <=> f.id = PwmCmdId
         /\ Message(f).type = "motor" <=> f.id = MotorCmdId
  BY DEF Message, DecodeCanMessage, MotionCmdId, MotorCmdId, PwmCmdId,
     SupervisorCmdId

LEMMA CommandKinds ==
  ASSUME NEW c \in Commands
  PROVE  \/ c \in Sent("supervisor") \/ c \in Sent("pwm")
         \/ c \in Sent("motor") \/ c \in Sent("motion")
         \/ CommandFrame(c).id = 0
  <1>1. c.type \in {"supervisor", "pwm", "motor", "motion", "other"}
    BY CommandsAssumption
  <1>2. c.type = "other" => CommandFrame(c).id = 0
    BY DEF CommandFrame
  <1> QED
    BY <1>1, <1>2 DEF Sent

LEMMA NothingFrame == CommandFrame(NoCommand).id = 0
  BY DEF CommandFrame, NoCommand

LEMMA HeadDecoded ==
  ASSUME QueuesInv, ~MsgqEmpty(can_msgq)
  PROVE  LET f == MsgqGot(can_msgq)
         IN /\ Message(f).type = "supervisor" => Message(f).mode \in ModesSent
            /\ Message(f).type = "motion" => MotionOf(Message(f)) \in MotionsSent
            /\ Message(f).type = "pwm" => PwmOf(Message(f)) \in PwmsSent
            /\ Message(f).type = "motor" => RpmOf(Message(f)) \in RpmsSent
  <1> DEFINE f == MsgqGot(can_msgq)
  <1> DEFINE Goal ==
       /\ Message(f).type = "supervisor" => Message(f).mode \in ModesSent
       /\ Message(f).type = "motion" => MotionOf(Message(f)) \in MotionsSent
       /\ Message(f).type = "pwm" => PwmOf(Message(f)) \in PwmsSent
       /\ Message(f).type = "motor" => RpmOf(Message(f)) \in RpmsSent
  <1> SUFFICES Goal
    OBVIOUS
  <1>1. f \in FramesSent
    BY GotRest DEF QueuesInv
  <1> HIDE DEF f
  <1>2. PICK c \in Commands : f = CommandFrame(c)
    BY <1>1 DEF FramesSent
  <1>3. CASE c \in Sent("supervisor")
    BY <1>2, <1>3, ModeDecoded DEF ModesSent
  <1>4. CASE c \in Sent("motion")
    BY <1>2, <1>4, MotionDecoded DEF MotionsSent
  <1>5. CASE c \in Sent("pwm")
    BY <1>2, <1>5, PwmDecoded
  <1>6. CASE c \in Sent("motor")
    BY <1>2, <1>6, RpmDecoded
  <1>7. CASE CommandFrame(c).id = 0
    BY <1>2, <1>7, KindById DEF MotionCmdId, MotorCmdId, PwmCmdId, SupervisorCmdId
  <1> QED
    BY <1>3, <1>4, <1>5, <1>6, <1>7, CommandKinds

-----------------------------------------------------------------------------
\* The steps.

LEMMA QueuesStep == QueuesInv /\ [Next]_vars => QueuesInv'
  <1> SUFFICES ASSUME QueuesInv, [Next]_vars PROVE QueuesInv'
    OBVIOUS
  <1> USE DepthAssumption
  <1>1. ASSUME NEW type, Received(type)
        PROVE  /\ can_msgq' \in Seq(FramesSent) /\ Len(can_msgq') <= CanDepth
    BY <1>1, GotFits DEF Received, QueuesInv
  <1>2. CASE SupervisorCommand
    <2>1. Message(MsgqGot(can_msgq)).mode \in ModesSent
      BY <1>2, HeadDecoded DEF SupervisorCommand, Received
    <2>2. supervisor_cmd_msgq' \in Seq(ModesSent) /\ Len(supervisor_cmd_msgq') <= Depth
      BY <1>2, <2>1, OverwriteFits DEF SupervisorCommand, QueuesInv
    <2> QED
      BY <1>1, <1>2, <2>2 DEF SupervisorCommand, QueuesInv
  <1>3. CASE PwmCommand
    <2>1. PwmOf(Message(MsgqGot(can_msgq))) \in PwmsSent
      BY <1>3, HeadDecoded DEF PwmCommand, Received
    <2>2. actuator_cmd_msgq' \in Seq(PwmsSent) /\ Len(actuator_cmd_msgq') <= CmdDepth
      BY <1>3, <2>1, OverwriteFits DEF PwmCommand, QueuesInv
    <2> QED
      BY <1>1, <1>3, <2>2 DEF PwmCommand, QueuesInv
  <1>4. CASE MotorCommand
    <2>1. RpmOf(Message(MsgqGot(can_msgq))) \in RpmsSent
      BY <1>4, HeadDecoded DEF MotorCommand, Received
    <2>2. desired_rpm_msgq' \in Seq(RpmsSent) /\ Len(desired_rpm_msgq') <= Depth
      BY <1>4, <2>1, OverwriteFits DEF MotorCommand, QueuesInv
    <2> QED
      BY <1>1, <1>4, <2>2 DEF MotorCommand, QueuesInv
  <1>5. CASE MotionCommand
    <2>1. MotionOf(Message(MsgqGot(can_msgq))) \in MotionsSent
      BY <1>5, HeadDecoded DEF MotionCommand, Received
    <2>2. desired_motion_msgq' \in Seq(MotionsSent) /\ Len(desired_motion_msgq') <= Depth
      BY <1>5, <2>1, OverwriteFits DEF MotionCommand, QueuesInv
    <2> QED
      BY <1>1, <1>5, <2>2 DEF MotionCommand, QueuesInv
  <1>6. CASE UnknownFrame
    BY <1>1, <1>6 DEF UnknownFrame, QueuesInv, queues
  <1>7. ASSUME NEW c \in Commands, FrameArrives(c) PROVE QueuesInv'
    <2>1. CommandFrame(c) \in FramesSent
      BY DEF FramesSent
    <2>2. can_msgq' \in Seq(FramesSent) /\ Len(can_msgq') <= CanDepth
      BY <1>7, <2>1, PutFits DEF FrameArrives, QueuesInv
    <2> QED
      BY <1>7, <2>2 DEF FrameArrives, QueuesInv, queues
  <1>8. CASE SupervisorTaken \/ MotionTaken \/ ActuatorCmdTaken \/ RpmTaken
    <2>1. CASE SupervisorTaken
      BY <2>1, GotFits DEF SupervisorTaken, QueuesInv
    <2>2. CASE MotionTaken
      BY <2>2, GotFits DEF MotionTaken, QueuesInv
    <2>3. CASE ActuatorCmdTaken
      BY <2>3, GotFits DEF ActuatorCmdTaken, QueuesInv
    <2>4. CASE RpmTaken
      BY <2>4, GotFits DEF RpmTaken, QueuesInv
    <2> QED
      BY <1>8, <2>1, <2>2, <2>3, <2>4
  <1>9. CASE UNCHANGED vars
    BY <1>9 DEF vars, queues, QueuesInv
  <1> QED
    BY <1>2, <1>3, <1>4, <1>5, <1>6, <1>7, <1>8, <1>9 DEF Next, Thread

LEMMA NewestStep == NewestInv /\ [Next]_vars => NewestInv'
  <1> SUFFICES ASSUME NewestInv, [Next]_vars PROVE NewestInv'
    OBVIOUS
  <1>1. ASSUME NEW c \in Commands, FrameArrives(c), ~MsgqFull(can_msgq, CanDepth)
        PROVE  NewestInv'
    <2>1. newest' = [k \in Owned |-> IF k = c.type THEN c ELSE newest[k]]
      BY <1>1 DEF FrameArrives
    <2> QED
      BY <2>1 DEF NewestInv, Owned, Sent
  <1>2. CASE UNCHANGED newest
    BY <1>2 DEF NewestInv
  <1> QED
    BY <1>1, <1>2 DEF Next, Thread, SupervisorCommand, PwmCommand, MotorCommand,
       MotionCommand, UnknownFrame, FrameArrives, SupervisorTaken, MotionTaken,
       ActuatorCmdTaken, RpmTaken, vars

\* The last motion on the bus stays in sight.
LEMMA MotionStep ==
  ASSUME QueuesInv, NewestInv, MotionTracked, [Next]_vars
  PROVE  MotionTracked'
  <1> DEFINE dest == desired_motion_msgq
             frame == CommandFrame(newest["motion"])
             value == << newest["motion"].left, newest["motion"].right >>
  <1>1. can_msgq \in Seq(FramesSent) /\ dest \in Seq(MotionsSent)
    BY DEF QueuesInv
  <1>2. Tracks(can_msgq, MotionCmdId, frame, dest, value)
    BY DEF MotionTracked
  <1>3. CASE SupervisorCommand \/ PwmCommand \/ MotorCommand \/ UnknownFrame
    <2>1. /\ ~MsgqEmpty(can_msgq) /\ MsgqGot(can_msgq).id # MotionCmdId
          /\ can_msgq' = MsgqRest(can_msgq) /\ dest' = dest /\ newest' = newest
      BY <1>3, KindById DEF SupervisorCommand, PwmCommand, MotorCommand,
         UnknownFrame, Received, queues
    <2>2. Tracks(MsgqRest(can_msgq), MotionCmdId, frame, dest, value)
      BY <1>1, <1>2, <2>1, TrackOther
    <2> QED
      BY <2>1, <2>2 DEF MotionTracked
  <1>4. CASE MotionCommand
    <2>1. /\ ~MsgqEmpty(can_msgq) /\ MsgqGot(can_msgq).id = MotionCmdId
          /\ can_msgq' = MsgqRest(can_msgq) /\ newest' = newest
          /\ dest' = Overwrite(dest, MotionOf(Message(MsgqGot(can_msgq))), Depth)
      BY <1>4, KindById DEF MotionCommand, Received
    <2>2. dest'[Len(dest')] = MotionOf(Message(MsgqGot(can_msgq)))
      <3>1. MotionOf(Message(MsgqGot(can_msgq))) \in MotionsSent
        BY <1>4, HeadDecoded DEF MotionCommand, Received
      <3> QED
        BY <2>1, <3>1, OverwriteFits, DepthAssumption DEF QueuesInv
    <2>3. MsgqGot(can_msgq) = frame => MotionOf(Message(MsgqGot(can_msgq))) = value
      BY <2>1, MotionDecoded, NothingFrame DEF NewestInv, MotionCmdId
    <2>4. Tracks(MsgqRest(can_msgq), MotionCmdId, frame, dest', value)
      BY <1>1, <1>2, <2>1, <2>2, <2>3, TrackDelivered
    <2> QED
      BY <2>1, <2>4 DEF MotionTracked
  <1>5. ASSUME NEW c \in Commands, FrameArrives(c) PROVE MotionTracked'
    <2> DEFINE f == CommandFrame(c)
    <2>1. f \in FramesSent /\ dest' = dest
      BY <1>5 DEF FramesSent, FrameArrives, queues
    <2>2. CASE MsgqFull(can_msgq, CanDepth)
      BY <1>5, <2>1, <2>2 DEF FrameArrives, MotionTracked
    <2>3. CASE ~MsgqFull(can_msgq, CanDepth) /\ c.type = "motion"
      <3>1. can_msgq' = MsgqPut(can_msgq, f) /\ newest'["motion"] = c
        BY <1>5, <2>3 DEF FrameArrives, Owned
      <3>2. f.id = MotionCmdId
        BY <2>3, MotionDecoded DEF Sent
      <3>3. Tracks(MsgqPut(can_msgq, f), MotionCmdId, f, dest, << c.left, c.right >>)
        BY <1>1, <2>1, <3>2, TrackNewest
      <3> QED
        BY <2>1, <3>1, <3>3 DEF MotionTracked
    <2>4. CASE ~MsgqFull(can_msgq, CanDepth) /\ c.type # "motion"
      <3>1. /\ can_msgq' = MsgqPut(can_msgq, f)
            /\ newest'["motion"] = newest["motion"]
        BY <1>5, <2>4 DEF FrameArrives, Owned
      <3>2. f.id # MotionCmdId
        BY <2>4, CommandKinds, ModeDecoded, PwmDecoded, RpmDecoded
        DEF Sent, MotionCmdId, MotorCmdId, PwmCmdId, SupervisorCmdId
      <3>3. Tracks(MsgqPut(can_msgq, f), MotionCmdId, frame, dest, value)
        BY <1>1, <1>2, <2>1, <3>2, TrackArrives
      <3> QED
        BY <2>1, <3>1, <3>3 DEF MotionTracked
    <2> QED
      BY <2>2, <2>3, <2>4
  <1>6. CASE MotionTaken
    <2>1. /\ ~MsgqEmpty(dest) /\ dest' = MsgqRest(dest) /\ newest' = newest
          /\ can_msgq' = can_msgq
      BY <1>6 DEF MotionTaken
    <2>2. Tracks(can_msgq, MotionCmdId, frame, MsgqRest(dest), value)
      BY <1>1, <1>2, <2>1, TrackTaken
    <2> QED
      BY <2>1, <2>2 DEF MotionTracked
  <1>7. CASE SupervisorTaken \/ ActuatorCmdTaken \/ RpmTaken \/ UNCHANGED vars
    <2>1. dest' = dest /\ newest' = newest /\ can_msgq' = can_msgq
      BY <1>7 DEF SupervisorTaken, ActuatorCmdTaken, RpmTaken, vars, queues
    <2> QED
      BY <2>1 DEF MotionTracked
  <1> QED
    BY <1>3, <1>4, <1>5, <1>6, <1>7 DEF Next, Thread

\* ... and so does the last mode.
LEMMA ModeStep ==
  ASSUME QueuesInv, NewestInv, ModeTracked, [Next]_vars
  PROVE  ModeTracked'
  <1> DEFINE dest == supervisor_cmd_msgq
             frame == CommandFrame(newest["supervisor"])
             value == newest["supervisor"].mode
  <1>1. can_msgq \in Seq(FramesSent) /\ dest \in Seq(ModesSent)
    BY DEF QueuesInv
  <1>2. Tracks(can_msgq, SupervisorCmdId, frame, dest, value)
    BY DEF ModeTracked
  <1>3. CASE MotionCommand \/ PwmCommand \/ MotorCommand \/ UnknownFrame
    <2>1. /\ ~MsgqEmpty(can_msgq) /\ MsgqGot(can_msgq).id # SupervisorCmdId
          /\ can_msgq' = MsgqRest(can_msgq) /\ dest' = dest /\ newest' = newest
      BY <1>3, KindById DEF MotionCommand, PwmCommand, MotorCommand,
         UnknownFrame, Received, queues
    <2>2. Tracks(MsgqRest(can_msgq), SupervisorCmdId, frame, dest, value)
      BY <1>1, <1>2, <2>1, TrackOther
    <2> QED
      BY <2>1, <2>2 DEF ModeTracked
  <1>4. CASE SupervisorCommand
    <2>1. /\ ~MsgqEmpty(can_msgq) /\ MsgqGot(can_msgq).id = SupervisorCmdId
          /\ can_msgq' = MsgqRest(can_msgq) /\ newest' = newest
          /\ dest' = Overwrite(dest, Message(MsgqGot(can_msgq)).mode, Depth)
      BY <1>4, KindById DEF SupervisorCommand, Received
    <2>2. dest'[Len(dest')] = Message(MsgqGot(can_msgq)).mode
      <3>1. Message(MsgqGot(can_msgq)).mode \in ModesSent
        BY <1>4, HeadDecoded DEF SupervisorCommand, Received
      <3> QED
        BY <2>1, <3>1, OverwriteFits, DepthAssumption DEF QueuesInv
    <2>3. MsgqGot(can_msgq) = frame => Message(MsgqGot(can_msgq)).mode = value
      BY <2>1, ModeDecoded, NothingFrame DEF NewestInv, SupervisorCmdId
    <2>4. Tracks(MsgqRest(can_msgq), SupervisorCmdId, frame, dest', value)
      BY <1>1, <1>2, <2>1, <2>2, <2>3, TrackDelivered
    <2> QED
      BY <2>1, <2>4 DEF ModeTracked
  <1>5. ASSUME NEW c \in Commands, FrameArrives(c) PROVE ModeTracked'
    <2> DEFINE f == CommandFrame(c)
    <2>1. f \in FramesSent /\ dest' = dest
      BY <1>5 DEF FramesSent, FrameArrives, queues
    <2>2. CASE MsgqFull(can_msgq, CanDepth)
      BY <1>5, <2>1, <2>2 DEF FrameArrives, ModeTracked
    <2>3. CASE ~MsgqFull(can_msgq, CanDepth) /\ c.type = "supervisor"
      <3>1. can_msgq' = MsgqPut(can_msgq, f) /\ newest'["supervisor"] = c
        BY <1>5, <2>3 DEF FrameArrives, Owned
      <3>2. f.id = SupervisorCmdId
        BY <2>3, ModeDecoded DEF Sent
      <3>3. Tracks(MsgqPut(can_msgq, f), SupervisorCmdId, f, dest, c.mode)
        BY <1>1, <2>1, <3>2, TrackNewest
      <3> QED
        BY <2>1, <3>1, <3>3 DEF ModeTracked
    <2>4. CASE ~MsgqFull(can_msgq, CanDepth) /\ c.type # "supervisor"
      <3>1. /\ can_msgq' = MsgqPut(can_msgq, f)
            /\ newest'["supervisor"] = newest["supervisor"]
        BY <1>5, <2>4 DEF FrameArrives, Owned
      <3>2. f.id # SupervisorCmdId
        BY <2>4, CommandKinds, MotionDecoded, PwmDecoded, RpmDecoded
        DEF Sent, SupervisorCmdId, MotorCmdId, PwmCmdId, MotionCmdId
      <3>3. Tracks(MsgqPut(can_msgq, f), SupervisorCmdId, frame, dest, value)
        BY <1>1, <1>2, <2>1, <3>2, TrackArrives
      <3> QED
        BY <2>1, <3>1, <3>3 DEF ModeTracked
    <2> QED
      BY <2>2, <2>3, <2>4
  <1>6. CASE SupervisorTaken
    <2>1. /\ ~MsgqEmpty(dest) /\ dest' = MsgqRest(dest) /\ newest' = newest
          /\ can_msgq' = can_msgq
      BY <1>6 DEF SupervisorTaken
    <2>2. Tracks(can_msgq, SupervisorCmdId, frame, MsgqRest(dest), value)
      BY <1>1, <1>2, <2>1, TrackTaken
    <2> QED
      BY <2>1, <2>2 DEF ModeTracked
  <1>7. CASE MotionTaken \/ ActuatorCmdTaken \/ RpmTaken \/ UNCHANGED vars
    <2>1. dest' = dest /\ newest' = newest /\ can_msgq' = can_msgq
      BY <1>7 DEF MotionTaken, ActuatorCmdTaken, RpmTaken, vars, queues
    <2> QED
      BY <2>1 DEF ModeTracked
  <1> QED
    BY <1>3, <1>4, <1>5, <1>6, <1>7 DEF Next, Thread

LEMMA InitInv == Init => IInv
  <1> SUFFICES ASSUME Init PROVE IInv
    OBVIOUS
  <1>1. /\ << >> \in Seq(FramesSent) /\ << >> \in Seq(ModesSent)
        /\ << >> \in Seq(MotionsSent) /\ << >> \in Seq(PwmsSent)
        /\ << >> \in Seq(RpmsSent) /\ Len(<< >>) = 0
    OBVIOUS
  <1>2. 0 <= CanDepth /\ 0 <= Depth /\ 0 <= CmdDepth
    BY DepthAssumption
  <1>3. QueuesInv
    BY <1>1, <1>2 DEF Init, QueuesInv
  <1>4. NewestInv
    BY DEF Init, NewestInv, Owned
  <1>5. MotionTracked /\ ModeTracked
    BY <1>1 DEF Init, MotionTracked, ModeTracked, Tracks
  <1> QED
    BY <1>3, <1>4, <1>5 DEF IInv

LEMMA StepInv == IInv /\ [Next]_vars => IInv'
  BY QueuesStep, NewestStep, MotionStep, ModeStep DEF IInv

LEMMA Invariance == Spec => []IInv
  BY InitInv, StepInv, PTL DEF Spec
-----------------------------------------------------------------------------
\* The theorems.

LEMMA IInvType == IInv => TypeOK
  <1> SUFFICES ASSUME IInv PROVE TypeOK
    OBVIOUS
  <1>1. ModesSent \subseteq 0..255
    BY ModeDecoded DEF ModesSent
  <1>2. MotionsSent \subseteq Int \X Int
    BY MotionDecoded DEF MotionsSent
  <1>3. PwmsSent \subseteq (-128..127) \X (-127..128)
    BY DEF PwmsSent
  <1>4. RpmsSent \subseteq Int16 \X Int16
    BY DEF RpmsSent
  <1>5. ASSUME NEW S, NEW T, S \subseteq T, NEW q \in Seq(S) PROVE q \in Seq(T)
    <2>1. \A i \in 1..Len(q) : q[i] \in T
      BY <1>5
    <2> QED
      BY <2>1
  <1>6. /\ supervisor_cmd_msgq \in Seq(0..255)
        /\ desired_motion_msgq \in Seq(Int \X Int)
    BY <1>1, <1>2, <1>5, Zenon DEF IInv, QueuesInv
  <1>7. actuator_cmd_msgq \in Seq((-128..127) \X (-127..128))
    BY <1>3, <1>5 DEF IInv, QueuesInv
  <1>8. desired_rpm_msgq \in Seq(Int16 \X Int16)
    BY <1>4, <1>5 DEF IInv, QueuesInv
  <1> QED
    BY <1>6, <1>7, <1>8 DEF IInv, QueuesInv, NewestInv, FramesSent, TypeOK

\* The types of the receiving thread: PWM commands stay within per cents of a byte,
\* speeds within int16_t, and no queue is longer than its capacity
\* (messenger_service.c:98-147).
THEOREM RxTypeCorrect == Spec => []TypeOK
  BY IInvType, Invariance, PTL

\* For every command the frames can carry: what any queue offers is a command that
\* was sent, modes and motions number for number, PWM and speeds as int8_t and
\* int16_t hold them (tbot_messenger.c:99-146, messenger_service.c:98-147).
THEOREM RxDeliveredAsSent == Spec => []DeliveredAsSent
  <1>1. IInv => DeliveredAsSent
    <2> SUFFICES ASSUME IInv PROVE DeliveredAsSent
      OBVIOUS
    <2>1. \A S : \A q \in Seq(S) : \A i \in DOMAIN q : q[i] \in S
      OBVIOUS
    <2>2. /\ supervisor_cmd_msgq \in Seq(ModesSent)
          /\ desired_motion_msgq \in Seq(MotionsSent)
          /\ actuator_cmd_msgq \in Seq(PwmsSent)
          /\ desired_rpm_msgq \in Seq(RpmsSent)
      BY DEF IInv, QueuesInv
    <2>3. /\ \A i \in DOMAIN supervisor_cmd_msgq : supervisor_cmd_msgq[i] \in ModesSent
          /\ \A i \in DOMAIN desired_motion_msgq : desired_motion_msgq[i] \in MotionsSent
          /\ \A i \in DOMAIN actuator_cmd_msgq : actuator_cmd_msgq[i] \in PwmsSent
          /\ \A i \in DOMAIN desired_rpm_msgq : desired_rpm_msgq[i] \in RpmsSent
      BY <2>1, <2>2
    <2> QED
      BY <2>3 DEF DeliveredAsSent, ModesSent, MotionsSent, PwmsSent, RpmsSent
  <1> QED
    BY <1>1, Invariance, PTL

\* However many commands are on their way and whenever the coordinator looks: the
\* motion and the mode it finds last are the newest that were sent, once no frame of
\* the kind is left in the CAN queue (messenger_service.c:100-147).
THEOREM RxNewestOffered == Spec => []NewestOffered
  <1>1. IInv => NewestOffered
    <2> SUFFICES ASSUME IInv PROVE NewestOffered
      OBVIOUS
    <2>1. \A q \in Seq(FramesSent) : DOMAIN q = 1..Len(q)
      OBVIOUS
    <2>2. DOMAIN can_msgq = 1..Len(can_msgq)
      BY <2>1 DEF IInv, QueuesInv
    <2> QED
      BY <2>2 DEF IInv, MotionTracked, ModeTracked, Tracks, NewestOffered
  <1> QED
    BY <1>1, Invariance, PTL
-----------------------------------------------------------------------------
\* The sending thread.

SpeedFrame(id, speed) == EncodeSpeed(id, speed[1], speed[2])
RawSent ==
  bus[EncoderRawId] = SpeedFrame(EncoderRawId, speed_control_feedback.raw)
FilteredSent ==
  bus[EncoderFilteredId]
    = SpeedFrame(EncoderFilteredId, speed_control_feedback.filtered)
TargetSent ==
  bus[TargetRpmId] = SpeedFrame(TargetRpmId, speed_control_feedback.target)

\* What has been sent of the report in hand, if nothing was lost.
TxInv ==
  /\ DOMAIN bus = Ids
  /\ pc \in {"raw", "filtered", "target"} =>
       speed_control_feedback \in Reports
  /\ ~failed /\ speed_control_feedback # NoReport =>
       /\ pc \in {"filtered", "target"} => RawSent
       /\ pc = "target" => FilteredSent
       /\ pc \in {"feedback", "state", "send_state"} =>
            RawSent /\ FilteredSent /\ TargetSent

LEMMA TxInitInv ==
  ASSUME TxInit
  PROVE  TxTypeOK /\ TxInv
  <1>1. /\ << >> \in Seq(Reports) /\ << >> \in Seq(Modes) /\ Len(<< >>) = 0
        /\ 0 <= TxDepth /\ 0 \in 0..MaxReports
    BY ReportsAssumption
  <1> QED
    BY <1>1 DEF TxInit, TxTypeOK, TxInv

\* A frame on the bus is the one its identifier says.
LEMMA TxSendType ==
  ASSUME TxInv, \A id \in Ids : bus[id] = NoFrame \/ bus[id].id = id,
         NEW f, f.id \in Ids, bus' = bus \/ bus' = [bus EXCEPT ![f.id] = f]
  PROVE  /\ DOMAIN bus' = Ids
         /\ \A id \in Ids : bus'[id] = NoFrame \/ bus'[id].id = id
         /\ bus' # bus => bus'[f.id] = f
         /\ \A id \in Ids \ {f.id} : bus'[id] = bus[id]
  BY DEF TxInv

LEMMA TxSpeedStep ==
  ASSUME TxTypeOK, TxInv,
         SendRaw \/ SendFiltered \/ SendTarget
  PROVE  TxTypeOK' /\ TxInv'
  <1> DEFINE r == speed_control_feedback
  <1>1. \A id \in Ids : bus[id] = NoFrame \/ bus[id].id = id
    BY DEF TxTypeOK
  <1>2. \A id, speed : /\ SpeedFrame(id, speed).id = id
                       /\ EncodeSpeed(id, speed[1], speed[2]) = SpeedFrame(id, speed)
    BY DEF SpeedFrame, EncodeSpeed
  <1>3. /\ EncoderRawId = 529 /\ EncoderFilteredId = 530
        /\ TargetRpmId = 531
        /\ EncoderRawId \in Ids /\ EncoderFilteredId \in Ids
        /\ TargetRpmId \in Ids
    BY DEF EncoderRawId, EncoderFilteredId, TargetRpmId, Ids, SpeedIds
  <1>4. ASSUME NEW at, NEW id \in {EncoderRawId, EncoderFilteredId, TargetRpmId},
               NEW speed,
               NEW next \in {"filtered", "target", "feedback"},
               SendSpeed(at, id, speed, next)
        PROVE  /\ TxTypeOK' /\ DOMAIN bus' = Ids
               /\ ~failed' => ~failed /\ bus'[id] = SpeedFrame(id, speed)
               /\ \A k \in Ids \ {id} : bus'[k] = bus[k]
               /\ pc = at /\ pc' = next /\ r' = r
    <2> DEFINE f == SpeedFrame(id, speed)
    <2>1. f.id = id /\ f = EncodeSpeed(id, speed[1], speed[2]) /\ id \in Ids
      BY <1>2, <1>3
    <2> HIDE DEF f
    <2>2. \/ bus' = [bus EXCEPT ![f.id] = f] /\ failed' = failed
          \/ bus' = bus /\ failed' = TRUE
      BY <1>4, <2>1 DEF SendSpeed, Send
    <2>3. /\ DOMAIN bus' = Ids
          /\ \A k \in Ids : bus'[k] = NoFrame \/ bus'[k].id = k
          /\ \A k \in Ids \ {id} : bus'[k] = bus[k]
      BY <1>1, <2>1, <2>2, TxSendType
    <2>4. ~failed' => ~failed /\ bus'[id] = f
      BY <2>1, <2>2 DEF TxInv
    <2>5. failed' \in BOOLEAN
      BY <2>2 DEF TxTypeOK
    <2>6. TxTypeOK'
      BY <1>4, <2>3, <2>5 DEF SendSpeed, TxTypeOK
    <2> QED
      BY <1>4, <2>3, <2>4, <2>6 DEF SendSpeed, f
  <1>5. CASE SendRaw
    <2>1. SendSpeed("raw", EncoderRawId, r.raw, "filtered")
      BY <1>5 DEF SendRaw
    <2>2. TxTypeOK' /\ DOMAIN bus' = Ids /\ pc = "raw" /\ pc' = "filtered" /\ r' = r
          /\ (~failed' => bus'[EncoderRawId] = SpeedFrame(EncoderRawId, r.raw))
      BY <1>4, <2>1
    <2> QED
      BY <2>2 DEF TxInv, RawSent
  <1>6. CASE SendFiltered
    <2>1. SendSpeed("filtered", EncoderFilteredId, r.filtered, "target")
      BY <1>6 DEF SendFiltered
    <2>2. /\ TxTypeOK' /\ DOMAIN bus' = Ids /\ pc = "filtered" /\ pc' = "target"
          /\ r' = r
          /\ ~failed' =>
               /\ ~failed
               /\ bus'[EncoderFilteredId]
                    = SpeedFrame(EncoderFilteredId, r.filtered)
          /\ \A k \in Ids \ {EncoderFilteredId} : bus'[k] = bus[k]
      BY <1>4, <2>1
    <2>3. bus'[EncoderRawId] = bus[EncoderRawId]
      BY <1>3, <2>2
    <2> QED
      BY <2>2, <2>3 DEF TxInv, RawSent, FilteredSent
  <1>7. CASE SendTarget
    <2>1. SendSpeed("target", TargetRpmId, r.target, "feedback")
      BY <1>7 DEF SendTarget
    <2>2. /\ TxTypeOK' /\ DOMAIN bus' = Ids /\ pc = "target" /\ pc' = "feedback"
          /\ r' = r
          /\ ~failed' =>
               /\ ~failed
               /\ bus'[TargetRpmId] = SpeedFrame(TargetRpmId, r.target)
          /\ \A k \in Ids \ {TargetRpmId} : bus'[k] = bus[k]
      BY <1>4, <2>1
    <2>3. /\ bus'[EncoderRawId] = bus[EncoderRawId]
          /\ bus'[EncoderFilteredId] = bus[EncoderFilteredId]
      BY <1>3, <2>2
    <2> QED
      BY <2>2, <2>3 DEF TxInv, RawSent, FilteredSent, TargetSent
  <1> QED
    BY <1>5, <1>6, <1>7

LEMMA TxStepInv ==
  ASSUME TxTypeOK, TxInv, [TxNext]_txVars
  PROVE  TxTypeOK' /\ TxInv'
  <1>1. CASE SendRaw \/ SendFiltered \/ SendTarget
    BY <1>1, TxSpeedStep
  <1>2. CASE GetFeedback
    <2>1. /\ MsgqGot(control_feedback_msgq) \in Reports
          /\ MsgqRest(control_feedback_msgq) \in Seq(Reports)
          /\ Len(MsgqRest(control_feedback_msgq)) <= TxDepth
      BY <1>2, GotFits, ReportsAssumption DEF GetFeedback, TxTypeOK
    <2> QED
      BY <1>2, <2>1 DEF GetFeedback, TxTypeOK, TxInv
  <1>3. CASE NoFeedback \/ Sleep
    BY <1>3 DEF NoFeedback, Sleep, TxTypeOK, TxInv, RawSent, FilteredSent,
       TargetSent
  <1>4. CASE GetState
    <2>1. /\ MsgqGot(robot_state_msgq) \in Modes
          /\ MsgqRest(robot_state_msgq) \in Seq(Modes)
          /\ Len(MsgqRest(robot_state_msgq)) <= TxDepth
      BY <1>4, GotFits, ReportsAssumption DEF GetState, TxTypeOK
    <2> QED
      BY <1>4, <2>1 DEF GetState, TxTypeOK, TxInv, RawSent,
         FilteredSent, TargetSent
  <1>5. CASE SendState
    <2> DEFINE f == EncodeSupervisedState(robot_state)
    <2>1. /\ f.id = 512 /\ SupervisedStateId = 512 /\ f.id \in Ids
          /\ EncoderRawId = 529 /\ EncoderFilteredId = 530
          /\ TargetRpmId = 531
          /\ EncoderRawId \in Ids /\ EncoderFilteredId \in Ids
          /\ TargetRpmId \in Ids
      BY DEF EncodeSupervisedState, SupervisedStateId, Ids, SpeedIds,
         EncoderRawId, EncoderFilteredId, TargetRpmId
    <2> HIDE DEF f
    <2>2. bus' = bus \/ bus' = [bus EXCEPT ![f.id] = f]
      BY <1>5, <2>1 DEF SendState, f
    <2>3. /\ DOMAIN bus' = Ids
          /\ \A k \in Ids : bus'[k] = NoFrame \/ bus'[k].id = k
          /\ \A k \in Ids \ {f.id} : bus'[k] = bus[k]
      BY <2>1, <2>2, TxSendType DEF TxTypeOK
    <2>4. /\ bus'[EncoderRawId] = bus[EncoderRawId]
          /\ bus'[EncoderFilteredId] = bus[EncoderFilteredId]
          /\ bus'[TargetRpmId] = bus[TargetRpmId]
      BY <2>1, <2>3
    <2> QED
      BY <1>5, <2>3, <2>4 DEF SendState, TxTypeOK, TxInv, RawSent,
         FilteredSent, TargetSent
  <1>6. ASSUME NEW raw \in Speeds, NEW filtered \in Speeds, NEW target \in Speeds,
               Report(raw, filtered, target)
        PROVE  TxTypeOK' /\ TxInv'
    <2> DEFINE m == [number |-> reports + 1, raw |-> raw, filtered |-> filtered,
                     target |-> target]
    <2>1. m \in Reports /\ reports' \in 0..MaxReports
      BY <1>6, ReportsAssumption DEF Report, Reports, TxTypeOK
    <2> HIDE DEF m
    <2>2. control_feedback_msgq' = Overwrite(control_feedback_msgq, m, TxDepth)
      BY <1>6 DEF Report, m
    <2>3. /\ control_feedback_msgq' \in Seq(Reports)
          /\ Len(control_feedback_msgq') <= TxDepth
      BY <2>1, <2>2, OverwriteFits, ReportsAssumption DEF TxTypeOK
    <2> QED
      BY <1>6, <2>1, <2>3 DEF Report, TxTypeOK, TxInv, RawSent,
         FilteredSent, TargetSent
  <1>7. ASSUME NEW m \in Modes, StateArrives(m) PROVE TxTypeOK' /\ TxInv'
    <2>1. robot_state_msgq' \in Seq(Modes) /\ Len(robot_state_msgq') <= TxDepth
      BY <1>7, OverwriteFits, ReportsAssumption DEF StateArrives, TxTypeOK
    <2> QED
      BY <1>7, <2>1 DEF StateArrives, TxTypeOK, TxInv, RawSent,
         FilteredSent, TargetSent
  <1>8. CASE UNCHANGED txVars
    BY <1>8 DEF txVars, TxTypeOK, TxInv, RawSent, FilteredSent, TargetSent
  <1> QED
    BY <1>1, <1>2, <1>3, <1>4, <1>5, <1>6, <1>7, <1>8 DEF TxNext, TxThread

LEMMA TxInvariance == TxSpec => [](TxTypeOK /\ TxInv)
  <1>1. TxInit => TxTypeOK /\ TxInv
    BY TxInitInv
  <1>2. (TxTypeOK /\ TxInv) /\ [TxNext]_txVars => (TxTypeOK /\ TxInv)'
    BY TxStepInv
  <1> QED
    BY <1>1, <1>2, PTL DEF TxSpec

\* The types of the sending thread (messenger_service.c:150-220).
THEOREM TxTypeCorrect == TxSpec => []TxTypeOK
  BY TxInvariance, PTL

\* For all speeds of 32 bits: when no send of a report failed, the computer reads its
\* three frames as the speeds and the target of that one report
\* (messenger_service.c:173-220, tbot_messenger.c).
THEOREM TxReportIsWhole == TxSpec => []ReportIsWhole
  <1>1. TxTypeOK /\ TxInv => ReportIsWhole
    <2> SUFFICES ASSUME TxTypeOK, TxInv, ~failed,
                        pc \in {"feedback", "state", "send_state"},
                        speed_control_feedback # NoReport
                 PROVE  ReportIsWhole
      BY DEF ReportIsWhole
    <2> DEFINE r == speed_control_feedback
    <2>1. /\ r.raw \in Int32 \X Int32 /\ r.filtered \in Int32 \X Int32
          /\ r.target \in Int32 \X Int32
      BY SpeedsAssumption DEF TxTypeOK, Reports
    <2>2. RawSent /\ FilteredSent /\ TargetSent
      BY DEF TxInv
    <2>3. ASSUME NEW id, NEW speed \in Int32 \X Int32, bus[id] = SpeedFrame(id, speed)
          PROVE  << ReadSpeed(bus[id]).left, ReadSpeed(bus[id]).right >> = speed
      <3>1. /\ DecodeWord(bus[id].data, 1) = speed[1]
            /\ DecodeWord(bus[id].data, 5) = speed[2]
        BY <2>3, SpeedRead DEF SpeedFrame
      <3> QED
        BY <3>1 DEF ReadSpeed
    <2> QED
      BY <2>1, <2>2, <2>3 DEF ReportIsWhole, RawSent, FilteredSent, TargetSent
  <1> QED
    BY <1>1, TxInvariance, PTL
=============================================================================
