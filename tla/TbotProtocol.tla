---------------------------- MODULE TbotProtocol ----------------------------
(***************************************************************************)
(* The CAN frames of the tbot                                              *)
(* (service/robot_tbot/messenger/src/tbot/tbot_messenger.c).  A frame is   *)
(* an identifier and a sequence of bytes; numbers travel as 32-bit words   *)
(* in two's complement, most significant byte first.  Motions travel in    *)
(* hundredths; the model keeps them so and leaves out the division by 100  *)
(* and the rounding of its float.                                          *)
(***************************************************************************)
EXTENDS Integers, Sequences

SupervisorCmdId == 256       \* 0x100
PwmCmdId == 257
MotorCmdId == 258
MotionCmdId == 259
SupervisedStateId == 512     \* 0x200
EncoderRawId == 529          \* 0x211
EncoderFilteredId == 530
TargetRpmId == 531

-----------------------------------------------------------------------------
\* The integer types, and the C conversions between them.

Int32 == {x \in Int : -2147483647 - 1 <= x /\ x <= 2147483647}
Int16 == {x \in Int : -32768 <= x /\ x <= 32767}

Byte(x) == x % 256
Signed(b, bits) == IF b >= 2 ^ (bits - 1) THEN b - 2 ^ bits ELSE b
ToInt8(x) == Signed(x % 2 ^ 8, 8)
ToInt16(x) == Signed(x % 2 ^ 16, 16)

\* Faulty variant: the middle bytes of a word are swapped.
EncodeWordSwapped(x) ==
  << Byte(x \div 2 ^ 24), Byte(x \div 2 ^ 8), Byte(x \div 2 ^ 16), Byte(x) >>

EncodeWord(x) ==
  << Byte(x \div 2 ^ 24), Byte(x \div 2 ^ 16), Byte(x \div 2 ^ 8), Byte(x) >>

\* Faulty variant: least significant byte first.
DecodeWordLittle(data, from) ==
  ((Signed(data[from + 3], 8) * 256 + data[from + 2]) * 256 + data[from + 1]) * 256
    + data[from]

\* The word that starts at byte number from.
DecodeWord(data, from) ==
  ((Signed(data[from], 8) * 256 + data[from + 1]) * 256 + data[from + 2]) * 256
    + data[from + 3]

-----------------------------------------------------------------------------
\* What the robot sends.

EncodeSupervisedState(mode) ==
  [id |-> SupervisedStateId, data |-> << Byte(mode) >>]

\* An encoder raw, encoder filtered or target rpm frame.
EncodeSpeed(id, left, right) ==
  [id |-> id, data |-> EncodeWord(left) \o EncodeWord(right)]

\* What the robot understands of a frame.
DecodeCanMessage(frame) ==
  CASE frame.id = SupervisorCmdId ->
         [type |-> "supervisor", mode |-> frame.data[1]]
    [] frame.id = PwmCmdId ->
         [type |-> "pwm", left |-> ToInt8(frame.data[1]),
                          right |-> ToInt8(frame.data[2])]
    [] frame.id \in {MotorCmdId, MotionCmdId} ->
         [type |-> IF frame.id = MotorCmdId THEN "motor" ELSE "motion",
          left |-> DecodeWord(frame.data, 1), right |-> DecodeWord(frame.data, 5)]
    [] OTHER -> [type |-> "unknown"]

-----------------------------------------------------------------------------
\* The computer at the other end of the bus is not part of the repository; it
\* is taken to follow tbot_protocol.md, with a byte for a PWM of either sign.

CommandFrame(c) ==
  CASE c.type = "supervisor" -> [id |-> SupervisorCmdId, data |-> << c.mode >>]
    [] c.type = "pwm" ->
         [id |-> PwmCmdId, data |-> << Byte(c.left), Byte(c.right) >>]
    [] c.type = "motor" -> EncodeSpeed(MotorCmdId, c.left, c.right)
    [] c.type = "motion" -> EncodeSpeed(MotionCmdId, c.left, c.right)
    [] OTHER -> [id |-> 0, data |-> << >>]

\* A speed frame as the computer reads it.
ReadSpeed(frame) ==
  [left |-> DecodeWord(frame.data, 1), right |-> DecodeWord(frame.data, 5)]
=============================================================================
