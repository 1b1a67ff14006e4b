-------------------------------- MODULE Vesc --------------------------------
(***************************************************************************)
(* The two VESC commands the rccar sends, servo positions and speeds       *)
(* (module/vesc/src/vesc_cmd_parser.c), as frames, and what the VESC reads *)
(* from them.                                                              *)
(*                                                                         *)
(* CAN_EFF_FLAG, which the code adds to every identifier, is left out: the *)
(* identifier of a zcan_frame has 29 bits, so that the flag, bit 31, does  *)
(* not get there, and SendCanFrame marks the frame as extended by other    *)
(* means (module/mcal/src/can_interface.c:120-142).  Positions come as     *)
(* fractions num / den; float rounding, which may cost them their last     *)
(* digit, is left out.                                                     *)
(***************************************************************************)
EXTENDS Integers, Sequences

VescRpmCmdFrameId == 768                    \* 0x300
VescProcessShortBufferCmdFrameId == 2048    \* 0x800
VescCommSetServoPosId == 12

\* C conversion to an integer.
Truncate(num, den) == IF num >= 0 THEN num \div den ELSE -((-num) \div den)

\* To 0..1, for num / den.
ClampCommand(num, den) == IF num > den THEN den ELSE IF num < 0 THEN 0 ELSE num

\* The bytes of an int32_t x, the most significant first.
Bytes(x) == LET low == x % 65536
                high == (x \div 65536) % 65536
            IN << high \div 256, high % 256, low \div 256, low % 256 >>

VescSetServoPosCmdPacketToFrame(vesc_id, num, den) ==
  LET pos_cmd == Truncate(1000 * ClampCommand(num, den), den)
  IN [id |-> VescProcessShortBufferCmdFrameId + vesc_id,
      data |-> << vesc_id, 0, VescCommSetServoPosId,
                  pos_cmd \div 256, pos_cmd % 256 >>]

\* Faulty variant: the high bytes are those of the magnitude.
RpmFrameUnsigned(vesc_id, rpm) ==
  [id |-> VescRpmCmdFrameId + vesc_id,
   data |-> SubSeq(Bytes(IF rpm < 0 THEN -rpm ELSE rpm), 1, 2)
            \o SubSeq(Bytes(rpm), 3, 4)]

VescSetRpmCmdPacketToFrame(vesc_id, rpm) ==
  [id |-> VescRpmCmdFrameId + vesc_id, data |-> Bytes(rpm)]

-----------------------------------------------------------------------------
\* The VESC is not part of the repository.  It is taken to read an int32_t from
\* a speed and a number of thousandths from a servo position.

Word(d) ==
  LET high == 256 * d[1] + d[2]
  IN 65536 * (IF high > 32767 THEN high - 65536 ELSE high) + 256 * d[3] + d[4]

VescCmd(type, value) == [type |-> type, value |-> value]

VescReads(frame, vesc_id) ==
  LET d == frame.data
  IN CASE frame.id = VescProcessShortBufferCmdFrameId + vesc_id
          /\ d[3] = VescCommSetServoPosId ->
            VescCmd("servo_pos", 256 * d[4] + d[5])
       [] frame.id = VescRpmCmdFrameId + vesc_id -> VescCmd("rpm", Word(d))
       [] OTHER -> VescCmd("unknown", 0)

\* It reads the position num / den, within 0..1 and cut after the last thousandth.
ReadsPosition(frame, vesc_id, num, den) ==
  LET cmd == VescReads(frame, vesc_id)
      rest == 1000 * ClampCommand(num, den) - den * cmd.value
  IN cmd.type = "servo_pos" /\ 0 <= rest /\ rest < den
=============================================================================
