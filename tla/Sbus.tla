-------------------------------- MODULE Sbus --------------------------------
(***************************************************************************)
(* The SBUS frame: how the decoder takes it apart (module/sbus/src/sbus.c) *)
(* and how a transmitter puts it together.  Uint8 1 to 22 of a frame hold  *)
(* 16 channels of 11 bits, byte 23 the flags.  Sequences are 1-based: byte *)
(* k of a frame is its element k + 1.                                      *)
(***************************************************************************)
EXTENDS Integers, Sequences

FrameLength == 25
FrameHead == 15     \* 0x0f
FrameTail == 0

Uint8 == {x \in Int : 0 <= x /\ x < 256}

\* byte & mask, of a mask with one bit.
HasFlag(byte, mask) == (byte \div mask) % 2 = 1

\* sframe_buf[k], shifted left or right; by is the power of two of the shift.
Up(buf, k, by) == buf[k + 1] * by
Down(buf, k, by) == buf[k + 1] \div by

\* The parts of channels 0 to 7 come from bytes 1 to 11, those of channels 8 to
\* 15 in the same way from bytes 12 to 22.  The parts have no bit in common, so
\* that + is |.
ChannelParts(buf, from) ==
  << Down(buf, from, 1) + Up(buf, from + 1, 256),
     Down(buf, from + 1, 8) + Up(buf, from + 2, 32),
     Down(buf, from + 2, 64) + Up(buf, from + 3, 4) + Up(buf, from + 4, 1024),
     Down(buf, from + 4, 2) + Up(buf, from + 5, 128),
     Down(buf, from + 5, 16) + Up(buf, from + 6, 16),
     Down(buf, from + 6, 128) + Up(buf, from + 7, 2) + Up(buf, from + 8, 512),
     Down(buf, from + 8, 4) + Up(buf, from + 9, 64),
     Down(buf, from + 9, 32) + Up(buf, from + 10, 8) >>

\* The two digital channels are left out: nothing reads them.
SbusBuildMessage(buf) ==
  [channels |-> [i \in 1..16 |-> IF i <= 8 THEN ChannelParts(buf, 1)[i] % 2048
                                 ELSE ChannelParts(buf, 12)[i - 8] % 2048],
   frame_loss |-> HasFlag(buf[24], 32), fault_protection |-> HasFlag(buf[24], 16)]

-----------------------------------------------------------------------------
\* The transmitter, which is not part of the repository: "[0] 0x0f, [1-22]
\* channel data, [23] flags, [24] 0x00" (module/sbus/include/sbus/sbus.h:9-14),
\* the channels one after the other, least significant bit first: 8 of them fill
\* 11 bytes.

Packed(c, n) ==
  << c[n + 1] % 256,
     c[n + 1] \div 256 + (c[n + 2] % 32) * 8,
     c[n + 2] \div 32 + (c[n + 3] % 4) * 64,
     (c[n + 3] \div 4) % 256,
     c[n + 3] \div 1024 + (c[n + 4] % 128) * 2,
     c[n + 4] \div 128 + (c[n + 5] % 16) * 16,
     c[n + 5] \div 16 + (c[n + 6] % 2) * 128,
     (c[n + 6] \div 2) % 256,
     c[n + 6] \div 512 + (c[n + 7] % 64) * 4,
     c[n + 7] \div 64 + (c[n + 8] % 8) * 32,
     c[n + 8] \div 8 >>

\* The frames there are.
SbusFrames ==
  [channels : [1..16 -> {x \in Int : 0 <= x /\ x < 2048}], flags : Uint8]

FrameBytes(f) ==
  [k \in 1..FrameLength |->
     CASE k = 1 -> FrameHead
       [] k \in 2..12 -> Packed(f.channels, 0)[k - 1]
       [] k \in 13..23 -> Packed(f.channels, 8)[k - 12]
       [] k = 24 -> f.flags
       [] k = 25 -> FrameTail]

\* The message a frame is to be decoded to.
MessageOf(f) ==
  [channels |-> f.channels,
   frame_loss |-> HasFlag(f.flags, 32), fault_protection |-> HasFlag(f.flags, 16)]
=============================================================================
