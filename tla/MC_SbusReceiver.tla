-------------------------- MODULE MC_SbusReceiver --------------------------
(***************************************************************************)
(* SbusReceiver with a frame that has no data byte that looks like a       *)
(* delimiter, and one with two of them (a stick at its end, 1807 = 0x70f,  *)
(* and flags of 0); with a ring that is smaller than a frame, so that it   *)
(* fills up when the thread is late.                                       *)
(***************************************************************************)
EXTENDS SbusReceiver

Plain(n, flags) == [channels |-> [i \in 1..16 |-> 700 + n * i], flags |-> flags]
StickAtEnd ==
  [channels |-> [i \in 1..16 |-> IF i = 1 THEN 1807 ELSE (i * 677 + 341) % 2048],
   flags |-> 0]

SomeFrames == {StickAtEnd, Plain(1, 16)}

\* Bit n of the channels, one after the other.
PayloadBit(f, n) == HasFlag(f.channels[n \div 11 + 1], 2 ^ (n % 11))

ASSUME LeastSignificantFirst ==
  \A f \in SomeFrames : \A n \in 0..175 :
    PayloadBit(f, n) <=> HasFlag(FrameBytes(f)[n \div 8 + 2], 2 ^ (n % 8))

ASSUME BothKinds == {Quiet(f) : f \in SomeFrames} = BOOLEAN
=============================================================================
