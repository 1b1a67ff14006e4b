--------------------------- MODULE MC_RccarDrive ---------------------------
(***************************************************************************)
(* RccarDrive with frames for: full speed ahead and beyond the end of the  *)
(* steering; slowly backwards; sticks in the dead zones; stopped; CAN.     *)
(***************************************************************************)
EXTENDS RccarDrive

Frame(steer, drive, go, mode) ==
  [ch1 |-> steer, ch2 |-> drive, ch5 |-> go, ch6 |-> mode]

SomeFrames ==
  {Frame(-1100, 1000, 1, -1000), Frame(333, -333, 1, -1000),
   Frame(99, 49, 1, -1000), Frame(333, -333, 0, -1000), Frame(0, 0, 1, -500)}
=============================================================================
