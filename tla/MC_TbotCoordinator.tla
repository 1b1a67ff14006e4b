------------------------- MODULE MC_TbotCoordinator -------------------------
(***************************************************************************)
(* Small instances of TbotCoordinator.  The frames cover both positions of *)
(* both switches; sticks and CAN commands are told apart by their values.  *)
(***************************************************************************)
EXTENDS TbotCoordinator

Frame(lin, ang, stop, mode) ==
  [ch0 |-> ang, ch2 |-> lin, ch6 |-> stop, ch7 |-> mode]

\* Driving by RC; the same with the stop switch on; CAN selected; CAN selected
\* with the stop switch on.
FourFrames == {Frame(2, 1, -1, 0), Frame(2, 1, 1, 0),
               Frame(2, 1, -1, 1), Frame(2, 1, 1, -1)}

TwoCanMotions == {[linear |-> 3, angular |-> 1], [linear |-> 0, angular |-> 0]}
=============================================================================
