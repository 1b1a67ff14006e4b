------------------------- MODULE MC_EncoderService -------------------------
(***************************************************************************)
(* EncoderService with a wheel that stands, turns so fast that its raw     *)
(* speeds reach just below the limit of the filter, or at twice that, just *)
(* at the number of pulses that is taken for real.  The pulses of a sample *)
(* are an eighth and a quarter of the range of the counter, the thread     *)
(* samples a millisecond early or late, and the average is taken of two    *)
(* estimates.                                                              *)
(***************************************************************************)
EXTENDS EncoderService

SomeDeltas == {0, 8192, -8192, 16384, -16384}
SomeStarts == {8192, 57344}
=============================================================================
