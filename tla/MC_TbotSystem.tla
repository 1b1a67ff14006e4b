---------------------------- MODULE MC_TbotSystem ----------------------------
(***************************************************************************)
(* Small instances of TbotSystem: driving, reversing, turning and stopping *)
(* at walking pace, so that both limits and the reversal through and past  *)
(* zero happen, and one speed command from the bus.                        *)
(***************************************************************************)
EXTENDS TbotSystem

Motion(lin, ang) == [linear |-> lin, angular |-> ang]

WalkingPace == {Motion(0, 0), Motion(20, 0), Motion(-10, 30)}

OneSpeed == {[i \in Wheels |-> 5]}
=============================================================================
