------------------------- MODULE MC_TbotSpeedControl -------------------------
(***************************************************************************)
(* TbotSpeedControl with the gains of the code (kp 0.2, ki 1.2 and 0.95    *)
(* over 20 ms).  A target of -750 rpm saturates at once, one of 250 rpm    *)
(* after some turns; the wheels stand still or run at 250 rpm.             *)
(***************************************************************************)
EXTENDS TbotSpeedControl

Kp == [i \in Wheels |-> 200]
Ki == [i \in Wheels |-> IF i = 0 THEN 24 ELSE 19]

Both(r) == [i \in Wheels |-> r]
SomeTargets == {Both(250), Both(-750)}
SomeEstimates ==
  {[raw |-> Both(0), filtered |-> Both(0)],
   [raw |-> Both(300), filtered |-> Both(250)]}
=============================================================================
