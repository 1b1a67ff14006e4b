--------------------------- MODULE MC_TbotActuator ---------------------------
(***************************************************************************)
(* TbotActuator with commands inside the dead zone only, in thousandths.   *)
(***************************************************************************)
EXTENDS TbotActuator

Pair(l, r) == [i \in Motors |-> IF i = 0 THEN l ELSE r]

NeutralCmds == {Pair(0, 0), Pair(49, -49)}
=============================================================================
