----------------------------- MODULE MC_Startup ------------------------------
(***************************************************************************)
(* Startup with commands on both sides of every limit, in thousandths, and *)
(* any kind of device missing but the PWM channels, whose drivers are bound *)
(* when the firmware is linked.                                            *)
(***************************************************************************)
EXTENDS Startup

Pair(l, r) == [i \in Motors |-> IF i = 0 THEN l ELSE r]

SomeCmds == {Pair(0, 49), Pair(1270, -600), Pair(50, -1280)}

BoundAtRunTime == Kinds \ {"pwm"}
=============================================================================
