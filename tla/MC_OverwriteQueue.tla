-------------------------- MODULE MC_OverwriteQueue --------------------------
(***************************************************************************)
(* Instances of OverwriteQueue.  Two producers with the priorities of the  *)
(* two writers of desired_rpm_queue (messenger rx 2, motion control 3; see *)
(* InitRobot); every set of writers among them is an initial state.        *)
(***************************************************************************)
EXTENDS OverwriteQueue

CONSTANTS rx, motion

BothWriters == {rx, motion}
TbotPrio == [p \in Producers |-> IF p = rx THEN 2 ELSE 3]
=============================================================================
