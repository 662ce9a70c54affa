--------------------------- MODULE MCInstanceLock ----------------------------
(***************************************************************************)
(* Coordinator processes are alike; the real times (15, 20, 1 and 5 seconds)   *)
(* are scaled to the smallest ones with the same order between them.       *)
(***************************************************************************)
EXTENDS InstanceLock, TLC

Processors == Permutations(Processes)
==============================================================================
