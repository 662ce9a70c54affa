---------------------------- MODULE RequestLimits ----------------------------
(***************************************************************************)
(* coordinator/limits.py: the sliding windows and, beside them, a request  *)
(* body on its way through the size limit.  They share no state.           *)
(***************************************************************************)
EXTENDS SlidingWindow, BodySize

vars == <<windowVars, bodyVars>>

TypeOK == WindowTypeOK /\ BodyTypeOK

Init == WindowInit /\ BodyInit

Next ==
  \/ WindowNext /\ UNCHANGED bodyVars
  \/ BodyNext /\ UNCHANGED windowVars

Spec == Init /\ [][Next]_vars
==============================================================================
