--------------------------- MODULE MCRequestLimits ---------------------------
(***************************************************************************)
(* Instances of RequestLimits for TLC: the addresses are interchangeable.  *)
(***************************************************************************)
EXTENDS RequestLimits, TLC

Symmetric == Permutations(Clients)
==============================================================================
