--------------------------- MODULE MCNodeSessions ----------------------------
(***************************************************************************)
(* Instances of NodeSessions for TLC: node n1 may connect twice, node n2   *)
(* once; both belong to one account.                                       *)
(***************************************************************************)
EXTENDS NodeSessions, TLC

CONSTANTS n1, n2, c1, c2, c3, acc

MCNodeOf == (c1 :> n1) @@ (c2 :> n1) @@ (c3 :> n2)
MCNodeOfOne == (c1 :> n1) @@ (c2 :> n1)
MCAccountOf == [n \in Nodes |-> acc]
==============================================================================
