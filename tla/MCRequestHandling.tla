-------------------------- MODULE MCRequestHandling --------------------------
(***************************************************************************)
(* Instances of RequestHandling for TLC: node n1 connects up to twice (a   *)
(* reconnection that replaces, or follows, its first session), node n2     *)
(* once.                                                                   *)
(***************************************************************************)
EXTENDS RequestHandling, TLC

CONSTANTS n1, n2, c1, c2, c3

MCNodeOf == (c1 :> n1) @@ (c2 :> n1) @@ (c3 :> n2)
MCNodeOfOne == (c1 :> n1) @@ (c2 :> n1)
==============================================================================
