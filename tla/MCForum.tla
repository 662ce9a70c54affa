------------------------------- MODULE MCForum -------------------------------
(***************************************************************************)
(* Instances of Forum for TLC: two seeded posts, one of which has a reply. *)
(***************************************************************************)
EXTENDS Forum, TLC

MCSeedCounts == <<1, 0>>

MCSeedReplies == <<1>>

Symmetric == Permutations(Visitors)
==============================================================================
