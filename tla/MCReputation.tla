---------------------------- MODULE MCReputation -----------------------------
(***************************************************************************)
(* Instances of Reputation for TLC: tasks that end well or badly on one    *)
(* node, or are split over two.                                            *)
(***************************************************************************)
EXTENDS Reputation, TLC

CONSTANTS n1, n2, t1, t2, a1, a2

MCRequesterOf == [t \in Tasks |-> a1]

Ended(n, success, elapsed) == [node |-> n, success |-> success, elapsed |-> elapsed]

MCOutcomeLists ==
  {<<Ended(n1, FALSE, 1)>>, <<Ended(n1, TRUE, 0), Ended(n2, FALSE, 1)>>}

Symmetric == Permutations(Raters)
==============================================================================
