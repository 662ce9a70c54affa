\* Two tasks recorded and rated at the same time, while Redis may fail and
\* accounts may be deleted.
SPECIFICATION Spec
CONSTANTS
  n1 = n1
  n2 = n2
  t1 = t1
  t2 = t2
  a1 = a1
  a2 = a2
  NodeIds = {n1, n2}
  Tasks = {t1, t2}
  Accounts = {a1, a2}
  RequesterOf <- MCRequesterOf
  OutcomeLists <- MCOutcomeLists
  Raters = {r1, r2}
  NoNode = NoNode
  MaxRatings = 1
  SuspendAfter = 1
  RedisMayFail = TRUE
SYMMETRY Symmetric
INVARIANTS
  EachOutcomeCountsOnce
  OnlyFailingNodesAreSuspended
  RatedOnceByRequester
  AnsweredRatingIsApplied
  RatingsAreBounded
CHECK_DEADLOCK FALSE
