\* Two visitors, one secret or none, two starts of the process on a new file
\* or on one of either older version; votes are kept for one tick.
SPECIFICATION Spec
CONSTANTS
  Visitors = {v1, v2}
  Secrets = {s1}
  Retention = 1
  SeedCounts <- MCSeedCounts
  SeedReplies <- MCSeedReplies
  MaxPosts = 2
  MaxReplies = 2
  MaxTime = 2
  MaxStarts = 2
SYMMETRY Symmetric
INVARIANTS
  OneVotePerVisitor
  CountersMatchRows
  ServesMigratedData
CHECK_DEADLOCK FALSE
