\* A stream on a node whose first connection may break, and its benchmarks.
SPECIFICATION FairWorkSpec
CONSTANTS
  Nodes = {n1}
  Conns = {1, 2}
  NoConn = 0
  TaskIds = {t1}
  Streams = {t1}
  NoTask = NoTask
  MaxResultBytes = 5
  MaxPieces = 1
  Benchmarks = {b1, b2, b3}
  NoBenchmark = NoBenchmark
  MaxHung = 1
INVARIANTS
  WorkTypeOK
  CompletedStreamsAreWhole
PROPERTIES
  AssignedTasksEnd
  ProfileComesBack
CHECK_DEADLOCK FALSE
