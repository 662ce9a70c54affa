\* A stream and a plain request that share the sessions of one node, which may
\* disconnect, reconnect and replace its own connection.  Redis replies.
SPECIFICATION DropSpec
CONSTANTS
  n1 = n1
  n2 = n2
  c1 = c1
  c2 = c2
  c3 = c3
  Nodes = {n1}
  Conns = {c1, c2}
  NodeOf <- MCNodeOfOne
  NoConn = NoConn
  NoNode = NoNode
  NoTask = NoTask
  TaskIds = {t1, t2}
  Streams = {t1}
  DispatchAttempts = 1
  MaxResultBytes = 1
  Sizes = {1, 2}
  RedisMayFail = FALSE
INVARIANTS
  NoOrphanedTask
  LiveSessionsAreUp
  OnlyAssignedConnectionAnswers
  FinalEventIsLast
  TrackedWhileServed
PROPERTIES
  DisconnectFailsFast
CHECK_DEADLOCK FALSE
