\* One stream, two nodes, one of which may reconnect; a failed send falls back
\* to the other node, and any call to Redis may raise.
SPECIFICATION FairSpec
CONSTANTS
  n1 = n1
  n2 = n2
  c1 = c1
  c2 = c2
  c3 = c3
  Nodes = {n1, n2}
  Conns = {c1, c2, c3}
  NodeOf <- MCNodeOf
  NoConn = NoConn
  NoNode = NoNode
  NoTask = NoTask
  TaskIds = {t1}
  Streams = {t1}
  DispatchAttempts = 2
  MaxResultBytes = 2
  Sizes = {1, 3}
  RedisMayFail = TRUE
INVARIANTS
  StreamIsComplete
PROPERTIES
  PromiseIsKept
  EveryRequestEnds
CHECK_DEADLOCK FALSE
