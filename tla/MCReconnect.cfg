\* One node that may reconnect and whose account may be deleted, over a Redis
\* that may fail.
SPECIFICATION FairSpec
CONSTANTS
  n1 = n1
  n2 = n2
  c1 = c1
  c2 = c2
  c3 = c3
  acc = acc
  Nodes = {n1}
  Conns = {c1, c2}
  NodeOf <- MCNodeOfOne
  NoConn = NoConn
  NoNode = NoNode
  Accounts = {acc}
  AccountOf <- MCAccountOf
  MaxNodesPerAccount = 1
  AccountsMayBeDeleted = TRUE
  RedisMayFail = TRUE
PROPERTIES
  ReplacedConnectionsClose
  ExpiredEntryIsRestored
  DeletionEndsSessions
CHECK_DEADLOCK FALSE
