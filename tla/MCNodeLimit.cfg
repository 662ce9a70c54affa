\* Two nodes of one account and a limit of one; n1 may reconnect, and Redis
\* may fail.
SPECIFICATION Spec
CONSTANTS
  n1 = n1
  n2 = n2
  c1 = c1
  c2 = c2
  c3 = c3
  acc = acc
  Nodes = {n1, n2}
  Conns = {c1, c2, c3}
  NodeOf <- MCNodeOf
  NoConn = NoConn
  NoNode = NoNode
  Accounts = {acc}
  AccountOf <- MCAccountOf
  MaxNodesPerAccount = 1
  AccountsMayBeDeleted = FALSE
  RedisMayFail = TRUE
INVARIANTS
  NodeLimitHolds
PROPERTIES
  OnlyDropsTakeNodesOffline
CHECK_DEADLOCK FALSE
