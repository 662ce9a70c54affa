\* Two processes that run the same node, one fault, each may be stopped.
SPECIFICATION FairSpec
CONSTANTS
  Procs = {p1, p2}
  Stoppable = {p1}
  Conns = {c1, c2, c3}
  NoProc = NoProc
  NoConn = NoConn
  MaxFaults = 1
INVARIANTS
  OnlyRegisteredIsSentTo
PROPERTIES
  StopIsObeyed
  SystemSettles
CHECK_DEADLOCK FALSE
