\* Two parts and three nodes, each of which may go at any time.
SPECIFICATION FairSpec
CONSTANTS
  Nodes = {n1}
  Conns = {c1, c2, c3}
  NoConn = NoConn
  NoTask = NoTask
  TaskIds = {1, 2}
  SplitChunks = 2
  DispatchAttempts = 2
  Sizes = {1, 2}
  MaxResultBytes = 1
  MaxUnits = 5
INVARIANTS
  PartsAreReleased
  OutcomesAreOfTheirNodes
  AnswerIsOfTheWholeContent
PROPERTIES
  LostPartsEnd
  WaitsOnlyForNodes
CHECK_DEADLOCK FALSE
