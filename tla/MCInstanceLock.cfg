\* Refreshes every tick, one tick late at most, and one in a row may raise: 4
\* ticks between two that succeed, within a time to live of 5.
SPECIFICATION LockSpec
CONSTANTS
  Processes = {p1, p2, p3}
  NoProcess = NoProcess
  Ttl = 5
  Wait = 6
  Retry = 1
  Refresh = 1
  Late = 1
  MaxMisses = 1
  MaxNow = 16
SYMMETRY Processors
INVARIANTS
  MutualExclusion
  OnlyContendedStartsAreRefused
PROPERTIES
  KeyBelongsToItsOwner
CHECK_DEADLOCK FALSE
