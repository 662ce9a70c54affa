\* Two addresses on a limiter that tracks one before it prunes, one visitor of
\* the forum, windows of two ticks; a body limit of two units.
SPECIFICATION Spec
CONSTANTS
  Clients = {a1, a2}
  Visitors = {v1}
  Limit = 2
  Window = 2
  MaxKeys = 1
  MaxTime = 3
  MaxBytes = 2
  Sizes = {1, 3}
  NoLength = NoLength
SYMMETRY Symmetric
INVARIANTS
  NoBurst
  RefusalsAreDeserved
  OversizedGetsOneResponse
CHECK_DEADLOCK FALSE
