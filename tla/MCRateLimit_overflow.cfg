\* A window of more than half of the integers.
CONSTANTS
  Threads = {w1}
  Ids = {i1, i2}
  Limit = 2
  WindowMs = 5
  MaxInt = 7
  MaxTime = 4
  MaxDelay = 1
  None = None
SPECIFICATION Spec
INVARIANT TracksWindow
\* The clock stops.
CHECK_DEADLOCK FALSE
