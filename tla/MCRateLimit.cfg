\* Two threads whose calls overtake each other on the way to Redis.
CONSTANTS
  Threads = {w1, w2}
  Ids = {i1, i2, i3}
  Limit = 2
  WindowMs = 3
  MaxInt = 127
  MaxTime = 7
  MaxDelay = 2
  None = None
SPECIFICATION Spec
SYMMETRY Symmetry
INVARIANTS WithinLimit TracksWindow WindowLessDelay
PROPERTY RetriesAdmitted
\* The clock stops.
CHECK_DEADLOCK FALSE
