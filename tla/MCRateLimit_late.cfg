\* A call that took its time first reaches Redis last.
CONSTANTS
  Threads = {w1, w2}
  Ids = {i1, i2, i3, i4}
  Limit = 2
  WindowMs = 2
  MaxInt = 127
  MaxTime = 4
  MaxDelay = 1
  None = None
SPECIFICATION Spec
SYMMETRY Symmetry
INVARIANT SlidingWindow
CHECK_DEADLOCK FALSE
