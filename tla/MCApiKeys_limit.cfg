\* Two creations run at once.
CONSTANTS
  Requests = {r1, r2}
  KeyIds = {k1, k2, k3}
  Prefixes = {p1, p2}
  MaxKeys = 1
  MaxAttempts = 2
  MinAhead = 1
  MaxTime = 1
  Concurrency = 2
  Null = Null
SPECIFICATION Spec
SYMMETRY Symmetry
INVARIANT LimitHolds
\* Every request is handled once.
CHECK_DEADLOCK FALSE
