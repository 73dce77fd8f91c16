\* Three of four requests of a user run at once.
CONSTANTS
  Requests = {r1, r2, r3, r4}
  KeyIds = {k1, k2, k3}
  Prefixes = {p1, p2}
  MaxKeys = 1
  MaxAttempts = 2
  MinAhead = 1
  MaxTime = 2
  Concurrency = 3
  Null = Null
SPECIFICATION Spec
SYMMETRY Symmetry
INVARIANTS TypeOK OverrunBounded AuditTrue
PROPERTY RevokedForGood
\* Every request is handled once.
CHECK_DEADLOCK FALSE
