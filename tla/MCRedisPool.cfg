\* More threads than connections.
CONSTANTS
  Workers = {w1, w2, w3}
  Connections = {c1, c2}
  PoolSize = 2
  None = None
SPECIFICATION FairSpec
INVARIANTS LeasesExclusive NoLostWakeup
PROPERTIES ImplementsPool CallsReturn
\* The client may be gone, or its behaviour undefined.
CHECK_DEADLOCK FALSE
