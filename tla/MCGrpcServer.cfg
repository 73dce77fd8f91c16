\* Threads call shutdown at any time after start began, while calls execute, and
\* the owner may destroy the server without having waited for its end.
CONSTANTS
  Owner = o
  Stoppers = {t1, t2, t3}
  Rpcs = {c1, c2, c3}
SPECIFICATION FairSpec
INVARIANTS RunningMeansServing NoHandlerOutlivesServer
PROPERTY ShutdownStops
\* The process may end.
CHECK_DEADLOCK FALSE
