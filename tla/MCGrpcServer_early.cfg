\* shutdown is called while start still runs.
CONSTANTS
  Owner = o
  Stoppers = {t1}
  Rpcs = {}
SPECIFICATION FairSpec
PROPERTY EveryShutdownStops
CHECK_DEADLOCK FALSE
