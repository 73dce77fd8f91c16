\* Messages of every kind, a process that dies again and again.
CONSTANTS
  Kinds = {"user", "empty", "garbage", "envelope"}
  MaxMessages = 4
  Retries = 1
  MaxCrashes = 2
  None = None
SPECIFICATION FairSpec
INVARIANTS NothingSkipped
PROPERTIES EventsKept CleanEventsHandled
\* A consumer that has caught up may wait for ever.
CHECK_DEADLOCK FALSE
