\* Among the events are some in the envelope the user service declares.
CONSTANTS
  Kinds = {"user", "envelope"}
  MaxMessages = 3
  Retries = 1
  MaxCrashes = 0
  None = None
SPECIFICATION FairSpec
PROPERTY EventsHandled
CHECK_DEADLOCK FALSE
