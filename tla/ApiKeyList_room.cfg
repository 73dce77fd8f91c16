\* A user with an expired key, at a limit of one.
CONSTANTS
  MaxRows = 2
  MaxKeys = 1
  MaxTime = 2
  Null = Null
SPECIFICATION Spec
INVARIANT RoomShownIsRoom
\* One list is answered.
CHECK_DEADLOCK FALSE
