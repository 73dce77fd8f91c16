\* A client that asks for a length of the page.
CONSTANTS
  Ids = {1, 2}
  PerPage = 1
  MaxTime = 1
  Null = Null
SPECIFICATION Spec
INVARIANT PerPageServed
\* The client reads the list once.
CHECK_DEADLOCK FALSE
