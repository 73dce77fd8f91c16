\* The destructor runs while another thread shuts the server down.
CONSTANTS
  Owner = o
  Stoppers = {t1}
  Rpcs = {c1}
SPECIFICATION Spec
INVARIANT GraceGranted
CHECK_DEADLOCK FALSE
