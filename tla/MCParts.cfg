\* Two registrations or logins beside the seed script; two creations and two
\* revocations of sessions; lists of up to two sessions or keys that expire while they
\* are listed; pages of one row, up to three rows; two requests that publish two
\* events, each tried twice; texts of up to five characters and an 8-bit integer with one
\* decimal; every call of the risk service over the wire values; every reply of the
\* wallet service.
CONSTANTS
  Requests = {r1, r2}
  Emails = {a, b}
  Passwords = {p, q}
  Permissions <- SeedPermissions
  GrantRoles <- CodeGrantRoles
  Faults = TRUE
  Creators = {c1, c2}
  Revokers = {v1, v2}
  Jtis = {j1, j2}
  MaxRows = 2
  MaxKeys = 1
  Ids = {1, 2, 3}
  PerPage = 1
  PageTime = 1
  Features = {f1, f2}
  Callers = {x1, x2}
  MaxEvents = 2
  Users = {u1}
  Partitions = {n1, n2}
  MaxRetries = 1
  Digits = {0, 1, 2, 8}
  Decimals = 1
  MaxInt = 127
  MaxLength = 5
  TimeoutMs = 2
  MaxTime = 2
  Null = Null
SPECIFICATION Spec
SYMMETRY Symmetry
INVARIANTS
  OutcomesMatchAccounts RevokedAsAsked ListCoherent KeyListCoherent NoneMissed
  StartsWholeStopsInOrder OnceUnlessDisplaced ParsesExactly AnswersTellVerdict OkMeansAsked
\* Every part may come to its end.
CHECK_DEADLOCK FALSE
