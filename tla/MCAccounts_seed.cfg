\* The script as it is, uninterrupted, run again when it failed.
CONSTANTS
  Requests = {}
  Emails = {a}
  Passwords = {p}
  Permissions <- SeedPermissions
  GrantRoles <- CodeGrantRoles
  Faults = FALSE
  Null = Null
SPECIFICATION FairSpec
PROPERTY SeedCompletes
CHECK_DEADLOCK FALSE
