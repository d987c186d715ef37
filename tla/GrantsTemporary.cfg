\* A role that stays.
SPECIFICATION GFairSpec
CONSTANTS
  Tickets = {t1}
  Handlers = {h1}
  Timers = {k1, k2}
  NoTicket = NoTicket
  NoTimer = NoTimer
  Requested <- Period
  MaxTime = 3
  MaxDuration = 1
  MaxCrashes = 0
  MaxDBErrors = 0
  role = role
  Roles = {role}
  RoleOf <- OneRole
  MaxLosses = 0
CHECK_DEADLOCK FALSE
PROPERTIES
  RolesAreTemporary
