\* One ticket from its request to the end of the access it gave.
SPECIFICATION GFairSpec
CONSTANTS
  Tickets = {t1}
  Handlers = {h1}
  Timers = {k1, k2}
  NoTicket = NoTicket
  NoTimer = NoTimer
  Requested <- Period
  MaxTime = 3
  MaxDuration = 1
  MaxCrashes = 1
  MaxDBErrors = 1
  role = role
  Roles = {role}
  RoleOf <- OneRole
  MaxLosses = 1
INVARIANTS
  GrantsTypeOK
  AccessIsEarned
  RolesMatchTickets
PROPERTIES
  KeepsLease
  AccessEnds
CHECK_DEADLOCK FALSE
