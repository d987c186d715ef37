\* A revoked ticket comes back: the expiry a revocation does not see.
SPECIFICATION Spec
CONSTANTS
  Tickets = {t1}
  Handlers = {h1}
  Timers = {k1, k2}
  NoTicket = NoTicket
  NoTimer = NoTimer
  Requested <- TwoPeriods
  MaxTime = 3
  MaxDuration = 1
  MaxCrashes = 0
  MaxDBErrors = 0
PROPERTIES
  TerminalIsFinal
CHECK_DEADLOCK FALSE
