\* One ticket, two requests and the goroutines of its timers at the same time.
SPECIFICATION MCSpec
CONSTANTS
  Tickets = {t1}
  Handlers = {h1, h2}
  Timers = {k1, k2, k3}
  NoTicket = NoTicket
  NoTimer = NoTimer
  Requested <- TwoPeriods
  MaxTime = 3
  MaxDuration = 1
  MaxCrashes = 0
  MaxDBErrors = 0
SYMMETRY Slots
INVARIANTS
  TypeOK
  MapMatchesTimers
  QuietTicketsScheduled
PROPERTIES
  UndisturbedLifecycle
  KeepsPromise
