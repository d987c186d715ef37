\* Two tickets: one map, one restart that schedules both.
SPECIFICATION MCSpec
CONSTANTS
  Tickets = {t1, t2}
  Handlers = {h1}
  Timers = {k1, k2, k3}
  NoTicket = NoTicket
  NoTimer = NoTimer
  Requested <- OnePeriod
  MaxTime = 2
  MaxDuration = 1
  MaxCrashes = 1
  MaxDBErrors = 0
SYMMETRY SlotsAndTickets
INVARIANTS
  MapMatchesTimers
  QuietTicketsScheduled
