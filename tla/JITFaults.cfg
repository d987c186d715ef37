\* One ticket of every kind of period, a crash and a failing statement anywhere.
SPECIFICATION FairSpec
CONSTANTS
  Tickets = {t1}
  Handlers = {h1}
  Timers = {k1, k2}
  NoTicket = NoTicket
  NoTimer = NoTimer
  Requested <- AllKinds
  MaxTime = 3
  MaxDuration = 1
  MaxCrashes = 2
  MaxDBErrors = 2
INVARIANTS
  MapMatchesTimers
  QuietTicketsScheduled
PROPERTIES
  UndisturbedLifecycle
  KeepsPromise
  PendingMovesOn
CHECK_DEADLOCK FALSE
