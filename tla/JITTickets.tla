------------------------------ MODULE JITTickets -------------------------------
(***************************************************************************)
(* The JIT ticketing subsystem (knox-proxy/jit): the ticket table behind   *)
(* the Repository, the Scheduler with its in-memory map of time.Timers,    *)
(* and the HTTP handlers that create, cancel and decide tickets.           *)
(*                                                                         *)
(* Grain of atomicity.  One action per SQL statement and one per critical  *)
(* section of Scheduler.mu; nothing else in the code excludes two          *)
(* goroutines from each other.  A handler is a slot with a program         *)
(* counter, and so is a time.Timer together with the goroutine it starts   *)
(* when it fires (Scheduler.executeTransition).                            *)
(*                                                                         *)
(* Requests that are refused (no user, malformed body, not the owner, wrong*)
(* status, unknown ticket) change no state and are not actions; neither    *)
(* are the read-only handlers.                                             *)
(***************************************************************************)
EXTENDS JITModels, FiniteSets

CONSTANTS
  Tickets,      \* ticket ids
  Handlers,     \* handler goroutines that can run at the same time
  Timers,       \* time.Timer objects that can be alive at the same time
  NoTicket,     \* "the slot is free"
  NoTimer,      \* "the map has no entry"
  Requested,    \* bound: the periods users ask for
  MaxCrashes,   \* bound: how often the process dies
  MaxDBErrors   \* bound: how often a statement fails

ASSUME JITAssumption ==
  /\ NoTicket \notin Tickets
  /\ NoTimer \notin Timers
  /\ Requested \subseteq [start : Instants, end : Instants]
  /\ MaxCrashes \in Nat
  /\ MaxDBErrors \in Nat

VARIABLES
  now,        \* the wall clock
  row,        \* jit_tickets: ticket -> [status, start, end]
  timers,     \* Scheduler.timers: ticket -> timer or NoTimer
  timer,      \* every time.Timer and the goroutine it becomes
  req,        \* every handler goroutine
  up,         \* is the process running
  crashes, dbErrors,   \* counters for the two bounds
  been,       \* history: ticket -> statuses its row has held
  disturbed   \* history: tickets two operations overlapped on, or whose
              \* operation was cut short by a database error, since startup

store == <<row, been>>
vars == <<now, row, timers, timer, req, up, crashes, dbErrors, been, disturbed>>

(***************************************************************************)
(* Types.                                                                  *)
(***************************************************************************)
Targets == {"active", "expired"}
Ops == {"requested", "canceled", "approved", "rejected", "revoked"}

Row == [status : Statuses \cup {Absent}, start : Instants, end : Instants]

\* armed: waiting.  fired: the goroutine runs, before executeTransition's
\* critical section.  update, reread: the two statements of
\* systemUpdateStatus.  notify: in onTransition.  stop, arm: Schedule.
TimerPCs == {"idle", "armed", "fired", "update", "reread", "notify", "stop", "arm"}
TimerRec == [pc : TimerPCs, ticket : Tickets \cup {NoTicket},
             target : Targets, seen : Statuses \cup {Absent}]
IdleTimer == [pc |-> "idle", ticket |-> NoTicket, target |-> "expired", seen |-> Absent]

\* read, write, reread: the statements of UpdateTicketStatus.  stop, arm:
\* Schedule.  cancel: Scheduler.Cancel.  respond: go FireWebhook; writeJSON.
ReqPCs == {"idle", "read", "write", "reread", "stop", "arm", "cancel", "respond"}
ReqRec == [pc : ReqPCs, ticket : Tickets \cup {NoTicket},
           op : Ops, seen : Statuses \cup {Absent}]
IdleReq == [pc |-> "idle", ticket |-> NoTicket, op |-> "requested", seen |-> Absent]

TypeOK ==
  /\ now \in Instants
  /\ row \in [Tickets -> Row]
  /\ timers \in [Tickets -> Timers \cup {NoTimer}]
  /\ timer \in [Timers -> TimerRec]
  /\ req \in [Handlers -> ReqRec]
  /\ up \in BOOLEAN
  /\ crashes \in 0 .. MaxCrashes
  /\ dbErrors \in 0 .. MaxDBErrors
  /\ been \in [Tickets -> SUBSET Statuses]
  /\ disturbed \in SUBSET Tickets

(***************************************************************************)
(* What is in flight.                                                      *)
(***************************************************************************)
HandledBy(h, t) == req[h].pc # "idle" /\ req[h].ticket = t
FiredFor(k, t)  == timer[k].pc \notin {"idle", "armed"} /\ timer[k].ticket = t
ArmedFor(k, t)  == timer[k].pc = "armed" /\ timer[k].ticket = t

Busy(t) ==
  \/ \E h \in Handlers : HandledBy(h, t)
  \/ \E k \in Timers : FiredFor(k, t)

\* An operation on t begins: overlapping another one disturbs the ticket.
Begin(t) == disturbed' = IF Busy(t) THEN disturbed \cup {t} ELSE disturbed

\* A statement fails; the operation on t is left half done when lasting.
DBError(t, lasting) ==
  /\ dbErrors < MaxDBErrors
  /\ dbErrors' = dbErrors + 1
  /\ disturbed' = IF lasting THEN disturbed \cup {t} ELSE disturbed

(***************************************************************************)
(* The table.                                                              *)
(***************************************************************************)
Becomes(t, s) ==
  /\ row' = [row EXCEPT ![t].status = s]
  /\ been' = [been EXCEPT ![t] = @ \cup {s}]

Insert(t, p) ==
  /\ row' = [row EXCEPT ![t] = [status |-> "requested", start |-> p.start, end |-> p.end]]
  /\ been' = [been EXCEPT ![t] = {"requested"}]

(***************************************************************************)
(* The scheduler.                                                          *)
(***************************************************************************)
\* Schedule's choice: the status a timer will write, by the status of the
\* ticket it was handed.
NeedsTimer(status) == status \in Pending
\* Mutated: the timer writes back the status the ticket has.
TargetIsStatus(status) == status
\* Mutated: an approved ticket is scheduled like any other.
TargetIsExpired(status) == "expired"
TargetOf(status) == IF status = "approved" THEN "active" ELSE "expired"

\* When a timer set for ticket t and this target goes off.  AfterFunc gets
\* the duration until then, clipped to zero: a past instant means at once.
\* Mutated: the wrong end of the period.
DueAtStart(t, target) == row[t].start
Due(t, target) == IF target = "active" THEN row[t].start ELSE row[t].end

\* Scheduler.Cancel on a table of timer objects: Stop has no effect on a
\* timer that has fired already, the map entry goes either way.
Stopped(t) ==
  IF timers[t] # NoTimer /\ timer[timers[t]].pc = "armed"
    THEN [timer EXCEPT ![timers[t]] = IdleTimer]
    ELSE timer

\* Mutated: the whole map is cleared.
UnmappedAll(t) == [u \in Tickets |-> NoTimer]
Unmapped(t) == [timers EXCEPT ![t] = NoTimer]

NewTimer(t, target) ==
  [pc |-> "armed", ticket |-> t, target |-> target, seen |-> Absent]

\* The second critical section of Schedule: a new timer enters the map,
\* over whatever a concurrent Schedule has put there.
ArmIn(objects, t, target) ==
  \E k \in Timers :
    /\ objects[k].pc = "idle"
    /\ timer' = [objects EXCEPT ![k] = NewTimer(t, target)]
    /\ timers' = [timers EXCEPT ![t] = k]

(***************************************************************************)
(* Handlers.                                                               *)
(***************************************************************************)
Goto(h, pc) == req' = [req EXCEPT ![h].pc = pc]
Done(h) == req' = [req EXCEPT ![h] = IdleReq]

\* POST /knox-api/request-jit: validate, INSERT; Schedule is next.
CreateTicket(h, t, p) ==
  /\ up /\ req[h].pc = "idle"
  /\ row[t].status = Absent
  /\ PeriodAccepted(p)
  /\ Insert(t, p)
  /\ req' = [req EXCEPT ![h] = [pc |-> "stop", ticket |-> t,
                                op |-> "requested", seen |-> "requested"]]
  /\ UNCHANGED <<now, timers, timer, up, crashes, dbErrors, disturbed>>

\* The INSERT took effect but its answer was lost: 500, and no timer.
CreateTicketFails(h, t, p) ==
  /\ up /\ req[h].pc = "idle"
  /\ row[t].status = Absent
  /\ PeriodAccepted(p)
  /\ Insert(t, p)
  /\ DBError(t, TRUE)
  /\ UNCHANGED <<now, timers, timer, req, up, crashes>>

\* PATCH /knox-api/tickets/{id}/cancel by the owner: GetTicketByID finds the
\* ticket requested.
CancelTicket(h, t) ==
  /\ up /\ req[h].pc = "idle"
  /\ row[t].status = "requested"
  /\ req' = [req EXCEPT ![h] = [pc |-> "read", ticket |-> t,
                                op |-> "canceled", seen |-> Absent]]
  /\ Begin(t)
  /\ UNCHANGED <<now, row, timers, timer, up, crashes, dbErrors, been>>

\* UpdateTicketStatus, SELECT status for a cancel.
ReadStatus(h) ==
  /\ req[h].pc = "read"
  /\ IF IsValidTransition(row[req[h].ticket].status, req[h].op)
       THEN Goto(h, "write")
       ELSE Done(h)
  /\ UNCHANGED <<now, row, timers, timer, up, crashes, dbErrors, been, disturbed>>

ReadStatusFails(h) ==
  /\ req[h].pc = "read"
  /\ DBError(req[h].ticket, FALSE)
  /\ Done(h)
  /\ UNCHANGED <<now, row, timers, timer, up, crashes, been>>

\* Mutated: the transition is not validated.
AdminUpdateUnvalidated(h, t, s) ==
  /\ up /\ req[h].pc = "idle"
  /\ s \in {"approved", "rejected", "revoked"}
  /\ row[t].status \in Statuses
  /\ req' = [req EXCEPT ![h] = [pc |-> "write", ticket |-> t, op |-> s, seen |-> Absent]]
  /\ Begin(t)
  /\ UNCHANGED <<now, row, timers, timer, up, crashes, dbErrors, been>>

\* PATCH /knox-api/admin/tickets/{id}/status: UpdateTicketStatus reads a
\* status the transition is valid from.
AdminUpdateStatus(h, t, s) ==
  /\ up /\ req[h].pc = "idle"
  /\ s \in {"approved", "rejected", "revoked"}
  /\ IsValidTransition(row[t].status, s)
  /\ req' = [req EXCEPT ![h] = [pc |-> "write", ticket |-> t, op |-> s, seen |-> Absent]]
  /\ Begin(t)
  /\ UNCHANGED <<now, row, timers, timer, up, crashes, dbErrors, been>>

\* UpdateTicketStatus, UPDATE ... WHERE id = $1: unconditional.
WriteStatus(h) ==
  /\ req[h].pc = "write"
  /\ Becomes(req[h].ticket, req[h].op)
  /\ Goto(h, "reread")
  /\ UNCHANGED <<now, timers, timer, up, crashes, dbErrors, disturbed>>

\* The UPDATE returns an error, whether or not the row was changed.
WriteStatusFails(h) ==
  /\ req[h].pc = "write"
  /\ \/ UNCHANGED store /\ DBError(req[h].ticket, FALSE)
     \/ Becomes(req[h].ticket, req[h].op) /\ DBError(req[h].ticket, TRUE)
  /\ Done(h)
  /\ UNCHANGED <<now, timers, timer, up, crashes>>

\* UpdateTicketStatus returns GetTicketByID; the handler then branches on
\* the status it was asked for, and hands Schedule the status it has read.
Reread(h) ==
  /\ req[h].pc = "reread"
  /\ req' = [req EXCEPT ![h] =
               [req[h] EXCEPT !.seen = row[req[h].ticket].status,
                              !.pc = IF req[h].op = "approved" THEN "stop" ELSE "cancel"]]
  /\ UNCHANGED <<now, row, timers, timer, up, crashes, dbErrors, been, disturbed>>

\* GetTicketByID fails after the UPDATE: the handler answers with an error
\* and never reaches the scheduler.
RereadFails(h) ==
  /\ req[h].pc = "reread"
  /\ DBError(req[h].ticket, TRUE)
  /\ Done(h)
  /\ UNCHANGED <<now, row, timers, timer, up, crashes, been>>

\* Schedule, first half: Cancel.
ScheduleStop(h) ==
  /\ req[h].pc = "stop"
  /\ timer' = Stopped(req[h].ticket)
  /\ timers' = Unmapped(req[h].ticket)
  /\ Goto(h, IF NeedsTimer(req[h].seen) THEN "arm" ELSE "respond")
  /\ UNCHANGED <<now, row, up, crashes, dbErrors, been, disturbed>>

\* Schedule, second half.
ScheduleArm(h) ==
  /\ req[h].pc = "arm"
  /\ ArmIn(timer, req[h].ticket, TargetOf(req[h].seen))
  /\ Goto(h, "respond")
  /\ UNCHANGED <<now, row, up, crashes, dbErrors, been, disturbed>>

\* Mutated: the handler forgets to call it.
CancelNothing(h) ==
  /\ req[h].pc = "cancel"
  /\ Goto(h, "respond")
  /\ UNCHANGED <<now, row, timers, timer, up, crashes, dbErrors, been, disturbed>>

\* Scheduler.Cancel, called for canceled, rejected and revoked.
CancelTimer(h) ==
  /\ req[h].pc = "cancel"
  /\ timer' = Stopped(req[h].ticket)
  /\ timers' = Unmapped(req[h].ticket)
  /\ Goto(h, "respond")
  /\ UNCHANGED <<now, row, up, crashes, dbErrors, been, disturbed>>

\* go FireWebhook(ticket); writeJSON.
Respond(h) ==
  /\ req[h].pc = "respond"
  /\ Done(h)
  /\ UNCHANGED <<now, row, timers, timer, up, crashes, dbErrors, been, disturbed>>

(***************************************************************************)
(* The goroutine of a timer.                                               *)
(***************************************************************************)
Step(k, pc) == timer' = [timer EXCEPT ![k].pc = pc]
End(k) == timer' = [timer EXCEPT ![k] = IdleTimer]

Fire(k) ==
  /\ timer[k].pc = "armed"
  /\ now >= Due(timer[k].ticket, timer[k].target)
  /\ Step(k, "fired")
  /\ Begin(timer[k].ticket)
  /\ UNCHANGED <<now, row, timers, req, up, crashes, dbErrors, been>>

\* Mutated: the goroutine leaves its entry in the map.
ForgetNothing(k) ==
  /\ timer[k].pc = "fired"
  /\ Step(k, "update")
  /\ UNCHANGED <<now, row, timers, req, up, crashes, dbErrors, been, disturbed>>

\* delete(s.timers, ticketID), whichever timer the entry belongs to.
ForgetTimer(k) ==
  /\ timer[k].pc = "fired"
  /\ timers' = Unmapped(timer[k].ticket)
  /\ Step(k, "update")
  /\ UNCHANGED <<now, row, req, up, crashes, dbErrors, been, disturbed>>

\* systemUpdateStatus: UPDATE ... WHERE id = $1 AND status != $2.
SystemUpdate(k) ==
  /\ timer[k].pc = "update"
  /\ IF row[timer[k].ticket].status = timer[k].target
       THEN End(k) /\ UNCHANGED store
       ELSE Step(k, "reread") /\ Becomes(timer[k].ticket, timer[k].target)
  /\ UNCHANGED <<now, timers, req, up, crashes, dbErrors, disturbed>>

\* The UPDATE returns an error: logged, never retried.  Nothing is lost when
\* the row was changed and no further timer was due.
SystemUpdateFails(k) ==
  /\ timer[k].pc = "update"
  /\ \/ UNCHANGED store /\ DBError(timer[k].ticket, TRUE)
     \/ /\ Becomes(timer[k].ticket, timer[k].target)
        /\ DBError(timer[k].ticket, timer[k].target = "active")
  /\ End(k)
  /\ UNCHANGED <<now, timers, req, up, crashes>>

\* systemUpdateStatus returns GetTicketByID.
SystemReread(k) ==
  /\ timer[k].pc = "reread"
  /\ timer' = [timer EXCEPT ![k] =
                 [timer[k] EXCEPT !.seen = row[timer[k].ticket].status, !.pc = "notify"]]
  /\ UNCHANGED <<now, row, timers, req, up, crashes, dbErrors, been, disturbed>>

\* ... which fails: an activated ticket is left without a timer.
SystemRereadFails(k) ==
  /\ timer[k].pc = "reread"
  /\ DBError(timer[k].ticket, timer[k].target = "active")
  /\ End(k)
  /\ UNCHANGED <<now, row, timers, req, up, crashes, been>>

\* Mutated: the expiry of an activated ticket is not scheduled.
NotifyOnly(k) ==
  /\ timer[k].pc = "notify"
  /\ End(k)
  /\ UNCHANGED <<now, row, timers, req, up, crashes, dbErrors, been, disturbed>>

\* onTransition returns: the webhook was answered, refused or timed out.
\* Only now is the expiry of an activated ticket scheduled.
Notify(k) ==
  /\ timer[k].pc = "notify"
  /\ IF timer[k].target = "active" THEN Step(k, "stop") ELSE End(k)
  /\ UNCHANGED <<now, row, timers, req, up, crashes, dbErrors, been, disturbed>>

\* Schedule(updatedTicket), first half.
RescheduleStop(k) ==
  /\ timer[k].pc = "stop"
  /\ timer' = [Stopped(timer[k].ticket) EXCEPT
                 ![k] = IF NeedsTimer(timer[k].seen) THEN [@ EXCEPT !.pc = "arm"] ELSE IdleTimer]
  /\ timers' = Unmapped(timer[k].ticket)
  /\ UNCHANGED <<now, row, req, up, crashes, dbErrors, been, disturbed>>

\* Schedule(updatedTicket), second half; the goroutine ends.
RescheduleArm(k) ==
  /\ timer[k].pc = "arm"
  /\ ArmIn([timer EXCEPT ![k] = IdleTimer], timer[k].ticket, TargetOf(timer[k].seen))
  /\ UNCHANGED <<now, row, req, up, crashes, dbErrors, been, disturbed>>

(***************************************************************************)
(* Time, crashes and restarts.                                             *)
(***************************************************************************)
Tick ==
  /\ now < MaxTime
  /\ now' = now + 1
  /\ UNCHANGED <<row, timers, timer, req, up, crashes, dbErrors, been, disturbed>>

\* Mutated: the map survives the process.
CrashKeepingMap ==
  /\ up
  /\ crashes < MaxCrashes
  /\ crashes' = crashes + 1
  /\ up' = FALSE
  /\ timer' = [k \in Timers |-> IdleTimer]
  /\ req' = [h \in Handlers |-> IdleReq]
  /\ UNCHANGED <<now, row, timers, dbErrors, been, disturbed>>

\* The process dies, or shuts down: the table is all that is left.
Crash ==
  /\ up
  /\ crashes < MaxCrashes
  /\ crashes' = crashes + 1
  /\ up' = FALSE
  /\ timers' = [t \in Tickets |-> NoTimer]
  /\ timer' = [k \in Timers |-> IdleTimer]
  /\ req' = [h \in Handlers |-> IdleReq]
  /\ UNCHANGED <<now, row, dbErrors, been, disturbed>>

\* Mutated: InitFromDB loads what its comment says, active and approved tickets.
ActiveAndApproved == {t \in Tickets : row[t].status \in {"approved", "active"}}
PendingTickets == {t \in Tickets : row[t].status \in Pending}

\* Mutated: every closure captures the loop variable, hence the last ticket.
RestartCapturingLoopVariable ==
  /\ ~up
  /\ \E slot \in [PendingTickets -> Timers], last \in PendingTickets :
       /\ \A s, t \in PendingTickets : slot[s] = slot[t] => s = t
       /\ timers' = [t \in Tickets |-> IF t \in PendingTickets THEN slot[t] ELSE NoTimer]
       /\ timer' = [k \in Timers |->
                      IF \E t \in PendingTickets : slot[t] = k
                        THEN NewTimer(last, TargetOf(row[last].status))
                        ELSE IdleTimer]
  /\ up' = TRUE
  /\ disturbed' = {}
  /\ UNCHANGED <<now, row, req, crashes, dbErrors, been>>

\* main: InitFromDB, before the listener is open.  The tickets are scheduled
\* one by one; no goroutine but the timers they arm can see the difference,
\* and those touch only their own ticket.
Restart ==
  /\ ~up
  /\ \E slot \in [PendingTickets -> Timers] :
       /\ \A s, t \in PendingTickets : slot[s] = slot[t] => s = t
       /\ timers' = [t \in Tickets |-> IF t \in PendingTickets THEN slot[t] ELSE NoTimer]
       /\ timer' = [k \in Timers |->
                      IF \E t \in PendingTickets : slot[t] = k
                        THEN LET t == CHOOSE u \in PendingTickets : slot[u] = k
                             IN NewTimer(t, TargetOf(row[t].status))
                        ELSE IdleTimer]
  /\ up' = TRUE
  /\ disturbed' = {}
  /\ UNCHANGED <<now, row, req, crashes, dbErrors, been>>

\* GetPendingTransitions fails: logged, and the server starts without any
\* timer.
RestartUnscheduled ==
  /\ ~up
  /\ dbErrors < MaxDBErrors
  /\ dbErrors' = dbErrors + 1
  /\ up' = TRUE
  /\ disturbed' = PendingTickets
  /\ UNCHANGED <<now, row, timers, timer, req, crashes, been>>

(***************************************************************************)
(* The specification.                                                      *)
(***************************************************************************)
Init ==
  /\ now = ZeroTime + 1
  /\ row = [t \in Tickets |-> [status |-> Absent, start |-> ZeroTime, end |-> ZeroTime]]
  /\ timers = [t \in Tickets |-> NoTimer]
  /\ timer = [k \in Timers |-> IdleTimer]
  /\ req = [h \in Handlers |-> IdleReq]
  /\ up = TRUE
  /\ crashes = 0
  /\ dbErrors = 0
  /\ been = [t \in Tickets |-> {}]
  /\ disturbed = {}

Arrive(h) ==
  \E t \in Tickets :
    \/ \E p \in Requested : CreateTicket(h, t, p) \/ CreateTicketFails(h, t, p)
    \/ CancelTicket(h, t)
    \/ \E s \in {"approved", "rejected", "revoked"} : AdminUpdateStatus(h, t, s)

\* A request under way takes its next step.
Proceed(h) ==
  \/ ReadStatus(h) \/ ReadStatusFails(h)
  \/ WriteStatus(h) \/ WriteStatusFails(h)
  \/ Reread(h) \/ RereadFails(h)
  \/ ScheduleStop(h) \/ ScheduleArm(h)
  \/ CancelTimer(h)
  \/ Respond(h)

\* A timer, or the goroutine it has become, takes its next step.
Elapse(k) ==
  \/ Fire(k)
  \/ ForgetTimer(k)
  \/ SystemUpdate(k) \/ SystemUpdateFails(k)
  \/ SystemReread(k) \/ SystemRereadFails(k)
  \/ Notify(k)
  \/ RescheduleStop(k) \/ RescheduleArm(k)

Next ==
  \/ Tick
  \/ Crash \/ Restart \/ RestartUnscheduled
  \/ \E h \in Handlers : Arrive(h) \/ Proceed(h)
  \/ \E k \in Timers : Elapse(k)

Spec == Init /\ [][Next]_vars

\* The clock runs, goroutines are scheduled, a due timer fires, and the
\* container is restarted (docker-compose.yaml: restart: always).  Nothing
\* is assumed of users, administrators, crashes or database errors.
Fairness ==
  /\ WF_vars(Tick)
  /\ WF_vars(Restart \/ RestartUnscheduled)
  /\ \A h \in Handlers : WF_vars(Proceed(h))
  /\ \A k \in Timers : WF_vars(Elapse(k))

FairSpec == Spec /\ Fairness

(***************************************************************************)
(* Properties.                                                             *)
(***************************************************************************)
\* The map and the timer objects agree: an entry belongs to a timer of that
\* ticket whose goroutine has not taken it out yet, and a timer that is
\* still armed but out of the map, where Cancel cannot reach it
\* (scheduler.go, Schedule and executeTransition), is the trace of two
\* operations that overlapped on its ticket.
MapMatchesTimers ==
  /\ \A t \in Tickets : timers[t] # NoTimer =>
       timer[timers[t]].ticket = t /\ timer[timers[t]].pc \in {"armed", "fired"}
  /\ \A k \in Timers : timer[k].pc = "armed" =>
       timers[timer[k].ticket] = k \/ timer[k].ticket \in disturbed

\* What the API and the scheduler are for: while nothing is under way on a
\* ticket, a pending one has exactly one armed timer, the one that will
\* write the status its row calls for, and a final one has none.  Holds of
\* every ticket no two operations overlapped on and no operation was cut
\* short on; a restart brings all of them back to it.
QuietTicketsScheduled ==
  up => \A t \in Tickets \ disturbed : ~Busy(t) =>
    {timer[k].target : k \in {j \in Timers : ArmedFor(j, t)}} =
      IF NeedsTimer(row[t].status) THEN {TargetOf(row[t].status)} ELSE {}

\* The lifecycle models.go and api-reference.md describe, with the one step
\* the scheduler adds (a request nobody decided expires with its period).
LifecycleStep(from, to) ==
  \/ from = Absent /\ to = "requested"
  \/ IsValidTransition(from, to)
  \/ from = "requested" /\ to = "expired"

\* Every change of an undisturbed ticket is a step of the lifecycle, although
\* neither UPDATE statement (repository.go) tests the status it replaces.
UndisturbedLifecycle ==
  [][\A t \in Tickets :
       t \notin disturbed' /\ row'[t].status # row[t].status =>
         LifecycleStep(row[t].status, row'[t].status)]_vars

\* Races, errors and restarts included, the subsystem keeps the abstract
\* promise: only approved tickets are ever activated, and never early.
Promise == INSTANCE TicketPromise
KeepsPromise == Promise!PromiseSpec

\* The scheduler moves every pending ticket on in the end, across crashes
\* and restarts, unless the ticket was disturbed.
PendingMovesOn ==
  \A t \in Tickets : \A s \in Pending :
    row[t].status = s ~> (row[t].status # s \/ t \in disturbed)

(***************************************************************************)
(* What documents and comments say, and the code does not do.              *)
(***************************************************************************)
\* docs/api-reference.md, Valid Transitions, and models_test.go: nothing
\* leaves rejected, revoked, canceled or expired.
TerminalIsFinal ==
  [][\A t \in Tickets : row[t].status \in Final => row'[t].status = row[t].status]_vars
================================================================================
