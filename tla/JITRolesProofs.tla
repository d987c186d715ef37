----------------------------- MODULE JITRolesProofs ----------------------------
(***************************************************************************)
(* Theorem about JITGrants: while nothing is under way, the roles of the   *)
(* user and the tickets in the table agree.                                *)
(*                                                                         *)
(* The two are far from agreeing while something is: a status is written   *)
(* long before Keycloak changes, by a goroutine that has yet to tell it    *)
(* (Owed) and by a webhook that has yet to be heard (OnItsWay).  The       *)
(* invariant says for every ticket what the roles will be once these two   *)
(* debts are paid.  It leans on JITSchedulerProofs: the goroutine that     *)
(* owes a webhook is alone on its ticket, and finds the status it wrote.   *)
(***************************************************************************)
EXTENDS JITGrantsProofs, JITSchedulerProofs

\* A goroutine has written s and has yet to tell it.
Owed(t, s) ==
  \E k \in Timers :
    timer[k].pc \in {"reread", "notify"} /\ timer[k].ticket = t /\ timer[k].target = s

OnItsWay(t, s) == [ticket |-> t, status |-> s] \in hooks

\* What the history says of the status.
Lived(t) ==
  /\ "active" \in been[t] => row[t].status \in {"active", "expired", "revoked"}
  /\ "expired" \in been[t] => row[t].status = "expired"

\* Nothing is told twice, the expiry is told last, and by timers alone.
Queued(t) ==
  /\ \A s \in Targets : OnItsWay(t, s) => ~Owed(t, s)
  /\ OnItsWay(t, "active") /\ row[t].status = "expired" => Owed(t, "expired")
  /\ \A h \in Handlers : HandledBy(h, t) => req[h].seen \notin Targets

\* The activation has reached Keycloak, and the expiry has not.
Granted(t) ==
  /\ "active" \in been[t] /\ ~Owed(t, "active") /\ ~OnItsWay(t, "active")
  /\ row[t].status = "expired" => Owed(t, "expired") \/ OnItsWay(t, "expired")

AccountedFor(t) ==
  RoleOf[t] \notin excused => t \notin disturbed /\ Lived(t) /\ Queued(t)

\* No other ticket of the role has taken it away.
Unchallenged(t) == \A u \in TicketsFor(RoleOf[t]) \ {t} : "expired" \notin been[u]

RolesGranted ==
  \A r \in Roles \ excused :
    /\ r \in roles => \E t \in TicketsFor(r) : Granted(t)
    /\ \A t \in TicketsFor(r) : Granted(t) /\ Unchallenged(t) => r \in roles

RolesInv == RolesGranted /\ \A t \in Tickets : AccountedFor(t)

\* What the other modules prove.
Known == GrantsInv /\ TypeInv /\ PromiseInv /\ SchedulerInv

(***************************************************************************)
(* What a step may do to a ticket without changing what is due to it.      *)
(***************************************************************************)
Kept(t) == AccountedFor(t)' /\ (Granted(t)' <=> Granted(t))

LEMMA SameAccount ==
  ASSUME NEW t \in Tickets, AccountedFor(t), RoleOf[t] \notin excused,
         t \notin disturbed', Lived(t)',
         been'[t] \cap Targets = been[t] \cap Targets,
         row'[t].status = "expired" <=> row[t].status = "expired",
         \A s \in Targets : OnItsWay(t, s)' <=> OnItsWay(t, s),
         \A s \in Targets : Owed(t, s)' <=> Owed(t, s),
         \A h \in Handlers : HandledBy(h, t)' => req'[h].seen \notin Targets
  PROVE  Kept(t)
<1>1. Queued(t)'
  BY DEF AccountedFor, Queued, Targets
<1>2. Granted(t)' <=> Granted(t)
  BY DEF Granted, Targets
<1> QED BY <1>1, <1>2 DEF AccountedFor, Kept

\* The row of the ticket is left alone, and no goroutine owes it more or less.
LEMMA Untouched ==
  ASSUME NEW t \in Tickets, AccountedFor(t), RoleOf[t] \notin excused,
         t \notin disturbed', row'[t] = row[t], been'[t] = been[t],
         \A s \in Targets : OnItsWay(t, s)' <=> OnItsWay(t, s),
         \A s \in Targets : Owed(t, s)' <=> Owed(t, s),
         \A h \in Handlers : HandledBy(h, t)' =>
           \/ req'[h] = req[h]
           \/ HandledBy(h, t) /\ req'[h].seen = req[h].seen
           \/ req'[h].seen \notin Targets
  PROVE  Kept(t)
<1>1. Lived(t)'
  BY DEF AccountedFor, Lived
<1>2. \A h \in Handlers : HandledBy(h, t)' => req'[h].seen \notin Targets
  BY DEF AccountedFor, Queued, HandledBy
<1> QED BY <1>1, <1>2, SameAccount

\* A timer that is armed, or a slot that is idle, owes nothing.
LEMMA OwesTheSame ==
  ASSUME NEW t \in Tickets,
         \A k \in Timers :
           \/ timer'[k] = timer[k]
           \/ /\ timer[k].pc \notin {"reread", "notify"} \/ timer[k].ticket # t
              /\ timer'[k].pc \notin {"reread", "notify"} \/ timer'[k].ticket # t
  PROVE  \A s \in Targets : Owed(t, s)' <=> Owed(t, s)
BY DEF Owed

(***************************************************************************)
(* What is told of a ticket the invariant accounts for.                    *)
(***************************************************************************)
\* One step is the answer of one handler or the notification of one timer.
LEMMA NotifiesOne ==
  ASSUME TypeInv, NEW j \in Timers, NEW k \in Timers, Notify(j), Notify(k) PROVE j = k
<1>1. /\ timer \in [Timers -> TimerRec] /\ "stop" \in TimerPCs
      /\ timer[j].pc = "notify" /\ timer[k].pc = "notify"
  BY DEF TypeInv, TypeOK, TimerPCs, Notify
<1>2. timer'[j].pc # "notify" /\ \A i \in Timers \ {j} : timer'[i] = timer[i]
  BY <1>1, StepTimer, EndTimer DEF Notify
<1>3. timer'[k].pc # "notify"
  BY <1>1, StepTimer, EndTimer DEF Notify
<1> QED BY <1>1, <1>2, <1>3

\* Only the timer of the ticket tells of it, and tells the status it wrote.
LEMMA TimerTells ==
  ASSUME Known, NEW t \in Tickets, AccountedFor(t), RoleOf[t] \notin excused,
         NEW x \in New, x.ticket = t
  PROVE  \E k \in Timers :
           /\ Notify(k) /\ timer[k].ticket = t /\ timer[k].target = x.status
           /\ row[t].status = x.status
<1>1. x \in Hooks /\ Told(x)
  BY DEF New
<1>2. ASSUME NEW h \in Handlers, Respond(h), x = [ticket |-> req[h].ticket, status |-> req[h].seen]
      PROVE  FALSE
  <2>1. HandledBy(h, t) /\ req[h].seen \in Targets
    BY <1>1, <1>2 DEF Respond, HandledBy, Hooks
  <2> QED BY <2>1 DEF AccountedFor, Queued
<1>3. PICK k \in Timers : Notify(k) /\ x = [ticket |-> timer[k].ticket, status |-> timer[k].seen]
  BY <1>1, <1>2 DEF Told
<1>4. timer[k].pc = "notify" /\ timer[k].ticket = t /\ timer[k].seen = x.status
  BY <1>3 DEF Notify
<1>5. TimerStage(k)
  BY <1>4, TimerAlone DEF Known, AccountedFor
<1> QED BY <1>3, <1>4, <1>5 DEF TimerStage

\* The timer of the ticket pays what it owes by sending it on its way.
LEMMA AccountNotified ==
  ASSUME Known, Knox(Next), NEW t \in Tickets, AccountedFor(t), RoleOf[t] \notin excused',
         NEW k \in Timers, Notify(k), timer[k].ticket = t
  PROVE  Kept(t)
<1>1. /\ RoleOf[t] \notin excused /\ t \notin disturbed /\ t \notin disturbed'
      /\ Lived(t) /\ Queued(t)
  BY DEF Knox, AccountedFor
<1>2. /\ row' = row /\ been' = been /\ req' = req /\ disturbed' = disturbed
      /\ timer[k].pc = "notify" /\ hooks' = hooks \cup New
  BY DEF Notify, Knox
<1>3. /\ \A h \in Handlers : ~HandledBy(h, t)
      /\ \A j \in Timers \ {k} : ~FiredFor(j, t)
      /\ row[t].status = timer[k].target /\ row[t].status = timer[k].seen
  BY <1>1, <1>2, TimerAlone DEF Known, TimerStage
<1>4. timer \in [Timers -> TimerRec] /\ timer[k].target \in Targets /\ "stop" \in TimerPCs
  BY DEF Known, TypeInv, TypeOK, TimerRec, TimerPCs
<1>5. timer'[k].pc \in {"stop", "idle"} /\ \A j \in Timers \ {k} : timer'[j] = timer[j]
  BY <1>4, StepTimer, EndTimer DEF Notify
<1>6. \A s : (Owed(t, s) <=> s = timer[k].target) /\ ~Owed(t, s)'
  BY <1>2, <1>3, <1>5 DEF Owed, FiredFor
<1> DEFINE x == [ticket |-> t, status |-> timer[k].target]
<1>7. x \in New
  BY <1>3, <1>4 DEF New, Told, Hooks
<1>8. \A s \in Targets : ~OnItsWay(t, s)
  <2> SUFFICES ASSUME NEW s \in Targets, OnItsWay(t, s) PROVE FALSE
    OBVIOUS
  <2>1. x \in Overtaking /\ RoleFor(x) = RoleOf[t]
    BY <1>7 DEF Overtaking, OnItsWay, RoleFor
  <2> QED BY <2>1 DEF Knox
<1>9. \A s \in Targets : OnItsWay(t, s)' <=> s = timer[k].target
  <2> SUFFICES ASSUME NEW s \in Targets PROVE OnItsWay(t, s)' <=> s = timer[k].target
    OBVIOUS
  <2>1. ASSUME OnItsWay(t, s)' PROVE s = timer[k].target
    <3>1. [ticket |-> t, status |-> s] \in New
      BY <1>2, <1>8, <2>1 DEF OnItsWay
    <3>2. PICK j \in Timers : Notify(j) /\ timer[j].target = s
      BY <1>1, <3>1, TimerTells
    <3> QED BY <3>2, NotifiesOne DEF Known
  <2>2. ASSUME s = timer[k].target PROVE OnItsWay(t, s)'
    BY <1>2, <1>7, <2>2 DEF OnItsWay
  <2> QED BY <2>1, <2>2
<1> HIDE DEF x
<1>10. Lived(t)'
  BY <1>1, <1>2 DEF Lived
<1>11. Queued(t)'
  <2>1. \A h \in Handlers : ~HandledBy(h, t)'
    BY <1>2, <1>3 DEF HandledBy
  <2> QED BY <1>2, <1>3, <1>6, <1>9, <2>1 DEF Queued, Targets
<1>12. Granted(t)' <=> Granted(t)
  BY <1>2, <1>3, <1>4, <1>6, <1>8, <1>9 DEF Granted, Targets
<1> QED BY <1>1, <1>10, <1>11, <1>12 DEF AccountedFor, Kept

\* Otherwise nothing is told of it.
LEMMA NothingTold ==
  ASSUME Known, Knox(Next), NEW t \in Tickets, AccountedFor(t), RoleOf[t] \notin excused',
         \A k \in Timers : Notify(k) => timer[k].ticket # t
  PROVE  \A s \in Targets : OnItsWay(t, s)' <=> OnItsWay(t, s)
<1>1. RoleOf[t] \notin excused /\ hooks' = hooks \cup New
  BY DEF Knox
<1> SUFFICES ASSUME NEW s \in Targets, [ticket |-> t, status |-> s] \in New PROVE FALSE
  BY <1>1 DEF OnItsWay
<1> QED BY <1>1, TimerTells

(***************************************************************************)
(* The other steps of KNOX.                                                *)
(***************************************************************************)
LEMMA AccountArrive ==
  ASSUME Known, NEW t \in Tickets, AccountedFor(t), RoleOf[t] \notin excused,
         t \notin disturbed',
         \A s \in Targets : OnItsWay(t, s)' <=> OnItsWay(t, s),
         NEW h \in Handlers, Arrive(h)
  PROVE  Kept(t)
<1>0. req \in [Handlers -> ReqRec] /\ TypeOK
  BY DEF Known, TypeInv, TypeOK
<1> DEFINE Others == \A g \in Handlers \ {h} : req'[g] = req[g]
<1>1. timer' = timer
  BY DEF Arrive, CreateTicket, CreateTicketFails, CancelTicket, AdminUpdateStatus
<1>2. \A s \in Targets : Owed(t, s)' <=> Owed(t, s)
  BY <1>1 DEF Owed
<1>3. ASSUME NEW u \in Tickets, NEW p \in Requested, CreateTicket(h, u, p)
      PROVE  Kept(t)
  <2>1. /\ Others /\ row[u].status = Absent
        /\ req'[h] = [pc |-> "stop", ticket |-> u, op |-> "requested", seen |-> "requested"]
    BY <1>0, <1>3 DEF CreateTicket
  <2>2. /\ row'[u] = [status |-> "requested", start |-> p.start, end |-> p.end]
        /\ been'[u] = {"requested"}
        /\ \A v \in Tickets \ {u} : row'[v] = row[v] /\ been'[v] = been[v]
    BY <1>0, <1>3, InsertRow DEF CreateTicket
  <2>3. req'[h].seen \notin Targets
    BY <2>1 DEF Targets
  <2>4. \A g \in Handlers : HandledBy(g, t)' => req'[g].seen \notin Targets
    BY <2>1, <2>3 DEF AccountedFor, Queued, HandledBy
  <2>5. been[u] = {}
    BY <2>1 DEF Known, PromiseInv, HistorySound
  <2>6. CASE u = t
    <3>1. Lived(t)' /\ been'[t] \cap Targets = been[t] \cap Targets
      BY <2>2, <2>5, <2>6 DEF Lived, Targets
    <3>2. row'[t].status # "expired" /\ row[t].status # "expired"
      BY <2>1, <2>2, <2>6 DEF Absent
    <3> QED BY <1>2, <2>4, <3>1, <3>2, SameAccount
  <2>7. CASE u # t
    BY <1>2, <2>1, <2>2, <2>3, <2>7, Untouched
  <2> QED BY <2>6, <2>7
<1>4. ASSUME NEW u \in Tickets, NEW p \in Requested, CreateTicketFails(h, u, p)
      PROVE  Kept(t)
  <2>1. req' = req /\ u \in disturbed'
    BY <1>4 DEF CreateTicketFails, DBError
  <2>2. \A v \in Tickets \ {u} : row'[v] = row[v] /\ been'[v] = been[v]
    BY <1>0, <1>4, InsertRow DEF CreateTicketFails
  <2> QED BY <1>2, <2>1, <2>2, Untouched
<1>5. ASSUME NEW u \in Tickets, CancelTicket(h, u) PROVE Kept(t)
  <2>1. /\ Others /\ row' = row /\ been' = been
        /\ req'[h] = [pc |-> "read", ticket |-> u, op |-> "canceled", seen |-> Absent]
    BY <1>0, <1>5 DEF CancelTicket
  <2>2. req'[h].seen \notin Targets
    BY <2>1 DEF Targets, Absent
  <2> QED BY <1>2, <2>1, <2>2, Untouched
<1>6. ASSUME NEW u \in Tickets, NEW s \in {"approved", "rejected", "revoked"},
             AdminUpdateStatus(h, u, s)
      PROVE  Kept(t)
  <2>1. /\ Others /\ row' = row /\ been' = been
        /\ req'[h] = [pc |-> "write", ticket |-> u, op |-> s, seen |-> Absent]
    BY <1>0, <1>6 DEF AdminUpdateStatus
  <2>2. req'[h].seen \notin Targets
    BY <2>1 DEF Targets, Absent
  <2> QED BY <1>2, <2>1, <2>2, Untouched
<1> QED BY <1>3, <1>4, <1>5, <1>6 DEF Arrive

LEMMA AccountProceed ==
  ASSUME Known, NEW t \in Tickets, AccountedFor(t), RoleOf[t] \notin excused,
         t \notin disturbed',
         \A s \in Targets : OnItsWay(t, s)' <=> OnItsWay(t, s),
         NEW h \in Handlers, Proceed(h)
  PROVE  Kept(t)
<1> DEFINE Others == \A g \in Handlers \ {h} : req'[g] = req[g]
<1>0. /\ req \in [Handlers -> ReqRec] /\ TypeOK
      /\ req[h].op \in Ops /\ req[h].op \in Statuses
      /\ t \notin disturbed
  BY DEF Known, TypeInv, TypeOK, ReqRec, Ops, Statuses, AccountedFor
<1>1. req[h].pc # "idle"
  BY DEF Proceed, ReadStatus, ReadStatusFails, WriteStatus, WriteStatusFails, Reread,
         RereadFails, ScheduleStop, ScheduleArm, CancelTimer, Respond
<1>2. PICK u \in Tickets : req[h].ticket = u
  BY <1>1, HandlerAlone DEF Known
<1>3. u = t => ReqStage(h)
  BY <1>0, <1>1, <1>2, HandlerAlone DEF Known
<1>4. {"write", "reread", "arm", "respond"} \subseteq ReqPCs
  BY DEF ReqPCs
\* The program of h goes on without a status.
<1> DEFINE GoesOn == Others /\ (req'[h].pc # "idle" =>
                                  req'[h].ticket = req[h].ticket /\ req'[h].seen = req[h].seen)
<1>5. ASSUME GoesOn
      PROVE  \A g \in Handlers : HandledBy(g, t)' =>
               req'[g] = req[g] \/ (HandledBy(g, t) /\ req'[g].seen = req[g].seen)
  BY <1>1, <1>5 DEF HandledBy
<1>6. ASSUME GoesOn, row'[t] = row[t], been'[t] = been[t],
             \A s \in Targets : Owed(t, s)' <=> Owed(t, s)
      PROVE  Kept(t)
  BY <1>5, <1>6, Untouched
<1>7. timer' = timer => \A s \in Targets : Owed(t, s)' <=> Owed(t, s)
  BY DEF Owed
<1>8. CASE ReadStatus(h) \/ ReadStatusFails(h) \/ RereadFails(h) \/ Respond(h)
  <2>1. row' = row /\ been' = been /\ timer' = timer
    BY <1>8 DEF ReadStatus, ReadStatusFails, RereadFails, Respond
  <2>2. GoesOn
    BY <1>0, <1>4, <1>8, GotoReq, DoneReq DEF ReadStatus, ReadStatusFails, RereadFails, Respond
  <2> QED BY <1>6, <1>7, <2>1, <2>2
<1>9. CASE WriteStatus(h) \/ WriteStatusFails(h)
  <2>1. timer' = timer /\ req[h].pc = "write"
    BY <1>9 DEF WriteStatus, WriteStatusFails
  <2>2. GoesOn
    BY <1>0, <1>4, <1>9, GotoReq, DoneReq DEF WriteStatus, WriteStatusFails
  <2>3. CASE UNCHANGED store
    BY <1>6, <1>7, <2>1, <2>2, <2>3 DEF store
  <2>4. CASE Becomes(u, req[h].op)
    <3>1. /\ row'[u].status = req[h].op
          /\ been'[u] = been[u] \cup {req[h].op}
          /\ \A v \in Tickets \ {u} : row'[v] = row[v] /\ been'[v] = been[v]
      BY <1>0, <2>4, BecomesRow
    <3>2. CASE u # t
      BY <1>6, <1>7, <2>1, <2>2, <3>1, <3>2
    <3>3. CASE u = t
      <4>1. IsValidTransition(row[t].status, req[h].op)
        BY <1>2, <1>3, <2>1, <3>3 DEF ReqStage
      <4>2. /\ row[t].status \in Pending
            /\ row[t].status = "active" => req[h].op = "revoked"
            /\ req[h].op \notin Targets
        BY <1>0, <4>1 DEF IsValidTransition, ValidTransitions, Pending, Ops, Targets
      <4>3. row[t].status # "expired" /\ row'[t].status # "expired"
        BY <3>1, <3>3, <4>2 DEF Pending, Targets
      <4>4. been'[t] \cap Targets = been[t] \cap Targets
        BY <3>1, <3>3, <4>2
      <4>5. Lived(t)'
        BY <3>1, <3>3, <4>2, <4>3 DEF AccountedFor, Lived, Pending, Targets
      <4>6. \A g \in Handlers : HandledBy(g, t)' => req'[g].seen \notin Targets
        BY <1>5, <2>2 DEF AccountedFor, Queued, HandledBy
      <4> QED BY <1>7, <2>1, <4>3, <4>4, <4>5, <4>6, SameAccount
    <3> QED BY <3>2, <3>3
  <2> QED BY <1>2, <1>9, <2>3, <2>4 DEF WriteStatus, WriteStatusFails
<1>10. CASE Reread(h)
  <2>1. row' = row /\ been' = been /\ timer' = timer /\ Others /\ req[h].pc = "reread"
    BY <1>0, <1>10 DEF Reread
  <2>2. req'[h].ticket = u /\ req'[h].seen = row[u].status
    BY <1>0, <1>2, <1>10 DEF Reread, ReqRec
  <2>3. u = t => req'[h].seen \notin Targets
    BY <1>0, <1>2, <1>3, <2>1, <2>2 DEF ReqStage, Ops, Targets
  <2>4. \A g \in Handlers : HandledBy(g, t)' => req'[g] = req[g] \/ req'[g].seen \notin Targets
    BY <2>1, <2>2, <2>3 DEF HandledBy
  <2> QED BY <1>7, <2>1, <2>4, Untouched
<1>11. CASE ScheduleStop(h) \/ CancelTimer(h)
  <2>1. row' = row /\ been' = been /\ timer' = Stopped(u)
    BY <1>2, <1>11 DEF ScheduleStop, CancelTimer
  <2>2. GoesOn
    BY <1>0, <1>4, <1>11, GotoReq DEF ScheduleStop, CancelTimer
  <2>3. \A k \in Timers : \/ timer'[k] = timer[k]
                          \/ timer'[k].pc = "idle" /\ timer[k].pc = "armed"
    BY <2>1, StoppedType DEF Known, IdleTimer
  <2> QED BY <1>6, <2>1, <2>2, <2>3, OwesTheSame
<1>12. CASE ScheduleArm(h)
  <2>1. row' = row /\ been' = been /\ ArmIn(timer, u, TargetOf(req[h].seen))
    BY <1>2, <1>12 DEF ScheduleArm
  <2>2. GoesOn
    BY <1>0, <1>4, <1>12, GotoReq DEF ScheduleArm
  <2>3. PICK k \in Timers :
          /\ timer[k].pc = "idle" /\ timer'[k] = NewTimer(u, TargetOf(req[h].seen))
          /\ \A j \in Timers \ {k} : timer'[j] = timer[j]
    BY <2>1, ArmedOne, TargetType DEF Known, TypeInv, TypeOK
  <2>4. timer'[k].pc = "armed"
    BY <2>3 DEF NewTimer
  <2> QED BY <1>6, <2>1, <2>2, <2>3, <2>4, OwesTheSame
<1> QED BY <1>8, <1>9, <1>10, <1>11, <1>12 DEF Proceed

\* The row becomes active or expired, and the goroutine owes the webhook.
LEMMA AccountWritten ==
  ASSUME Known, NEW t \in Tickets, AccountedFor(t), RoleOf[t] \notin excused,
         t \notin disturbed', req' = req,
         \A s \in Targets : OnItsWay(t, s)' <=> OnItsWay(t, s),
         NEW k \in Timers, timer[k].pc = "update", timer[k].ticket = t,
         Step(k, "reread"), Becomes(t, timer[k].target)
  PROVE  Kept(t)
<1>1. Lived(t) /\ Queued(t) /\ t \notin disturbed
  BY DEF AccountedFor
<1>2. PICK s \in Targets : s = timer[k].target
  BY DEF Known, TypeInv, TypeOK, TimerRec
<1>3. /\ \A h \in Handlers : ~HandledBy(h, t)
      /\ \A j \in Timers \ {k} : ~FiredFor(j, t)
      /\ row[t].status \in Pending /\ s = TargetOf(row[t].status)
  BY <1>1, <1>2, TimerAlone DEF Known, TimerStage
<1>4. /\ row'[t].status = s /\ been'[t] = been[t] \cup {s}
      /\ "expired" \notin been[t]
      /\ s = "active" => "active" \notin been[t]
  <2>1. s \in Statuses
    BY DEF Targets, Statuses
  <2> QED BY <1>1, <1>2, <1>3, <2>1, BecomesRow
          DEF Known, TypeInv, Lived, Pending, TargetOf
<1>5. /\ timer'[k].pc = "reread" /\ timer'[k].ticket = t /\ timer'[k].target = s
      /\ \A j \in Timers \ {k} : timer'[j] = timer[j]
  BY <1>2, StepTimer DEF Known, TypeInv, TypeOK, TimerPCs
<1>6. \A a : ~Owed(t, a) /\ (Owed(t, a)' <=> a = s)
  BY <1>3, <1>5 DEF Owed, FiredFor
<1>7. ~OnItsWay(t, "expired") /\ (s = "active" => ~OnItsWay(t, "active"))
  BY <1>4 DEF Known, GrantsInv, EarnedInv, OnItsWay
<1>8. Lived(t)'
  BY <1>1, <1>3, <1>4 DEF Lived, Targets, Pending, TargetOf
<1>9. Queued(t)'
  <2>1. \A h \in Handlers : ~HandledBy(h, t)'
    BY <1>3 DEF HandledBy
  <2> QED BY <1>4, <1>6, <1>7, <2>1 DEF Queued, Targets
<1>10. Granted(t)' <=> Granted(t)
  <2>1. CASE s = "expired"
    BY <1>3, <1>4, <1>6, <1>7, <2>1 DEF Granted, Targets, Pending
  <2>2. CASE s = "active"
    BY <1>4, <1>6, <2>2 DEF Granted
  <2> QED BY <2>1, <2>2 DEF Targets
<1> QED BY <1>8, <1>9, <1>10 DEF AccountedFor, Kept

LEMMA AccountElapse ==
  ASSUME Known, NEW t \in Tickets, AccountedFor(t), RoleOf[t] \notin excused,
         t \notin disturbed', t \notin CutOff,
         \A s \in Targets : OnItsWay(t, s)' <=> OnItsWay(t, s),
         NEW k \in Timers, Elapse(k), Notify(k) => timer[k].ticket # t
  PROVE  Kept(t)
<1> DEFINE Others == \A j \in Timers \ {k} : timer'[j] = timer[j]
<1>0. /\ timer \in [Timers -> TimerRec] /\ TypeOK
      /\ timer[k].target \in Statuses
      /\ {"fired", "update", "reread", "notify", "stop"} \subseteq TimerPCs
  BY DEF Known, TypeInv, TypeOK, TimerRec, TimerPCs, Targets, Statuses
<1>1. req' = req
  BY DEF Elapse, Fire, ForgetTimer, SystemUpdate, SystemUpdateFails, SystemReread,
         SystemRereadFails, Notify, RescheduleStop, RescheduleArm
<1>2. timer[k].pc # "idle"
  BY DEF Elapse, Fire, ForgetTimer, SystemUpdate, SystemUpdateFails, SystemReread,
         SystemRereadFails, Notify, RescheduleStop, RescheduleArm
<1>3. PICK u \in Tickets : timer[k].ticket = u
  BY <1>2 DEF Known, TypeInv, Assigned
<1>4. ASSUME row'[t] = row[t], been'[t] = been[t],
             \A s \in Targets : Owed(t, s)' <=> Owed(t, s)
      PROVE  Kept(t)
  BY <1>1, <1>4, Untouched
<1>5. ASSUME timer'[k].pc = "idle" \/ timer'[k].ticket = u, Others, u # t
      PROVE  \A s \in Targets : Owed(t, s)' <=> Owed(t, s)
  BY <1>3, <1>5, OwesTheSame
\* A statement that fails is under way on another ticket.
<1>6. ASSUME timer[k].pc # "armed", NEW lasting, DBError(u, lasting) PROVE u # t
  <2>1. dbErrors' # dbErrors
    BY <1>0, <1>6, JITAssumption DEF DBError, TypeOK
  <2>2. Busy(u)
    BY <1>2, <1>3, <1>6 DEF Busy, FiredFor
  <2> QED BY <2>1, <2>2 DEF CutOff
<1>7. CASE Fire(k) \/ ForgetTimer(k)
  <2>1. row' = row /\ been' = been /\ timer[k].pc \in {"armed", "fired"}
    BY <1>7 DEF Fire, ForgetTimer
  <2>2. Others /\ timer'[k].pc \in {"fired", "update"}
    BY <1>0, <1>7, StepTimer DEF Fire, ForgetTimer
  <2> QED BY <1>4, <2>1, <2>2, OwesTheSame
<1>8. CASE SystemUpdate(k)
  <2>1. /\ timer[k].pc = "update"
        /\ IF row[u].status = timer[k].target
             THEN End(k) /\ UNCHANGED store
             ELSE Step(k, "reread") /\ Becomes(u, timer[k].target)
    BY <1>3, <1>8 DEF SystemUpdate
  <2>2. CASE row[u].status = timer[k].target
    <3>1. row' = row /\ been' = been
      BY <2>1, <2>2 DEF store
    <3>2. Others /\ timer'[k].pc = "idle"
      BY <1>0, <2>1, <2>2, EndTimer
    <3> QED BY <1>4, <2>1, <3>1, <3>2, OwesTheSame
  <2>3. CASE row[u].status # timer[k].target /\ u = t
    BY <1>1, <1>3, <2>1, <2>3, AccountWritten
  <2>4. CASE row[u].status # timer[k].target /\ u # t
    <3>1. row'[t] = row[t] /\ been'[t] = been[t]
      BY <1>0, <2>1, <2>4, BecomesRow
    <3>2. Others /\ timer'[k].ticket = u
      BY <1>0, <1>3, <2>1, <2>4, StepTimer
    <3> QED BY <1>4, <1>5, <2>4, <3>1, <3>2
  <2> QED BY <2>2, <2>3, <2>4
<1>9. CASE SystemUpdateFails(k)
  <2>1. u # t
    BY <1>3, <1>6, <1>9 DEF SystemUpdateFails
  <2>2. row'[t] = row[t] /\ been'[t] = been[t]
    <3>1. UNCHANGED store \/ Becomes(u, timer[k].target)
      BY <1>3, <1>9 DEF SystemUpdateFails
    <3>2. CASE UNCHANGED store
      BY <3>2 DEF store
    <3>3. CASE Becomes(u, timer[k].target)
      BY <1>0, <2>1, <3>3, BecomesRow
    <3> QED BY <3>1, <3>2, <3>3
  <2>3. Others /\ timer'[k].pc = "idle"
    BY <1>0, <1>9, EndTimer DEF SystemUpdateFails
  <2> QED BY <1>4, <1>5, <2>1, <2>2, <2>3
<1>10. CASE SystemReread(k)
  <2>1. row' = row /\ been' = been /\ timer[k].pc = "reread"
    BY <1>10 DEF SystemReread
  <2>2. /\ Others
        /\ timer'[k].pc = "notify" /\ timer'[k].ticket = timer[k].ticket
        /\ timer'[k].target = timer[k].target
    BY <1>0, <1>10 DEF SystemReread, TimerRec
  <2>3. \A s \in Targets : Owed(t, s)' <=> Owed(t, s)
    BY <2>1, <2>2 DEF Owed
  <2> QED BY <1>4, <2>1, <2>3
<1>11. CASE SystemRereadFails(k)
  <2>1. u # t /\ row' = row /\ been' = been
    BY <1>3, <1>6, <1>11 DEF SystemRereadFails
  <2>2. Others /\ timer'[k].pc = "idle"
    BY <1>0, <1>11, EndTimer DEF SystemRereadFails
  <2> QED BY <1>4, <1>5, <2>1, <2>2
<1>12. CASE Notify(k)
  <2>1. u # t /\ row' = row /\ been' = been
    BY <1>3, <1>12 DEF Notify
  <2>2. Others /\ (timer'[k].pc = "idle" \/ timer'[k].ticket = u)
    BY <1>0, <1>3, <1>12, StepTimer, EndTimer DEF Notify
  <2> QED BY <1>4, <1>5, <2>1, <2>2
<1>13. CASE RescheduleStop(k)
  <2> DEFINE stopped == Stopped(u)
  <2>1. /\ row' = row /\ been' = been /\ timer[k].pc = "stop"
        /\ timer' = [stopped EXCEPT ![k] = IF NeedsTimer(timer[k].seen)
                                             THEN [stopped[k] EXCEPT !.pc = "arm"] ELSE IdleTimer]
    BY <1>3, <1>13 DEF RescheduleStop
  <2>2. /\ stopped \in [Timers -> TimerRec]
        /\ \A j \in Timers : \/ stopped[j] = timer[j]
                             \/ stopped[j] = IdleTimer /\ timer[j].pc = "armed"
    BY StoppedType DEF Known
  <2> HIDE DEF stopped
  <2>3. timer'[k].pc \in {"arm", "idle"}
    BY <2>1, <2>2 DEF IdleTimer, TimerRec
  <2>4. \A j \in Timers \ {k} : \/ timer'[j] = timer[j]
                                \/ timer'[j] = IdleTimer /\ timer[j].pc = "armed"
    BY <2>1, <2>2
  <2>5. \A s \in Targets : Owed(t, s)' <=> Owed(t, s)
    BY <2>1, <2>3, <2>4, OwesTheSame DEF IdleTimer
  <2> QED BY <1>4, <2>1, <2>5
<1>14. CASE RescheduleArm(k)
  <2> DEFINE objects == [timer EXCEPT ![k] = IdleTimer]
  <2>1. row' = row /\ been' = been /\ timer[k].pc = "arm"
    BY <1>14 DEF RescheduleArm
  <2>2. /\ objects \in [Timers -> TimerRec] /\ objects[k] = IdleTimer
        /\ \A j \in Timers \ {k} : objects[j] = timer[j]
    BY <1>0, IdleRecords
  <2>3. ArmIn(objects, u, TargetOf(timer[k].seen))
    BY <1>3, <1>14 DEF RescheduleArm
  <2> HIDE DEF objects
  <2>4. PICK i \in Timers :
          /\ objects[i].pc = "idle" /\ timer'[i] = NewTimer(u, TargetOf(timer[k].seen))
          /\ \A j \in Timers \ {i} : timer'[j] = objects[j]
    BY <2>2, <2>3, ArmedOne, TargetType DEF Known
  <2>5. \A j \in Timers : \/ timer'[j] = timer[j]
                          \/ /\ timer[j].pc \in {"arm", "idle"}
                             /\ timer'[j].pc \in {"armed", "idle"}
    BY <2>1, <2>2, <2>4 DEF NewTimer, IdleTimer
  <2>6. \A s \in Targets : Owed(t, s)' <=> Owed(t, s)
    BY <2>5, OwesTheSame
  <2> QED BY <1>4, <2>1, <2>6
<1> QED BY <1>7, <1>8, <1>9, <1>10, <1>11, <1>12, <1>13, <1>14 DEF Elapse

LEMMA AccountSystem ==
  ASSUME Known, NEW t \in Tickets, AccountedFor(t), RoleOf[t] \notin excused,
         t \notin disturbed', t \notin CutOff,
         \A s \in Targets : OnItsWay(t, s)' <=> OnItsWay(t, s),
         Tick \/ Crash \/ Restart \/ RestartUnscheduled
  PROVE  Kept(t)
<1>1. row' = row /\ been' = been
  BY DEF Tick, Crash, Restart, RestartUnscheduled
<1>2. CASE Tick
  <2>1. req' = req /\ timer' = timer
    BY <1>2 DEF Tick
  <2> QED BY <1>1, <2>1, OwesTheSame, Untouched
<1>3. CASE Crash
  <2>1. crashes' # crashes
    BY <1>3, JITAssumption DEF Crash, Known, TypeInv, TypeOK
  <2>2. ~Busy(t)
    BY <2>1 DEF CutOff
  <2>3. /\ \A k \in Timers : timer'[k].pc = "idle"
        /\ \A h \in Handlers : req'[h].pc = "idle"
    BY <1>3 DEF Crash, IdleTimer, IdleReq
  <2>4. \A s \in Targets : Owed(t, s)' <=> Owed(t, s)
    BY <2>2, <2>3 DEF Owed, Busy, FiredFor
  <2>5. \A h \in Handlers : ~HandledBy(h, t)'
    BY <2>3 DEF HandledBy
  <2> QED BY <1>1, <2>4, <2>5, Untouched
<1>4. CASE Restart \/ RestartUnscheduled
  <2>1. req' = req /\ ~up
    BY <1>4 DEF Restart, RestartUnscheduled
  <2>2. \A k \in Timers : timer[k] = IdleTimer
    BY <2>1 DEF Known, SchedulerInv, Down
  <2>3. ASSUME NEW k \in Timers PROVE timer'[k] = IdleTimer \/ timer'[k].pc = "armed"
    <3>1. CASE Restart
      <4>1. \A u, target : NewTimer(u, target).pc = "armed"
        BY DEF NewTimer
      <4> QED BY <3>1, <4>1, RestartTimers DEF Known
    <3>2. CASE RestartUnscheduled
      BY <2>2, <3>2 DEF RestartUnscheduled
    <3> QED BY <1>4, <3>1, <3>2
  <2>4. \A s \in Targets : Owed(t, s)' <=> Owed(t, s)
    BY <2>2, <2>3 DEF Owed, IdleTimer
  <2> QED BY <1>1, <2>1, <2>4, Untouched
<1> QED BY <1>2, <1>3, <1>4

LEMMA AccountKnox ==
  ASSUME Known, RolesInv, Knox(Next), NEW t \in Tickets, RoleOf[t] \notin excused' PROVE Kept(t)
<1>1. Next /\ RoleOf[t] \notin excused /\ t \notin disturbed' /\ t \notin CutOff
  BY DEF Knox
<1>2. AccountedFor(t)
  BY DEF RolesInv
<1>3. CASE \E k \in Timers : Notify(k) /\ timer[k].ticket = t
  BY <1>2, <1>3, AccountNotified
<1>4. CASE \A k \in Timers : Notify(k) => timer[k].ticket # t
  <2>1. \A s \in Targets : OnItsWay(t, s)' <=> OnItsWay(t, s)
    BY <1>2, <1>4, NothingTold
  <2> QED BY <1>1, <1>2, <1>4, <2>1, AccountArrive, AccountProceed, AccountElapse, AccountSystem
          DEF Next
<1> QED BY <1>3, <1>4

\* No step of KNOX grants a role or takes one away; it may challenge one.
LEMMA RolesKnox ==
  ASSUME Known, RolesInv, Knox(Next) PROVE RolesInv'
<1>1. Grows /\ roles' = roles /\ excused \subseteq excused'
  BY TicketInvStep DEF Knox, Known, GrantsInv
<1>2. ASSUME NEW t \in Tickets PROVE AccountedFor(t)'
  BY AccountKnox DEF AccountedFor, Kept
<1>3. ASSUME NEW r \in Roles \ excused', NEW t \in TicketsFor(r)
      PROVE  (Granted(t)' <=> Granted(t)) /\ (Unchallenged(t)' => Unchallenged(t))
  <2>1. t \in Tickets /\ RoleOf[t] \notin excused'
    BY DEF TicketsFor
  <2>2. Kept(t)
    BY <2>1, AccountKnox
  <2>3. Unchallenged(t)' => Unchallenged(t)
    BY <1>1 DEF Unchallenged, Grows, TicketsFor
  <2> QED BY <2>2, <2>3 DEF Kept
<1>4. RolesGranted'
  <2> SUFFICES ASSUME NEW r \in Roles, r \notin excused'
               PROVE  /\ r \in roles' => \E t \in TicketsFor(r) : Granted(t)'
                      /\ \A t \in TicketsFor(r) : Granted(t)' /\ Unchallenged(t)' => r \in roles'
    BY DEF RolesGranted, TicketsFor
  <2>1. /\ r \in roles => \E t \in TicketsFor(r) : Granted(t)
        /\ \A t \in TicketsFor(r) : Granted(t) /\ Unchallenged(t) => r \in roles
    BY <1>1 DEF RolesInv, RolesGranted
  <2> QED BY <1>1, <1>3, <2>1
<1> QED BY <1>2, <1>4 DEF RolesInv

(***************************************************************************)
(* The steps of the workflow and of the sessions.                          *)
(***************************************************************************)
LEMMA RolesWorkflow ==
  ASSUME Known, RolesInv, NEW x \in Hooks, Execute(x) \/ WebhookFails(x) PROVE RolesInv'
<1>1. /\ row' = row /\ been' = been /\ timer' = timer /\ req' = req /\ disturbed' = disturbed
      /\ hooks' \subseteq hooks /\ hooks \subseteq hooks' \cup {x}
      /\ excused \subseteq excused'
  BY DEF Execute, AssignRole, RevokeRole, LogoutUser, WebhookFails, vars
<1>2. \A t, s : /\ OnItsWay(t, s)' => OnItsWay(t, s)
                /\ OnItsWay(t, s) => OnItsWay(t, s)' \/ x = [ticket |-> t, status |-> s]
                /\ Owed(t, s)' <=> Owed(t, s)
  BY <1>1 DEF OnItsWay, Owed
\* What is on its way for a ticket only becomes less.
<1>3. ASSUME NEW t \in Tickets PROVE AccountedFor(t)'
  <2>1. (\A h \in Handlers : HandledBy(h, t)' <=> HandledBy(h, t)) /\ (Lived(t)' <=> Lived(t))
    BY <1>1 DEF HandledBy, Lived
  <2>2. Queued(t) => Queued(t)'
    BY <1>1, <1>2, <2>1 DEF Queued, Targets
  <2> QED BY <1>1, <2>1, <2>2 DEF RolesInv, AccountedFor
<1>4. ASSUME NEW t \in Tickets, x.ticket # t \/ hooks' = hooks PROVE Granted(t)' <=> Granted(t)
  <2>1. \A s : OnItsWay(t, s)' <=> OnItsWay(t, s)
    BY <1>2, <1>4 DEF OnItsWay
  <2> QED BY <1>1, <1>2, <2>1 DEF Granted
<1>5. \A t \in Tickets : Unchallenged(t)' <=> Unchallenged(t)
  BY <1>1 DEF Unchallenged, TicketsFor
<1>6. ASSUME NEW r \in Roles, r \notin excused'
      PROVE  /\ r \in roles' => \E t \in TicketsFor(r) : Granted(t)'
             /\ \A t \in TicketsFor(r) : Granted(t)' /\ Unchallenged(t)' => r \in roles'
  <2>1. /\ r \notin excused
        /\ r \in roles => \E t \in TicketsFor(r) : Granted(t)
        /\ \A t \in TicketsFor(r) : Granted(t) /\ Unchallenged(t) => r \in roles
    BY <1>1, <1>6 DEF RolesInv, RolesGranted
  <2>2. \A t \in TicketsFor(r) : t \in Tickets /\ RoleOf[t] = r
    BY DEF TicketsFor
  \* A step that is about another role, or changes none.
  <2>3. CASE (RoleFor(x) # r \/ hooks' = hooks) /\ (r \in roles' <=> r \in roles)
    <3>1. \A t \in TicketsFor(r) : Granted(t)' <=> Granted(t)
      BY <1>4, <2>2, <2>3 DEF RoleFor
    <3> QED BY <1>5, <2>1, <2>2, <2>3, <3>1
  <2>4. CASE RoleFor(x) = r /\ (AssignRole(x) \/ RevokeRole(x))
    <3>1. /\ x \in hooks /\ hooks' = hooks \ {x} /\ x.status \in {"active", "expired"}
          /\ x.status = "active" => roles' = roles \cup {r}
          /\ x.status = "expired" => roles' = roles \ {r}
      BY <2>4 DEF AssignRole, RevokeRole
    <3> PICK t \in Tickets : x = [ticket |-> t, status |-> x.status]
      BY DEF Hooks
    <3>2. t \in TicketsFor(r) /\ x.status \in been[t]
      BY <2>4, <3>1 DEF TicketsFor, RoleFor, Known, GrantsInv, EarnedInv
    <3>3. Lived(t) /\ Queued(t)
      BY <2>1, <3>2 DEF RolesInv, AccountedFor, TicketsFor
    <3>4. OnItsWay(t, x.status) /\ ~OnItsWay(t, x.status)' /\ ~Owed(t, x.status)
      BY <3>1, <3>3 DEF OnItsWay, Queued, Targets
    <3>5. CASE x.status = "active"
      <4>1. row[t].status = "expired" => Owed(t, "expired")
        BY <3>3, <3>4, <3>5 DEF Queued
      <4>2. Granted(t)'
        BY <1>1, <1>2, <3>2, <3>4, <3>5, <4>1 DEF Granted
      <4> QED BY <3>1, <3>2, <3>5, <4>2
    <3>6. CASE x.status = "expired"
      <4>1. row[t].status = "expired"
        BY <3>2, <3>3, <3>6 DEF Lived
      <4>2. ~Granted(t)'
        BY <1>1, <1>2, <3>4, <3>6, <4>1 DEF Granted
      <4>3. \A u \in TicketsFor(r) \ {t} : ~Unchallenged(u)'
        BY <1>1, <2>2, <3>2, <3>6 DEF Unchallenged, TicketsFor
      <4> QED BY <3>1, <3>6, <4>2, <4>3
    <3> QED BY <3>1, <3>5, <3>6
  <2>5. CASE LogoutUser(x)
    BY <2>3, <2>5 DEF LogoutUser
  <2>6. CASE WebhookFails(x)
    <3>1. roles' = roles /\ (hooks' = hooks \/ RoleFor(x) \in excused')
      BY <2>6 DEF WebhookFails
    <3> QED BY <1>6, <2>3, <3>1
  <2>7. CASE RoleFor(x) # r /\ (AssignRole(x) \/ RevokeRole(x))
    BY <2>3, <2>7 DEF AssignRole, RevokeRole
  <2> QED BY <2>4, <2>5, <2>6, <2>7 DEF Execute
<1>7. RolesGranted'
  BY <1>6 DEF RolesGranted, TicketsFor
<1> QED BY <1>3, <1>7 DEF RolesInv

LEMMA RolesSessions ==
  ASSUME RolesInv, SignOn \/ (\E r \in Roles : SessionEnds(r)) \/ UNCHANGED gvars
  PROVE  RolesInv'
<1>1. UNCHANGED <<vars, hooks, roles, excused>>
  BY DEF SignOn, SessionEnds, gvars, workflow
<1>2. row' = row /\ been' = been /\ timer' = timer /\ req' = req /\ disturbed' = disturbed
  BY <1>1 DEF vars
<1>3. \A t, s : (Owed(t, s)' <=> Owed(t, s)) /\ (OnItsWay(t, s)' <=> OnItsWay(t, s))
  BY <1>1, <1>2 DEF Owed, OnItsWay
<1>4. \A t : AccountedFor(t)' <=> AccountedFor(t)
  BY <1>1, <1>2, <1>3 DEF AccountedFor, Lived, Queued, HandledBy
<1>5. \A t : (Granted(t)' <=> Granted(t)) /\ (Unchallenged(t)' <=> Unchallenged(t))
  BY <1>2, <1>3 DEF Granted, Unchallenged, TicketsFor
<1>6. RolesGranted'
  BY <1>1, <1>5 DEF RolesInv, RolesGranted, TicketsFor
<1> QED BY <1>4, <1>6 DEF RolesInv

LEMMA RolesInvInit == GInit => RolesInv
BY DEF GInit, Init, RolesInv, RolesGranted, AccountedFor, Lived, Queued, Granted, Owed, OnItsWay,
       HandledBy, TicketsFor, IdleReq, IdleTimer, Targets

LEMMA RolesInvNext == Known /\ RolesInv /\ [GNext]_gvars => RolesInv'
BY RolesKnox, RolesWorkflow, RolesSessions DEF GNext

THEOREM RolesInvariant == GSpec => [](Known /\ RolesInv)
<1>1. GSpec => []Known
  <2>1. GrantsInv /\ TypeInv /\ PromiseInv /\ SchedulerInv => Known
    BY DEF Known
  <2> QED BY <2>1, GrantsInvariant, TicketsAreIndependent, SchedulerInvariant, PTL
<1> QED BY <1>1, RolesInvInit, RolesInvNext, PTL DEF GSpec

\* While nothing is under way, the user holds a role only if a ticket for it
\* stands (is active, or was when it was revoked), and holds it if one does,
\* unless another ticket for the role has expired; but for the roles whose
\* webhooks came to grief or whose ticket was disturbed.
THEOREM RolesMatch == GSpec => []RolesMatchTickets
<1>1. Known /\ RolesInv => RolesMatchTickets
  <2> SUFFICES ASSUME RolesInv, hooks = {}, \A t \in Tickets : ~Busy(t),
                      NEW r \in Roles \ excused
               PROVE  /\ r \in roles => Holding(r) # {}
                      /\ \A t \in Holding(r) :
                           (\A u \in TicketsFor(r) \ {t} : "expired" \notin been[u]) => r \in roles
    BY DEF RolesMatchTickets
  <2>1. \A t \in Tickets : \A s : ~Owed(t, s) /\ ~OnItsWay(t, s)
    BY DEF Owed, OnItsWay, Busy, FiredFor
  <2>2. \A t \in TicketsFor(r) : Granted(t) <=> t \in Holding(r)
    BY <2>1 DEF Granted, Holding, TicketsFor
  <2>3. \A t \in Holding(r) :
          t \in TicketsFor(r) /\ (Unchallenged(t) <=> \A u \in TicketsFor(r) \ {t} : "expired" \notin been[u])
    BY DEF Unchallenged, Holding, TicketsFor
  <2> QED BY <2>2, <2>3 DEF RolesInv, RolesGranted
<1> QED BY <1>1, RolesInvariant, PTL

================================================================================
