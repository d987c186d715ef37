---------------------------- MODULE JITGrantsProofs ----------------------------
(***************************************************************************)
(* Theorems about JITGrants: the composition restricts the tickets in      *)
(* nothing, nobody ever has access without a ticket that was approved and  *)
(* whose period had begun, and the whole implements AccessLease.           *)
(***************************************************************************)
EXTENDS JITGrants, JITTicketsProofs

\* Every behaviour of the composition is one of the ticketing subsystem: the
\* workflow, Keycloak and the sessions hold up no request and no timer, and
\* write no ticket.
THEOREM TicketsAreIndependent == GSpec => Spec
<1>1. GInit => Init
  BY DEF GInit
<1>2. [GNext]_gvars => [Next]_vars
  <2> SUFFICES ASSUME [GNext]_gvars PROVE [Next]_vars
    OBVIOUS
  <2>1. CASE Knox(Next)
    BY <2>1 DEF Knox
  <2>2. ASSUME NEW x \in Hooks, Execute(x) \/ WebhookFails(x) PROVE UNCHANGED vars
    BY <2>2 DEF Execute, AssignRole, RevokeRole, LogoutUser, WebhookFails
  <2>3. SignOn => UNCHANGED vars
    BY DEF SignOn
  <2>4. ASSUME NEW r \in Roles, SessionEnds(r) PROVE UNCHANGED vars
    BY <2>4 DEF SessionEnds
  <2>5. UNCHANGED gvars => UNCHANGED vars
    BY DEF gvars
  <2> QED BY <2>1, <2>2, <2>3, <2>4, <2>5 DEF GNext
<1> QED BY <1>1, <1>2, PTL DEF GSpec, Spec

(***************************************************************************)
(* What a slot has read of its ticket has been in the table.               *)
(***************************************************************************)
SeenBefore(r, hist) == r.pc # "idle" => r.seen \in hist[r.ticket] \cup {Absent}

SeenInv ==
  /\ \A h \in Handlers : SeenBefore(req[h], been)
  /\ \A k \in Timers : SeenBefore(timer[k], been)

\* The history only grows, and periods do not change.
LEMMA StepGrows ==
  ASSUME TypeInv, TypeInv', PromiseInv, [Next]_vars
  PROVE  Grows /\ PromiseInv'
<1>1. PromiseInv' /\ [Promise!PromiseNext]_(Promise!pvars)
  BY PromiseStep
<1>2. /\ now \in Nat /\ now' \in Nat /\ row \in [Tickets -> Row] /\ been \in [Tickets -> SUBSET Statuses]
      /\ \A t \in Tickets : row[t].status = Absent => been[t] = {}
  BY TimeAssumption DEF TypeInv, TypeOK, Instants, ZeroTime, PromiseInv, HistorySound
<1>3. CASE UNCHANGED Promise!pvars
  <2>1. now' = now /\ row' = row /\ been' = been
    BY <1>3 DEF Promise!pvars
  <2> QED BY <1>1, <1>2, <2>1 DEF Grows
<1>4. CASE Promise!TimePasses
  <2>1. now' > now /\ row' = row /\ been' = been
    BY <1>4 DEF Promise!TimePasses
  <2> QED BY <1>1, <1>2, <2>1 DEF Grows
<1>5. ASSUME NEW t \in Tickets, NEW p \in [start : Promise!Instants, end : Promise!Instants],
             Promise!Submit(t, p)
      PROVE  Grows
  <2>1. been[t] = {}
    BY <1>2, <1>5 DEF Promise!Submit, Absent, Promise!Absent
  <2>2. \A u \in Tickets \ {t} : row'[u] = row[u] /\ been'[u] = been[u]
    BY <1>2, <1>5 DEF Promise!Submit
  <2> QED BY <1>2, <1>5, <2>1, <2>2 DEF Promise!Submit, Grows
<1>6. ASSUME NEW t \in Tickets, NEW s \in Statuses, Promise!Becomes(t, s)
      PROVE  Grows
  <2>1. /\ row'[t].start = row[t].start /\ row'[t].end = row[t].end
        /\ been[t] \subseteq been'[t]
        /\ \A u \in Tickets \ {t} : row'[u] = row[u] /\ been'[u] = been[u]
    BY <1>6, BecomesRow DEF Promise!Becomes, Becomes, TypeInv
  <2> QED BY <1>2, <1>6, <2>1 DEF Promise!Becomes, Grows
<1>7. ASSUME NEW t \in Tickets,
             \/ Promise!Decide(t) \/ Promise!Revoke(t)
             \/ Promise!Activate(t) \/ Promise!Expire(t)
      PROVE  Grows
  BY <1>6, <1>7
     DEF Promise!Decide, Promise!Revoke, Promise!Activate, Promise!Expire, Statuses
<1> QED BY <1>1, <1>3, <1>4, <1>5, <1>7 DEF Promise!PromiseNext

\* A step need only account for the slots it fills.
LEMMA StillSeen ==
  ASSUME TypeInv, Grows, SeenInv,
         \A h \in Handlers : req'[h] = req[h] \/ SeenBefore(req'[h], been'),
         \A k \in Timers : timer'[k] = timer[k] \/ SeenBefore(timer'[k], been')
  PROVE  SeenInv'
<1>1. ASSUME NEW h \in Handlers PROVE SeenBefore(req'[h], been')
  BY DEF SeenBefore, SeenInv, Grows, TypeInv, Assigned
<1>2. ASSUME NEW k \in Timers PROVE SeenBefore(timer'[k], been')
  BY DEF SeenBefore, SeenInv, Grows, TypeInv, Assigned
<1> QED BY <1>1, <1>2 DEF SeenInv

LEMMA SeenIdle == ASSUME NEW hist PROVE SeenBefore(IdleReq, hist) /\ SeenBefore(IdleTimer, hist)
BY DEF SeenBefore, IdleReq, IdleTimer

LEMMA SeenNew ==
  ASSUME NEW t, NEW target, NEW hist PROVE SeenBefore(NewTimer(t, target), hist)
BY DEF SeenBefore, NewTimer

LEMMA SeenHandler ==
  ASSUME TypeInv, Grows, PromiseInv, SeenInv, NEW h \in Handlers, Arrive(h) \/ Proceed(h)
  PROVE  SeenInv'
<1>0. /\ req \in [Handlers -> ReqRec]
      /\ timer \in [Timers -> TimerRec]
      /\ req[h].pc # "idle" => req[h].ticket \in Tickets
      /\ SeenBefore(req[h], been)
      /\ \A t \in Tickets : been[t] \subseteq been'[t]
  BY DEF TypeInv, TypeOK, Assigned, SeenInv, Grows
<1> DEFINE Others == \A g \in Handlers \ {h} : req'[g] = req[g]
\* A step of h's own program that reads nothing.
<1>1. ASSUME Others, timer' = timer,
             req'[h].pc = "idle" \/ /\ req[h].pc # "idle"
                                    /\ req'[h].ticket = req[h].ticket
                                    /\ req'[h].seen = req[h].seen
      PROVE  SeenInv'
  BY <1>0, <1>1, StillSeen DEF SeenBefore
<1>2. ASSUME NEW t \in Tickets, NEW p \in Requested, CreateTicket(h, t, p) PROVE SeenInv'
  <2>1. Others /\ timer' = timer
    BY <1>0, <1>2 DEF CreateTicket
  <2>2. req'[h] = [pc |-> "stop", ticket |-> t, op |-> "requested", seen |-> "requested"]
    BY <1>0, <1>2 DEF CreateTicket
  <2>3. "requested" \in been'[t]
    BY <1>2, InsertRow DEF CreateTicket, TypeInv
  <2> QED BY <2>1, <2>2, <2>3, StillSeen DEF SeenBefore
<1>3. ASSUME NEW t \in Tickets, NEW p \in Requested, CreateTicketFails(h, t, p) PROVE SeenInv'
  BY <1>3, StillSeen DEF CreateTicketFails
<1>4. ASSUME NEW t \in Tickets, CancelTicket(h, t) PROVE SeenInv'
  <2>1. Others /\ timer' = timer
    BY <1>0, <1>4 DEF CancelTicket
  <2>2. req'[h] = [pc |-> "read", ticket |-> t, op |-> "canceled", seen |-> Absent]
    BY <1>0, <1>4 DEF CancelTicket
  <2> QED BY <2>1, <2>2, StillSeen DEF SeenBefore
<1>5. ASSUME NEW t \in Tickets, NEW s \in {"approved", "rejected", "revoked"},
             AdminUpdateStatus(h, t, s)
      PROVE  SeenInv'
  <2>1. Others /\ timer' = timer
    BY <1>0, <1>5 DEF AdminUpdateStatus
  <2>2. req'[h] = [pc |-> "write", ticket |-> t, op |-> s, seen |-> Absent]
    BY <1>0, <1>5 DEF AdminUpdateStatus
  <2> QED BY <2>1, <2>2, StillSeen DEF SeenBefore
<1>6. CASE ReadStatus(h) \/ ReadStatusFails(h)
  <2>1. "write" \in ReqPCs
    BY DEF ReqPCs
  <2> QED BY <1>0, <1>1, <1>6, <2>1, GotoReq, DoneReq DEF ReadStatus, ReadStatusFails
<1>7. CASE WriteStatus(h) \/ WriteStatusFails(h)
  <2>1. "reread" \in ReqPCs
    BY DEF ReqPCs
  <2> QED BY <1>0, <1>1, <1>7, <2>1, GotoReq, DoneReq DEF WriteStatus, WriteStatusFails
<1>8. CASE Reread(h)
  <2>1. Others /\ timer' = timer /\ req[h].ticket \in Tickets
    BY <1>0, <1>8 DEF Reread
  <2>2. req'[h].ticket = req[h].ticket /\ req'[h].seen = row[req[h].ticket].status
    BY <1>0, <1>8 DEF Reread, ReqRec
  <2>3. req'[h].seen \in been[req[h].ticket] \cup {Absent}
    BY <2>1, <2>2 DEF PromiseInv, HistorySound
  <2> QED BY <1>0, <2>1, <2>2, <2>3, StillSeen DEF SeenBefore
<1>9. CASE RereadFails(h) \/ Respond(h)
  BY <1>0, <1>1, <1>9, DoneReq DEF RereadFails, Respond
<1>10. CASE ScheduleStop(h) \/ CancelTimer(h)
  <2>1. {"arm", "respond"} \subseteq ReqPCs
    BY DEF ReqPCs
  <2>2. /\ Others /\ req[h].ticket \in Tickets
        /\ req'[h].ticket = req[h].ticket /\ req'[h].seen = req[h].seen
    BY <1>0, <1>10, <2>1, GotoReq DEF ScheduleStop, CancelTimer
  <2>3. SeenBefore(req'[h], been')
    BY <1>0, <1>10, <2>2 DEF SeenBefore, ScheduleStop, CancelTimer
  <2>4. \A k \in Timers : timer'[k] = timer[k] \/ timer'[k] = IdleTimer
    BY <1>10, <2>2, StoppedType DEF ScheduleStop, CancelTimer
  <2> QED BY <2>2, <2>3, <2>4, SeenIdle, StillSeen
<1>11. CASE ScheduleArm(h)
  <2>1. "respond" \in ReqPCs
    BY DEF ReqPCs
  <2>2. /\ Others /\ req[h].ticket \in Tickets
        /\ req'[h].ticket = req[h].ticket /\ req'[h].seen = req[h].seen
    BY <1>0, <1>11, <2>1, GotoReq DEF ScheduleArm
  <2>3. SeenBefore(req'[h], been')
    BY <1>0, <1>11, <2>2 DEF SeenBefore, ScheduleArm
  <2>4. \A k \in Timers : \/ timer'[k] = timer[k]
                          \/ timer'[k] = NewTimer(req[h].ticket, TargetOf(req[h].seen))
    BY <1>0, <1>11, <2>2, ArmInType, TargetType DEF ScheduleArm
  <2> QED BY <2>2, <2>3, <2>4, SeenNew, StillSeen
<1> QED BY <1>2, <1>3, <1>4, <1>5, <1>6, <1>7, <1>8, <1>9, <1>10, <1>11,
          Arrive(h) \/ Proceed(h) DEF Arrive, Proceed

LEMMA SeenTimer ==
  ASSUME TypeInv, Grows, PromiseInv, SeenInv, NEW k \in Timers, Elapse(k)
  PROVE  SeenInv'
<1> DEFINE t == timer[k].ticket
<1> DEFINE Others == \A j \in Timers \ {k} : timer'[j] = timer[j]
<1>0. /\ timer \in [Timers -> TimerRec]
      /\ timer[k].pc # "idle" => t \in Tickets
      /\ SeenBefore(timer[k], been)
      /\ \A u \in Tickets : been[u] \subseteq been'[u]
  BY DEF TypeInv, TypeOK, Assigned, SeenInv, Grows
<1>1. {"fired", "update", "reread", "notify", "stop"} \subseteq TimerPCs
  BY DEF TimerPCs
\* A step of k's own program that reads nothing.
<1>2. ASSUME Others, req' = req,
             timer'[k].pc = "idle" \/ /\ timer[k].pc # "idle"
                                      /\ timer'[k].ticket = t
                                      /\ timer'[k].seen = timer[k].seen
      PROVE  SeenInv'
  BY <1>0, <1>2, StillSeen DEF SeenBefore
<1>3. CASE Fire(k) \/ ForgetTimer(k)
  BY <1>0, <1>1, <1>2, <1>3, StepTimer DEF Fire, ForgetTimer
<1>4. CASE SystemUpdate(k) \/ SystemUpdateFails(k)
  BY <1>0, <1>1, <1>2, <1>4, StepTimer, EndTimer DEF SystemUpdate, SystemUpdateFails
<1>5. CASE SystemReread(k)
  <2>1. req' = req /\ Others /\ t \in Tickets
    BY <1>0, <1>5 DEF SystemReread
  <2>2. timer'[k].ticket = t /\ timer'[k].seen = row[t].status
    BY <1>0, <1>5 DEF SystemReread, TimerRec
  <2>3. timer'[k].seen \in been[t] \cup {Absent}
    BY <2>1, <2>2 DEF PromiseInv, HistorySound
  <2> QED BY <1>0, <2>1, <2>2, <2>3, StillSeen DEF SeenBefore
<1>6. CASE SystemRereadFails(k) \/ Notify(k)
  BY <1>0, <1>1, <1>2, <1>6, StepTimer, EndTimer DEF SystemRereadFails, Notify
<1>7. CASE RescheduleStop(k)
  <2> DEFINE stopped == Stopped(t)
  <2>1. req' = req /\ t \in Tickets /\ timer[k].pc = "stop"
    BY <1>0, <1>7 DEF RescheduleStop
  <2>2. /\ stopped \in [Timers -> TimerRec]
        /\ stopped[k] = timer[k]
        /\ \A j \in Timers : stopped[j] = timer[j] \/ stopped[j] = IdleTimer
    BY <2>1, StoppedType
  <2>3. timer' = [stopped EXCEPT ![k] = IF NeedsTimer(timer[k].seen)
                                          THEN [stopped[k] EXCEPT !.pc = "arm"] ELSE IdleTimer]
    BY <1>7 DEF RescheduleStop
  <2> HIDE DEF stopped
  <2>4. \A j \in Timers \ {k} : timer'[j] = timer[j] \/ timer'[j] = IdleTimer
    BY <2>2, <2>3
  <2>5. timer'[k] = [timer[k] EXCEPT !.pc = "arm"] \/ timer'[k] = IdleTimer
    BY <2>2, <2>3
  <2>6. SeenBefore([timer[k] EXCEPT !.pc = "arm"], been')
    BY <1>0, <2>1 DEF SeenBefore, TimerRec
  <2> QED BY <2>1, <2>4, <2>5, <2>6, SeenIdle, StillSeen
<1>8. CASE RescheduleArm(k)
  <2> DEFINE objects == [timer EXCEPT ![k] = IdleTimer]
  <2>1. req' = req /\ t \in Tickets
    BY <1>0, <1>8 DEF RescheduleArm
  <2>2. objects \in [Timers -> TimerRec]
        /\ \A j \in Timers : objects[j] = timer[j] \/ objects[j] = IdleTimer
    BY <1>0, IdleRecords
  <2>3. ArmIn(objects, t, TargetOf(timer[k].seen))
    BY <1>8 DEF RescheduleArm
  <2> HIDE DEF objects
  <2>4. \A j \in Timers : timer'[j] = objects[j] \/ timer'[j] = NewTimer(t, TargetOf(timer[k].seen))
    BY <2>1, <2>2, <2>3, ArmInType, TargetType
  <2> QED BY <2>1, <2>2, <2>4, SeenIdle, SeenNew, StillSeen
<1> QED BY <1>3, <1>4, <1>5, <1>6, <1>7, <1>8 DEF Elapse

LEMMA SeenStep ==
  ASSUME TypeInv, Grows, PromiseInv, SeenInv, [Next]_vars
  PROVE  SeenInv'
<1>1. CASE UNCHANGED vars \/ Tick
  BY <1>1, StillSeen DEF vars, Tick
<1>2. CASE Crash
  <2>1. /\ \A h \in Handlers : req'[h] = IdleReq
        /\ \A k \in Timers : timer'[k] = IdleTimer
    BY <1>2 DEF Crash
  <2> QED BY <2>1, SeenIdle, StillSeen
<1>3. CASE Restart
  <2>1. req' = req
    BY <1>3 DEF Restart
  <2>2. \A k \in Timers : SeenBefore(timer'[k], been')
    BY <1>3, RestartTimers, SeenIdle, SeenNew
  <2> QED BY <2>1, <2>2, StillSeen
<1>4. CASE RestartUnscheduled
  BY <1>4, StillSeen DEF RestartUnscheduled
<1> QED BY <1>1, <1>2, <1>3, <1>4, SeenHandler, SeenTimer DEF Next

(***************************************************************************)
(* No activation and no expiry is early, and that stays so: time passes    *)
(* and the period is fixed.                                                *)
(***************************************************************************)
NeverEarly ==
  \A t \in Tickets : /\ "active" \in been[t] => now >= row[t].start
                     /\ "expired" \in been[t] => now >= row[t].end

LEMMA NeverEarlyStep ==
  ASSUME TypeInv, TypeInv', PromiseInv, NeverEarly, [Next]_vars
  PROVE  NeverEarly'
<1>1. Grows /\ [Promise!PromiseNext]_(Promise!pvars)
  BY StepGrows, PromiseStep
<1>2. /\ now \in Nat /\ now' \in Nat /\ now' >= now
      /\ been \in [Tickets -> SUBSET Statuses]
      /\ \A t \in Tickets : row[t].start \in Nat /\ row[t].end \in Nat
  BY <1>1, TimeAssumption DEF Grows, TypeInv, TypeOK, Row, Instants, ZeroTime
<1> SUFFICES ASSUME NEW t \in Tickets, NEW s \in Targets, s \in been'[t]
             PROVE  /\ s = "active" => now' >= row'[t].start
                    /\ s = "expired" => now' >= row'[t].end
  BY DEF NeverEarly, Targets
<1>3. CASE s \in been[t]
  <2>1. row'[t].start = row[t].start /\ row'[t].end = row[t].end
    BY <1>1, <1>3 DEF Grows
  <2> QED BY <1>2, <1>3, <2>1 DEF NeverEarly
<1>4. CASE s \notin been[t]
  <2>1. /\ s = "active" => Promise!Activate(t)
        /\ s = "expired" => Promise!Expire(t)
    <3>1. been'[t] # been[t]
      BY <1>4
    <3>2. ASSUME NEW u \in Tickets, NEW a, Promise!Becomes(u, a)
          PROVE  u = t /\ a = s
      BY <1>2, <1>4, <3>2 DEF Promise!Becomes
    <3>3. ASSUME NEW u \in Tickets, NEW p, Promise!Submit(u, p) PROVE FALSE
      BY <1>2, <1>4, <3>3 DEF Promise!Submit, Targets
    <3>4. ~Promise!TimePasses /\ ~UNCHANGED Promise!pvars
      BY <3>1 DEF Promise!TimePasses, Promise!pvars
    <3>5. PICK u \in Tickets : \/ Promise!Decide(u) \/ Promise!Revoke(u)
                               \/ Promise!Activate(u) \/ Promise!Expire(u)
      BY <1>1, <3>3, <3>4 DEF Promise!PromiseNext
    <3> QED BY <3>2, <3>5
            DEF Promise!Decide, Promise!Revoke, Promise!Activate, Promise!Expire, Targets
  <2>2. /\ s = "active" => now >= row[t].start
        /\ s = "expired" => now >= row[t].end
        /\ been[t] # {} /\ now' = now
    BY <2>1 DEF Promise!Activate, Promise!Expire, Promise!Becomes, PromiseInv, HistorySound,
                Absent, Targets
  <2>3. row'[t].start = row[t].start /\ row'[t].end = row[t].end
    BY <1>1, <2>2 DEF Grows
  <2> QED BY <2>2, <2>3
<1> QED BY <1>3, <1>4

(***************************************************************************)
(* Webhooks, roles and sessions.                                           *)
(***************************************************************************)
\* What is told has been in the table; what is held was activated.
EarnedInv ==
  /\ \A x \in hooks \cup ending : x.status \in been[x.ticket]
  /\ \A r \in roles \cup access : \E t \in TicketsFor(r) : "active" \in been[t]

TicketInv == TypeInv /\ PromiseInv /\ SeenInv /\ NeverEarly
GrantsInv == TicketInv /\ GrantsTypeOK /\ EarnedInv

LEMMA TicketInvInit == Init => TicketInv
<1> SUFFICES ASSUME Init PROVE TicketInv
  OBVIOUS
<1>1. TypeInv /\ PromiseInv
  BY TypeInit, PromiseInvInit
<1>2. SeenInv
  BY SeenIdle DEF Init, SeenInv
<1>3. NeverEarly
  BY DEF Init, NeverEarly
<1> QED BY <1>1, <1>2, <1>3 DEF TicketInv

LEMMA TicketInvStep ==
  ASSUME TicketInv, [Next]_vars PROVE TicketInv' /\ Grows
BY TypeNext, StepGrows, SeenStep, NeverEarlyStep DEF TicketInv

LEMMA GrantsInvInit == GInit => GrantsInv
BY TicketInvInit, GrantsAssumption DEF GInit, GrantsInv, GrantsTypeOK, EarnedInv

\* FireWebhook is called behind the write.
LEMMA ToldIsTrue ==
  ASSUME TicketInv, NEW x \in Hooks, Told(x) PROVE x.status \in been[x.ticket]
<1>1. x.status # Absent
  BY DEF Hooks, Targets, Absent
<1>2. ASSUME NEW h \in Handlers, Respond(h), x = [ticket |-> req[h].ticket, status |-> req[h].seen]
      PROVE  x.status \in been[x.ticket]
  BY <1>1, <1>2 DEF TicketInv, SeenInv, SeenBefore, Respond
<1>3. ASSUME NEW k \in Timers, Notify(k),
             x = [ticket |-> timer[k].ticket, status |-> timer[k].seen]
      PROVE  x.status \in been[x.ticket]
  BY <1>1, <1>3 DEF TicketInv, SeenInv, SeenBefore, Notify
<1> QED BY <1>2, <1>3 DEF Told

LEMMA KnoxStep ==
  ASSUME GrantsInv, Knox(Next) PROVE GrantsInv'
<1>1. TicketInv' /\ Grows
  BY TicketInvStep DEF GrantsInv, Knox
<1>2. New \subseteq Hooks
  BY DEF New
<1>3. \A x \in Hooks : RoleFor(x) \in Roles
  BY GrantsAssumption DEF Hooks, RoleFor
<1>4. {RoleOf[t] : t \in CutOff \cup disturbed'} \subseteq Roles
  <2>1. CutOff \subseteq Tickets
    BY DEF CutOff
  <2>2. disturbed' \subseteq Tickets
    BY <1>1 DEF TicketInv, TypeInv, TypeOK
  <2> QED BY <2>1, <2>2, GrantsAssumption
<1>5. GrantsTypeOK'
  BY <1>2, <1>3, <1>4 DEF GrantsInv, GrantsTypeOK, Knox, Overtaking
<1>6. ASSUME NEW x \in hooks' \cup ending' PROVE x.status \in been'[x.ticket]
  <2>1. x \in Hooks /\ x.ticket \in Tickets
    BY <1>5 DEF GrantsTypeOK, Hooks
  <2>2. x \in New \/ x \in hooks \cup ending
    BY DEF Knox
  <2>3. x.status \in been[x.ticket]
    BY <2>1, <2>2, ToldIsTrue DEF New, GrantsInv, EarnedInv
  <2> QED BY <1>1, <2>1, <2>3 DEF Grows
<1>7. ASSUME NEW r \in roles' \cup access'
      PROVE  \E t \in TicketsFor(r) : "active" \in been'[t]
  BY <1>1, <1>7 DEF Knox, GrantsInv, EarnedInv, Grows, TicketsFor
<1> QED BY <1>1, <1>5, <1>6, <1>7 DEF GrantsInv, EarnedInv

LEMMA WorkflowStep ==
  ASSUME GrantsInv, NEW x \in Hooks, Execute(x) \/ WebhookFails(x) PROVE GrantsInv'
<1>1. /\ UNCHANGED vars
      /\ hooks' \subseteq hooks
      /\ hooks' \cup ending' \subseteq hooks \cup ending
      /\ access' \subseteq access
      /\ roles' \subseteq roles \cup {RoleFor(x)}
      /\ RoleFor(x) \in roles' \ roles => x \in hooks /\ x.status = "active"
  BY DEF Execute, AssignRole, RevokeRole, LogoutUser, WebhookFails
<1>2. RoleFor(x) \in Roles /\ x.ticket \in TicketsFor(RoleFor(x))
  BY GrantsAssumption DEF Hooks, RoleFor, TicketsFor
<1>3. losses' \in 0 .. MaxLosses /\ excused' \subseteq Roles
  BY <1>2, GrantsAssumption
     DEF Execute, AssignRole, RevokeRole, LogoutUser, WebhookFails, GrantsInv, GrantsTypeOK
<1>4. GrantsTypeOK'
  BY <1>1, <1>2, <1>3 DEF GrantsInv, GrantsTypeOK
<1>5. TicketInv'
  BY <1>1, TicketInvStep DEF GrantsInv
<1>6. been' = been
  BY <1>1 DEF vars
<1>7. EarnedInv'
  <2>1. \A y \in hooks' \cup ending' : y.status \in been'[y.ticket]
    BY <1>1, <1>6 DEF GrantsInv, EarnedInv
  <2>2. ASSUME NEW r \in roles' \cup access' PROVE \E t \in TicketsFor(r) : "active" \in been[t]
    <3>1. CASE r \in roles \cup access
      BY <3>1 DEF GrantsInv, EarnedInv
    <3>2. CASE r \notin roles \cup access
      <4>1. r = RoleFor(x) /\ "active" \in been[x.ticket]
        BY <1>1, <3>2 DEF GrantsInv, EarnedInv
      <4> QED BY <1>2, <4>1
    <3> QED BY <3>1, <3>2
  <2> QED BY <1>6, <2>1, <2>2 DEF EarnedInv
<1> QED BY <1>4, <1>5, <1>7 DEF GrantsInv

LEMMA SessionStep ==
  ASSUME GrantsInv, SignOn \/ (\E r \in Roles : SessionEnds(r)) \/ UNCHANGED gvars
  PROVE  GrantsInv'
<1>1. /\ UNCHANGED <<vars, hooks, ending, roles, losses, excused>>
      /\ access' \subseteq access \cup roles
  BY DEF SignOn, SessionEnds, gvars, workflow
<1>2. TicketInv'
  BY <1>1, TicketInvStep DEF GrantsInv
<1>3. been' = been
  BY <1>1 DEF vars
<1>4. GrantsTypeOK' /\ EarnedInv'
  BY <1>1, <1>3 DEF GrantsInv, GrantsTypeOK, EarnedInv
<1> QED BY <1>2, <1>4 DEF GrantsInv

LEMMA GrantsInvNext == GrantsInv /\ [GNext]_gvars => GrantsInv'
BY KnoxStep, WorkflowStep, SessionStep DEF GNext

THEOREM GrantsInvariant == GSpec => []GrantsInv
BY GrantsInvInit, GrantsInvNext, PTL DEF GSpec

\* Webhooks, roles and sessions keep their types.
THEOREM GrantsTypeCorrect == GSpec => []GrantsTypeOK
<1>1. GrantsInv => GrantsTypeOK
  BY DEF GrantsInv
<1> QED BY <1>1, GrantsInvariant, PTL

\* Nobody holds a role, and no session carries one, that an administrator
\* has not approved a ticket for, or before the period of that ticket.
THEOREM AccessEarned == GSpec => []AccessIsEarned
<1>1. GrantsInv => AccessIsEarned
  <2> SUFFICES ASSUME GrantsInv, NEW r \in roles \cup access
               PROVE  \E t \in TicketsFor(r) :
                        {"approved", "active"} \subseteq been[t] /\ now >= row[t].start
    BY DEF AccessIsEarned
  <2>1. PICK t \in TicketsFor(r) : "active" \in been[t]
    BY DEF GrantsInv, EarnedInv
  <2>2. t \in Tickets
    BY DEF TicketsFor
  <2> QED BY <2>1, <2>2 DEF GrantsInv, TicketInv, PromiseInv, HistorySound, NeverEarly
<1> QED BY <1>1, GrantsInvariant, PTL

(***************************************************************************)
(* The composition keeps the lease.                                        *)
(***************************************************************************)
\* TicketPromise as the lease sees it.
LEMMA SamePromise ==
  [Promise!PromiseNext]_(Promise!pvars) => [Lease!PromiseNext]_(Lease!pvars)
BY DEF Promise!PromiseNext, Promise!TimePasses, Promise!Submit, Promise!Decide, Promise!Revoke,
       Promise!Activate, Promise!Expire, Promise!Becomes, Promise!pvars, Promise!Instants,
       Promise!PeriodAccepted, Promise!Absent, Promise!ZeroTime,
       Lease!PromiseNext, Lease!TimePasses, Lease!Submit, Lease!Decide, Lease!Revoke,
       Lease!Activate, Lease!Expire, Lease!Becomes, Lease!pvars, Lease!Instants,
       Lease!PeriodAccepted, Lease!Absent, Lease!ZeroTime

\* A ticket the workflow hears of justifies what it does.
LEMMA HeardIsJustified ==
  ASSUME GrantsInv, NEW x \in hooks
  PROVE  /\ RoleFor(x) \in Roles
         /\ x.status = "active" => \E t \in Lease!For(RoleFor(x)) :
              {"approved", "active"} \subseteq been[t] /\ now >= row[t].start
         /\ x.status = "expired" => \E t \in Lease!For(RoleFor(x)) :
              "expired" \in been[t] /\ now >= row[t].end
<1>1. x \in Hooks /\ x.ticket \in Tickets /\ x.status \in been[x.ticket]
  BY DEF GrantsInv, GrantsTypeOK, EarnedInv, Hooks
<1>2. x.ticket \in Lease!For(RoleFor(x)) /\ RoleFor(x) \in Roles
  BY <1>1, GrantsAssumption DEF Lease!For, RoleFor
<1> QED BY <1>1, <1>2 DEF GrantsInv, TicketInv, NeverEarly, PromiseInv, HistorySound

LEMMA LeaseStep ==
  ASSUME GrantsInv, [GNext]_gvars PROVE [Lease!LeaseNext]_(Lease!lvars)
<1> DEFINE Same == UNCHANGED Lease!pvars
<1>1. UNCHANGED vars => Same
  BY DEF vars, Lease!pvars
<1>2. CASE Knox(Next)
  <2>1. roles' = roles /\ access' = access
    BY <1>2 DEF Knox
  <2>2. [Lease!PromiseNext]_(Lease!pvars)
    BY <1>2, PromiseStep, TicketInvStep, SamePromise DEF Knox, GrantsInv, TicketInv
  <2> QED BY <2>1, <2>2 DEF Lease!LeaseNext, Lease!lvars
<1>3. ASSUME NEW x \in Hooks, Execute(x) \/ WebhookFails(x)
      PROVE  [Lease!LeaseNext]_(Lease!lvars)
  <2>1. CASE AssignRole(x)
    <3>1. Lease!Give(RoleFor(x)) /\ RoleFor(x) \in Roles
      BY <1>1, <2>1, HeardIsJustified DEF AssignRole, Lease!Give
    <3> QED BY <3>1 DEF Lease!LeaseNext
  <2>2. CASE RevokeRole(x)
    <3>1. Lease!Take(RoleFor(x)) /\ RoleFor(x) \in Roles
      BY <1>1, <2>2, HeardIsJustified DEF RevokeRole, Lease!Take
    <3> QED BY <3>1 DEF Lease!LeaseNext
  <2>3. CASE LogoutUser(x)
    BY <1>1, <2>3 DEF LogoutUser, Lease!LeaseNext, Lease!Leave
  <2>4. CASE WebhookFails(x)
    BY <1>1, <2>4 DEF WebhookFails, Lease!lvars
  <2> QED BY <1>3, <2>1, <2>2, <2>3, <2>4 DEF Execute
<1>4. CASE SignOn
  BY <1>1, <1>4 DEF SignOn, Lease!LeaseNext, Lease!Enter
<1>5. ASSUME NEW r \in Roles, SessionEnds(r) PROVE [Lease!LeaseNext]_(Lease!lvars)
  <2>1. access' \in SUBSET access /\ roles' = roles /\ Same
    BY <1>1, <1>5 DEF SessionEnds
  <2> QED BY <2>1 DEF Lease!LeaseNext, Lease!Leave
<1>6. CASE UNCHANGED gvars
  BY <1>1, <1>6 DEF gvars, workflow, Lease!lvars
<1> QED BY <1>2, <1>3, <1>4, <1>5, <1>6 DEF GNext

\* Roles are given and taken away only as the tickets justify: nobody loses a
\* role before the period of a ticket for it is over.
THEOREM LeaseKept == GSpec => KeepsLease
<1>1. GInit => Lease!LeaseInit
  BY DEF GInit, Init, Lease!LeaseInit, Lease!PromiseInit, Absent, ZeroTime, Lease!Absent,
         Lease!ZeroTime
<1>2. GrantsInv /\ [GNext]_gvars => [Lease!LeaseNext]_(Lease!lvars)
  BY LeaseStep
<1> QED BY <1>1, <1>2, GrantsInvariant, PTL DEF GSpec, KeepsLease, Lease!LeaseSpec
================================================================================
