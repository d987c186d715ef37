--------------------------- MODULE JITTicketsProofs ----------------------------
(***************************************************************************)
(* Theorems about JITTickets: type correctness, and that the subsystem     *)
(* keeps the abstract promise of TicketPromise.                            *)
(***************************************************************************)
EXTENDS JITTickets, TLAPS

(***************************************************************************)
(* Type correctness.  TypeOK alone is not inductive: an operation adds its *)
(* ticket to disturbed, so a slot in use must hold a ticket.               *)
(***************************************************************************)
Assigned ==
  /\ \A h \in Handlers : req[h].pc # "idle" => req[h].ticket \in Tickets
  /\ \A k \in Timers : timer[k].pc # "idle" => timer[k].ticket \in Tickets

TypeInv == TypeOK /\ Assigned

LEMMA IdleRecords == IdleReq \in ReqRec /\ IdleTimer \in TimerRec
BY DEF IdleReq, ReqRec, ReqPCs, Ops, IdleTimer, TimerRec, TimerPCs, Targets

LEMMA NewTimerType ==
  ASSUME NEW t \in Tickets, NEW target \in Targets
  PROVE  NewTimer(t, target) \in TimerRec
BY DEF NewTimer, TimerRec, TimerPCs, Targets

LEMMA TargetType == ASSUME NEW s PROVE TargetOf(s) \in Targets
BY DEF TargetOf, Targets

\* Stopping a timer keeps the table well typed, makes one slot idle at most
\* and touches no goroutine.
LEMMA StoppedType ==
  ASSUME TypeInv, NEW t \in Tickets
  PROVE  /\ Stopped(t) \in [Timers -> TimerRec]
         /\ \A k \in Timers : \/ Stopped(t)[k] = timer[k]
                              \/ Stopped(t)[k] = IdleTimer /\ timer[k].pc = "armed"
<1>1. timer \in [Timers -> TimerRec] /\ timers[t] \in Timers \cup {NoTimer}
  BY DEF TypeInv, TypeOK
<1>2. CASE timers[t] # NoTimer /\ timer[timers[t]].pc = "armed"
  <2>1. Stopped(t) = [timer EXCEPT ![timers[t]] = IdleTimer]
    BY <1>2 DEF Stopped
  <2> QED BY <1>1, <1>2, <2>1, IdleRecords
<1>3. CASE ~(timers[t] # NoTimer /\ timer[timers[t]].pc = "armed")
  <2>1. Stopped(t) = timer
    BY <1>3 DEF Stopped
  <2> QED BY <1>1, <2>1
<1> QED BY <1>2, <1>3

\* A new timer goes into an idle slot of a well-typed table.
LEMMA ArmInType ==
  ASSUME TypeInv, NEW objects \in [Timers -> TimerRec],
         NEW t \in Tickets, NEW target \in Targets,
         ArmIn(objects, t, target)
  PROVE  /\ timer' \in [Timers -> TimerRec]
         /\ timers' \in [Tickets -> Timers \cup {NoTimer}]
         /\ \A k \in Timers : timer'[k] = objects[k] \/ timer'[k] = NewTimer(t, target)
BY NewTimerType DEF ArmIn, TypeInv, TypeOK

LEMMA TypeInit == Init => TypeInv
<1> SUFFICES ASSUME Init PROVE TypeInv
  OBVIOUS
<1> USE TimeAssumption, JITAssumption DEF Init
<1>1. now \in Instants
  BY DEF Instants, ZeroTime
<1>2. row \in [Tickets -> Row]
  BY DEF Row, Instants, ZeroTime
<1>3. /\ timer \in [Timers -> TimerRec]
      /\ req \in [Handlers -> ReqRec]
  BY IdleRecords
<1>4. Assigned
  BY DEF Assigned, IdleReq, IdleTimer
<1> QED BY <1>1, <1>2, <1>3, <1>4 DEF TypeInv, TypeOK

(***************************************************************************)
(* What the few ways of updating a slot or a row do.                       *)
(***************************************************************************)
LEMMA PutReq ==
  ASSUME req \in [Handlers -> ReqRec], NEW h \in Handlers, NEW r \in ReqRec,
         req' = [req EXCEPT ![h] = r]
  PROVE  /\ req' \in [Handlers -> ReqRec]
         /\ req'[h] = r
         /\ \A g \in Handlers \ {h} : req'[g] = req[g]
OBVIOUS

LEMMA GotoReq ==
  ASSUME req \in [Handlers -> ReqRec], NEW h \in Handlers, NEW pc \in ReqPCs, Goto(h, pc)
  PROVE  /\ req' \in [Handlers -> ReqRec]
         /\ req'[h].pc = pc
         /\ req'[h].ticket = req[h].ticket
         /\ req'[h].op = req[h].op
         /\ req'[h].seen = req[h].seen
         /\ \A g \in Handlers \ {h} : req'[g] = req[g]
BY DEF Goto, ReqRec

LEMMA DoneReq ==
  ASSUME req \in [Handlers -> ReqRec], NEW h \in Handlers, Done(h)
  PROVE  /\ req' \in [Handlers -> ReqRec]
         /\ req'[h].pc = "idle"
         /\ \A g \in Handlers \ {h} : req'[g] = req[g]
BY IdleRecords DEF Done, IdleReq

LEMMA PutTimer ==
  ASSUME timer \in [Timers -> TimerRec], NEW k \in Timers, NEW r \in TimerRec,
         timer' = [timer EXCEPT ![k] = r]
  PROVE  /\ timer' \in [Timers -> TimerRec]
         /\ timer'[k] = r
         /\ \A j \in Timers \ {k} : timer'[j] = timer[j]
OBVIOUS

LEMMA StepTimer ==
  ASSUME timer \in [Timers -> TimerRec], NEW k \in Timers, NEW pc \in TimerPCs, Step(k, pc)
  PROVE  /\ timer' \in [Timers -> TimerRec]
         /\ timer'[k].pc = pc
         /\ timer'[k].ticket = timer[k].ticket
         /\ timer'[k].target = timer[k].target
         /\ timer'[k].seen = timer[k].seen
         /\ \A j \in Timers \ {k} : timer'[j] = timer[j]
BY DEF Step, TimerRec

LEMMA EndTimer ==
  ASSUME timer \in [Timers -> TimerRec], NEW k \in Timers, End(k)
  PROVE  /\ timer' \in [Timers -> TimerRec]
         /\ timer'[k].pc = "idle"
         /\ \A j \in Timers \ {k} : timer'[j] = timer[j]
BY IdleRecords DEF End, IdleTimer

LEMMA BecomesRow ==
  ASSUME TypeOK, NEW t \in Tickets, NEW s \in Statuses, Becomes(t, s)
  PROVE  /\ row' \in [Tickets -> Row]
         /\ been' \in [Tickets -> SUBSET Statuses]
         /\ row'[t].status = s /\ row'[t].start = row[t].start /\ row'[t].end = row[t].end
         /\ been'[t] = been[t] \cup {s}
         /\ \A u \in Tickets \ {t} : row'[u] = row[u] /\ been'[u] = been[u]
<1> USE DEF TypeOK, Becomes
<1>1. row[t] \in Row
  OBVIOUS
<1>2. [row[t] EXCEPT !.status = s] \in Row
  BY <1>1 DEF Row
<1>3. row' = [row EXCEPT ![t] = [row[t] EXCEPT !.status = s]]
  OBVIOUS
<1>4. /\ row' \in [Tickets -> Row]
      /\ row'[t] = [row[t] EXCEPT !.status = s]
      /\ \A u \in Tickets \ {t} : row'[u] = row[u]
  BY <1>2, <1>3
<1>5. row'[t].status = s /\ row'[t].start = row[t].start /\ row'[t].end = row[t].end
  BY <1>1, <1>4 DEF Row
<1>6. /\ been' \in [Tickets -> SUBSET Statuses]
      /\ been'[t] = been[t] \cup {s}
      /\ \A u \in Tickets \ {t} : been'[u] = been[u]
  OBVIOUS
<1> QED BY <1>4, <1>5, <1>6

LEMMA InsertRow ==
  ASSUME TypeOK, NEW t \in Tickets, NEW p \in Requested, Insert(t, p)
  PROVE  /\ row' \in [Tickets -> Row]
         /\ been' \in [Tickets -> SUBSET Statuses]
         /\ row'[t] = [status |-> "requested", start |-> p.start, end |-> p.end]
         /\ been'[t] = {"requested"}
         /\ \A u \in Tickets \ {t} : row'[u] = row[u] /\ been'[u] = been[u]
<1>1. p.start \in Instants /\ p.end \in Instants
  BY JITAssumption
<1>2. [status |-> "requested", start |-> p.start, end |-> p.end] \in Row
  BY <1>1 DEF Row, Statuses
<1>3. {"requested"} \in SUBSET Statuses
  BY DEF Statuses
<1> QED BY <1>2, <1>3 DEF Insert, TypeOK

\* The bound and the disturbed tickets after a failing statement.
LEMMA DBErrorType ==
  ASSUME TypeOK, NEW t \in Tickets, NEW lasting \in BOOLEAN, DBError(t, lasting)
  PROVE  dbErrors' \in 0 .. MaxDBErrors /\ disturbed' \in SUBSET Tickets
BY JITAssumption DEF DBError, TypeOK

LEMMA StatusType ==
  ASSUME TypeOK, NEW t \in Tickets PROVE row[t].status \in Statuses \cup {Absent}
BY DEF TypeOK, Row

(***************************************************************************)
(* Every step keeps the types.                                             *)
(***************************************************************************)
LEMMA TypeHandler ==
  ASSUME TypeInv, NEW h \in Handlers, Arrive(h) \/ Proceed(h)
  PROVE  TypeInv'
<1> USE DEF TypeInv
<1>0. /\ req \in [Handlers -> ReqRec]
      /\ \A g \in Handlers : req[g].pc # "idle" => req[g].ticket \in Tickets
  BY DEF TypeOK, Assigned
<1>1. ASSUME NEW t \in Tickets, NEW p \in Requested, CreateTicket(h, t, p)
      PROVE  TypeInv'
  <2> DEFINE r == [pc |-> "stop", ticket |-> t, op |-> "requested", seen |-> "requested"]
  <2>1. r \in ReqRec
    BY DEF ReqRec, ReqPCs, Ops, Statuses
  <2>2. req' \in [Handlers -> ReqRec] /\ req'[h] = r /\ \A g \in Handlers \ {h} : req'[g] = req[g]
    <3>1. req' = [req EXCEPT ![h] = r]
      BY <1>1 DEF CreateTicket
    <3> HIDE DEF r
    <3> QED BY <1>0, <2>1, <3>1, PutReq
  <2>3. row' \in [Tickets -> Row] /\ been' \in [Tickets -> SUBSET Statuses]
    BY <1>1, InsertRow DEF CreateTicket
  <2> QED BY <1>1, <2>2, <2>3 DEF CreateTicket, TypeOK, Assigned
<1>2. ASSUME NEW t \in Tickets, NEW p \in Requested, CreateTicketFails(h, t, p)
      PROVE  TypeInv'
  BY <1>2, InsertRow, DBErrorType DEF CreateTicketFails, TypeOK, Assigned
<1>3. ASSUME NEW t \in Tickets, CancelTicket(h, t)
      PROVE  TypeInv'
  <2> DEFINE r == [pc |-> "read", ticket |-> t, op |-> "canceled", seen |-> Absent]
  <2>1. r \in ReqRec
    BY DEF ReqRec, ReqPCs, Ops
  <2>2. req' \in [Handlers -> ReqRec] /\ req'[h] = r /\ \A g \in Handlers \ {h} : req'[g] = req[g]
    <3>1. req' = [req EXCEPT ![h] = r]
      BY <1>3 DEF CancelTicket
    <3> HIDE DEF r
    <3> QED BY <1>0, <2>1, <3>1, PutReq
  <2> QED BY <1>3, <2>2 DEF CancelTicket, Begin, TypeOK, Assigned
<1>4. ASSUME NEW t \in Tickets, NEW s \in {"approved", "rejected", "revoked"},
             AdminUpdateStatus(h, t, s)
      PROVE  TypeInv'
  <2> DEFINE r == [pc |-> "write", ticket |-> t, op |-> s, seen |-> Absent]
  <2>1. r \in ReqRec
    BY DEF ReqRec, ReqPCs, Ops
  <2>2. req' \in [Handlers -> ReqRec] /\ req'[h] = r /\ \A g \in Handlers \ {h} : req'[g] = req[g]
    <3>1. req' = [req EXCEPT ![h] = r]
      BY <1>4 DEF AdminUpdateStatus
    <3> HIDE DEF r
    <3> QED BY <1>0, <2>1, <3>1, PutReq
  <2> QED BY <1>4, <2>2 DEF AdminUpdateStatus, Begin, TypeOK, Assigned
<1>5. CASE ReadStatus(h)
  <2>1. "write" \in ReqPCs
    BY DEF ReqPCs
  <2>2. /\ req' \in [Handlers -> ReqRec]
        /\ req'[h].pc = "idle" \/ req'[h].ticket = req[h].ticket
        /\ \A g \in Handlers \ {h} : req'[g] = req[g]
    BY <1>0, <1>5, <2>1, GotoReq, DoneReq DEF ReadStatus
  <2> QED BY <1>0, <1>5, <2>2 DEF ReadStatus, TypeOK, Assigned
<1>6. CASE ReadStatusFails(h)
  BY <1>0, <1>6, DoneReq, DBErrorType DEF ReadStatusFails, TypeOK, Assigned
<1>7. CASE WriteStatus(h)
  <2>1. "reread" \in ReqPCs /\ req[h].op \in Statuses
    BY <1>0 DEF ReqPCs, ReqRec, Ops, Statuses
  <2>2. row' \in [Tickets -> Row] /\ been' \in [Tickets -> SUBSET Statuses]
    BY <1>0, <1>7, <2>1, BecomesRow DEF WriteStatus
  <2> QED BY <1>0, <1>7, <2>1, <2>2, GotoReq DEF WriteStatus, TypeOK, Assigned
<1>8. CASE WriteStatusFails(h)
  <2>1. req[h].op \in Statuses /\ req[h].ticket \in Tickets
    BY <1>0, <1>8 DEF WriteStatusFails, ReqRec, Ops, Statuses
  <2>2. row' \in [Tickets -> Row] /\ been' \in [Tickets -> SUBSET Statuses]
    BY <1>8, <2>1, BecomesRow DEF WriteStatusFails, store, TypeOK
  <2>3. dbErrors' \in 0 .. MaxDBErrors /\ disturbed' \in SUBSET Tickets
    BY <1>8, <2>1, DBErrorType DEF WriteStatusFails
  <2>4. req' \in [Handlers -> ReqRec] /\ req'[h].pc = "idle"
        /\ \A g \in Handlers \ {h} : req'[g] = req[g]
    BY <1>0, <1>8, DoneReq DEF WriteStatusFails
  <2> QED BY <1>0, <1>8, <2>2, <2>3, <2>4 DEF WriteStatusFails, TypeOK, Assigned
<1>9. CASE Reread(h)
  <2> DEFINE r == [req[h] EXCEPT !.seen = row[req[h].ticket].status,
                                 !.pc = IF req[h].op = "approved" THEN "stop" ELSE "cancel"]
  <2>1. r \in ReqRec /\ r.ticket = req[h].ticket
    <3>1. row[req[h].ticket].status \in Statuses \cup {Absent}
      BY <1>0, <1>9, StatusType DEF Reread
    <3> QED BY <1>0, <3>1 DEF ReqRec, ReqPCs
  <2>2. req' \in [Handlers -> ReqRec] /\ req'[h] = r /\ \A g \in Handlers \ {h} : req'[g] = req[g]
    <3>1. req' = [req EXCEPT ![h] = r]
      BY <1>9 DEF Reread
    <3> HIDE DEF r
    <3> QED BY <1>0, <2>1, <3>1, PutReq
  <2>3. req[h].ticket \in Tickets
    BY <1>0, <1>9 DEF Reread
  <2> HIDE DEF r
  <2> QED BY <1>0, <1>9, <2>1, <2>2, <2>3 DEF Reread, TypeOK, Assigned
<1>10. CASE RereadFails(h)
  BY <1>0, <1>10, DoneReq, DBErrorType DEF RereadFails, TypeOK, Assigned
<1>11. CASE ScheduleStop(h) \/ CancelTimer(h)
  <2>1. req[h].ticket \in Tickets
    BY <1>0, <1>11 DEF ScheduleStop, CancelTimer
  <2>2. /\ timer' \in [Timers -> TimerRec]
        /\ \A k \in Timers : timer'[k] = timer[k] \/ timer'[k] = IdleTimer
    BY <1>11, <2>1, StoppedType DEF ScheduleStop, CancelTimer
  <2>3. timers' \in [Tickets -> Timers \cup {NoTimer}]
    BY <1>11 DEF ScheduleStop, CancelTimer, Unmapped, TypeOK
  <2>4. /\ req' \in [Handlers -> ReqRec]
        /\ req'[h].ticket = req[h].ticket
        /\ \A g \in Handlers \ {h} : req'[g] = req[g]
    <3>1. {"arm", "respond"} \subseteq ReqPCs
      BY DEF ReqPCs
    <3> QED BY <1>0, <1>11, <3>1, GotoReq DEF ScheduleStop, CancelTimer
  <2>5. Assigned'
    BY <1>0, <2>1, <2>2, <2>4 DEF Assigned, IdleTimer
  <2> QED BY <1>11, <2>2, <2>3, <2>4, <2>5 DEF ScheduleStop, CancelTimer, TypeOK
<1>12. CASE ScheduleArm(h)
  <2>1. req[h].ticket \in Tickets /\ timer \in [Timers -> TimerRec]
    BY <1>0, <1>12 DEF ScheduleArm, TypeOK
  <2>2. /\ timer' \in [Timers -> TimerRec]
        /\ timers' \in [Tickets -> Timers \cup {NoTimer}]
        /\ \A k \in Timers : \/ timer'[k] = timer[k]
                             \/ timer'[k] = NewTimer(req[h].ticket, TargetOf(req[h].seen))
    BY <1>12, <2>1, ArmInType, TargetType DEF ScheduleArm
  <2>3. /\ req' \in [Handlers -> ReqRec]
        /\ req'[h].ticket = req[h].ticket
        /\ \A g \in Handlers \ {h} : req'[g] = req[g]
    <3>1. "respond" \in ReqPCs
      BY DEF ReqPCs
    <3> QED BY <1>0, <1>12, <3>1, GotoReq DEF ScheduleArm
  <2>4. Assigned'
    BY <1>0, <2>1, <2>2, <2>3 DEF Assigned, NewTimer
  <2> QED BY <1>12, <2>2, <2>3, <2>4 DEF ScheduleArm, TypeOK
<1>13. CASE Respond(h)
  BY <1>0, <1>13, DoneReq DEF Respond, TypeOK, Assigned
<1> QED BY <1>1, <1>2, <1>3, <1>4, <1>5, <1>6, <1>7, <1>8, <1>9, <1>10, <1>11, <1>12, <1>13
        DEF Arrive, Proceed

LEMMA TypeTimer ==
  ASSUME TypeInv, NEW k \in Timers, Elapse(k)
  PROVE  TypeInv'
<1> USE DEF TypeInv
<1>0. /\ timer \in [Timers -> TimerRec]
      /\ \A j \in Timers : timer[j].pc # "idle" => timer[j].ticket \in Tickets
      /\ timer[k].target \in Statuses
  BY DEF TypeOK, Assigned, TimerRec, Targets, Statuses
<1>1. {"fired", "update", "reread", "notify", "stop"} \subseteq TimerPCs
  BY DEF TimerPCs
<1>2. CASE Fire(k)
  BY <1>0, <1>1, <1>2, StepTimer DEF Fire, Begin, TypeOK, Assigned
<1>3. CASE ForgetTimer(k)
  <2>1. timers' \in [Tickets -> Timers \cup {NoTimer}]
    BY <1>3 DEF ForgetTimer, Unmapped, TypeOK
  <2> QED BY <1>0, <1>1, <1>3, <2>1, StepTimer DEF ForgetTimer, TypeOK, Assigned
<1>4. CASE SystemUpdate(k)
  <2>1. row' \in [Tickets -> Row] /\ been' \in [Tickets -> SUBSET Statuses]
    BY <1>0, <1>4, BecomesRow DEF SystemUpdate, store, TypeOK
  <2>2. /\ timer' \in [Timers -> TimerRec]
        /\ timer'[k].pc = "idle" \/ timer'[k].ticket = timer[k].ticket
        /\ \A j \in Timers \ {k} : timer'[j] = timer[j]
    BY <1>0, <1>1, <1>4, StepTimer, EndTimer DEF SystemUpdate
  <2> QED BY <1>0, <1>4, <2>1, <2>2 DEF SystemUpdate, TypeOK, Assigned
<1>5. CASE SystemUpdateFails(k)
  <2>1. timer[k].ticket \in Tickets
    BY <1>0, <1>5 DEF SystemUpdateFails
  <2>2. row' \in [Tickets -> Row] /\ been' \in [Tickets -> SUBSET Statuses]
    BY <1>0, <1>5, <2>1, BecomesRow DEF SystemUpdateFails, store, TypeOK
  <2>3. dbErrors' \in 0 .. MaxDBErrors /\ disturbed' \in SUBSET Tickets
    BY <1>5, <2>1, DBErrorType DEF SystemUpdateFails
  <2>4. timer' \in [Timers -> TimerRec] /\ timer'[k].pc = "idle"
        /\ \A j \in Timers \ {k} : timer'[j] = timer[j]
    BY <1>0, <1>5, EndTimer DEF SystemUpdateFails
  <2> QED BY <1>0, <1>5, <2>2, <2>3, <2>4 DEF SystemUpdateFails, TypeOK, Assigned
<1>6. CASE SystemReread(k)
  <2> DEFINE r == [timer[k] EXCEPT !.seen = row[timer[k].ticket].status, !.pc = "notify"]
  <2>1. r \in TimerRec /\ r.ticket = timer[k].ticket
    <3>1. row[timer[k].ticket].status \in Statuses \cup {Absent}
      BY <1>0, <1>6, StatusType DEF SystemReread
    <3> QED BY <1>0, <1>1, <3>1 DEF TimerRec
  <2>2. timer' \in [Timers -> TimerRec] /\ timer'[k] = r /\ \A j \in Timers \ {k} : timer'[j] = timer[j]
    <3>1. timer' = [timer EXCEPT ![k] = r]
      BY <1>6 DEF SystemReread
    <3> HIDE DEF r
    <3> QED BY <1>0, <2>1, <3>1, PutTimer
  <2>3. timer[k].ticket \in Tickets
    BY <1>0, <1>6 DEF SystemReread
  <2> HIDE DEF r
  <2> QED BY <1>0, <1>6, <2>1, <2>2, <2>3 DEF SystemReread, TypeOK, Assigned
<1>7. CASE SystemRereadFails(k)
  BY <1>0, <1>7, EndTimer, DBErrorType DEF SystemRereadFails, TypeOK, Assigned
<1>8. CASE Notify(k)
  BY <1>0, <1>1, <1>8, StepTimer, EndTimer DEF Notify, TypeOK, Assigned
<1>9. CASE RescheduleStop(k)
  <2> DEFINE r == IF NeedsTimer(timer[k].seen)
                    THEN [Stopped(timer[k].ticket)[k] EXCEPT !.pc = "arm"] ELSE IdleTimer
  <2>1. /\ Stopped(timer[k].ticket) \in [Timers -> TimerRec]
        /\ Stopped(timer[k].ticket)[k] = timer[k]
        /\ \A j \in Timers : \/ Stopped(timer[k].ticket)[j] = timer[j]
                             \/ Stopped(timer[k].ticket)[j] = IdleTimer
    BY <1>0, <1>9, StoppedType DEF RescheduleStop
  <2>2. r \in TimerRec /\ (r.pc = "idle" \/ r.ticket = timer[k].ticket)
    BY <1>0, <2>1, IdleRecords DEF TimerRec, TimerPCs, IdleTimer
  <2>3. timer' = [Stopped(timer[k].ticket) EXCEPT ![k] = r]
    BY <1>9 DEF RescheduleStop
  <2>4. timers' \in [Tickets -> Timers \cup {NoTimer}]
    BY <1>9 DEF RescheduleStop, Unmapped, TypeOK
  <2>5. timer[k].ticket \in Tickets
    BY <1>0, <1>9 DEF RescheduleStop
  <2> HIDE DEF r
  <2>6. timer' \in [Timers -> TimerRec] /\ timer'[k] = r
        /\ \A j \in Timers \ {k} : timer'[j] = timer[j] \/ timer'[j] = IdleTimer
    BY <2>1, <2>2, <2>3
  <2>7. Assigned'
    <3>1. ASSUME NEW j \in Timers, timer'[j].pc # "idle"
          PROVE  timer'[j].ticket \in Tickets
      <4>1. CASE j = k
        BY <2>2, <2>5, <2>6, <3>1, <4>1
      <4>2. CASE j # k
        <5>1. timer'[j] = timer[j]
          BY <2>6, <3>1, <4>2 DEF IdleTimer
        <5> QED BY <1>0, <3>1, <5>1
      <4> QED BY <4>1, <4>2
    <3>2. req' = req
      BY <1>9 DEF RescheduleStop
    <3> QED BY <3>1, <3>2 DEF Assigned
  <2> QED BY <1>9, <2>4, <2>6, <2>7 DEF RescheduleStop, TypeOK
<1>10. CASE RescheduleArm(k)
  <2> DEFINE objects == [timer EXCEPT ![k] = IdleTimer]
  <2>1. objects \in [Timers -> TimerRec]
        /\ \A j \in Timers : objects[j] = timer[j] \/ objects[j] = IdleTimer
    BY <1>0, IdleRecords
  <2>2. timer[k].ticket \in Tickets /\ ArmIn(objects, timer[k].ticket, TargetOf(timer[k].seen))
    BY <1>0, <1>10 DEF RescheduleArm
  <2> HIDE DEF objects
  <2>3. /\ timer' \in [Timers -> TimerRec]
        /\ timers' \in [Tickets -> Timers \cup {NoTimer}]
        /\ \A j \in Timers : \/ timer'[j] = objects[j]
                             \/ timer'[j] = NewTimer(timer[k].ticket, TargetOf(timer[k].seen))
    BY <2>1, <2>2, ArmInType, TargetType
  <2>4. Assigned'
    BY <1>0, <1>10, <2>1, <2>2, <2>3 DEF RescheduleArm, Assigned, IdleTimer, NewTimer
  <2> QED BY <1>10, <2>3, <2>4 DEF RescheduleArm, TypeOK
<1> QED BY <1>2, <1>3, <1>4, <1>5, <1>6, <1>7, <1>8, <1>9, <1>10 DEF Elapse

\* What Restart builds: timers of pending tickets, and idle ones.
LEMMA RestartTimers ==
  ASSUME TypeInv, Restart, NEW k \in Timers
  PROVE  \/ timer'[k] = IdleTimer
         \/ \E t \in PendingTickets : timer'[k] = NewTimer(t, TargetOf(row[t].status))
<1>1. PICK slot \in [PendingTickets -> Timers] :
        timer' = [j \in Timers |->
                    IF \E t \in PendingTickets : slot[t] = j
                      THEN LET t == CHOOSE u \in PendingTickets : slot[u] = j
                           IN NewTimer(t, TargetOf(row[t].status))
                      ELSE IdleTimer]
  BY DEF Restart
<1>2. CASE \E t \in PendingTickets : slot[t] = k
  <2> DEFINE u == CHOOSE u \in PendingTickets : slot[u] = k
  <2>1. u \in PendingTickets
    BY <1>2
  <2>2. timer'[k] = NewTimer(u, TargetOf(row[u].status))
    BY <1>1, <1>2
  <2> QED BY <2>1, <2>2
<1>3. CASE ~\E t \in PendingTickets : slot[t] = k
  BY <1>1, <1>3
<1> QED BY <1>2, <1>3

LEMMA TypeSystem ==
  ASSUME TypeInv, Tick \/ Crash \/ Restart \/ RestartUnscheduled
  PROVE  TypeInv'
<1> USE DEF TypeInv
<1>1. CASE Tick
  BY <1>1, TimeAssumption DEF Tick, Instants, ZeroTime, TypeOK, Assigned
<1>2. CASE Crash
  <2>1. timer' \in [Timers -> TimerRec] /\ req' \in [Handlers -> ReqRec]
    BY <1>2, IdleRecords DEF Crash
  <2>2. timers' \in [Tickets -> Timers \cup {NoTimer}] /\ crashes' \in 0 .. MaxCrashes
    BY <1>2, JITAssumption DEF Crash, TypeOK
  <2>3. Assigned'
    BY <1>2 DEF Crash, Assigned, IdleReq, IdleTimer
  <2> QED BY <1>2, <2>1, <2>2, <2>3 DEF Crash, TypeOK
<1>3. CASE Restart
  <2>1. /\ timers' \in [Tickets -> Timers \cup {NoTimer}]
        /\ DOMAIN timer' = Timers /\ timer' = [k \in Timers |-> timer'[k]]
    BY <1>3 DEF Restart, TypeOK
  <2>2. ASSUME NEW k \in Timers
        PROVE  timer'[k] \in TimerRec /\ (timer'[k].pc # "idle" => timer'[k].ticket \in Tickets)
    <3>1. CASE timer'[k] = IdleTimer
      BY <3>1, IdleRecords DEF IdleTimer
    <3>2. ASSUME NEW t \in PendingTickets, timer'[k] = NewTimer(t, TargetOf(row[t].status))
          PROVE  timer'[k] \in TimerRec /\ timer'[k].ticket \in Tickets
      BY <3>2, NewTimerType, TargetType DEF PendingTickets, NewTimer
    <3> QED BY <1>3, <3>1, <3>2, RestartTimers
  <2>3. timer' \in [Timers -> TimerRec]
    BY <2>1, <2>2
  <2> QED BY <1>3, <2>1, <2>2, <2>3 DEF Restart, TypeOK, Assigned
<1>4. CASE RestartUnscheduled
  BY <1>4, JITAssumption DEF RestartUnscheduled, PendingTickets, TypeOK, Assigned
<1> QED BY <1>1, <1>2, <1>3, <1>4

LEMMA TypeNext == TypeInv /\ [Next]_vars => TypeInv'
<1> SUFFICES ASSUME TypeInv, [Next]_vars PROVE TypeInv'
  OBVIOUS
<1>1. CASE UNCHANGED vars
  BY <1>1 DEF vars, TypeInv, TypeOK, Assigned
<1>2. CASE Next
  BY <1>2, TypeHandler, TypeTimer, TypeSystem DEF Next
<1> QED BY <1>1, <1>2

\* The table, the scheduler's map, the timers and the handlers keep their
\* types in every behaviour.
THEOREM TypeCorrect == Spec => []TypeOK
<1>1. Spec => []TypeInv
  BY TypeInit, TypeNext, PTL DEF Spec
<1>2. TypeInv => TypeOK
  BY DEF TypeInv
<1> QED BY <1>1, <1>2, PTL

(***************************************************************************)
(* The promise.  That an activation is never early and never unapproved is *)
(* not visible in the table alone: a goroutine decides on what it or its   *)
(* Schedule read some steps ago.  The invariant therefore says what every  *)
(* slot in use may rely on, now and for good, because the history only     *)
(* grows, the clock only advances and a period never changes.              *)
(***************************************************************************)
HistorySound(table, hist) ==
  \A t \in Tickets :
    /\ table[t].status = Absent => hist[t] = {}
    /\ table[t].status # Absent => {"requested", table[t].status} \subseteq hist[t]
    /\ "active" \in hist[t] => "approved" \in hist[t]

\* A request that will write a status may do so; one that has read
\* "approved" has read a ticket that was approved.
ReqJustified(r, hist) ==
  r.pc # "idle" =>
    /\ "requested" \in hist[r.ticket]
    /\ r.op = "revoked" => "approved" \in hist[r.ticket]
    /\ r.seen = "approved" => "approved" \in hist[r.ticket]
    /\ r.pc \in {"read", "write", "reread"} => r.op # "requested"

TimerJustified(r, table, hist, time) ==
  r.pc # "idle" =>
    /\ "requested" \in hist[r.ticket]
    /\ r.target = "active" => "approved" \in hist[r.ticket]
    /\ r.seen = "approved" => "approved" \in hist[r.ticket]
    /\ r.pc # "armed" =>
         time >= IF r.target = "active" THEN table[r.ticket].start ELSE table[r.ticket].end

PromiseInv ==
  /\ HistorySound(row, been)
  /\ \A h \in Handlers : ReqJustified(req[h], been)
  /\ \A k \in Timers : TimerJustified(timer[k], row, been, now)

\* What every step does to the table as a whole.
Grows ==
  /\ now' >= now
  /\ \A t \in Tickets : been[t] \subseteq been'[t]
  /\ \A t \in Tickets : been[t] # {} =>
       row'[t].start = row[t].start /\ row'[t].end = row[t].end

LEMMA IdleJustified ==
  ReqJustified(IdleReq, been) /\ TimerJustified(IdleTimer, row, been, now)
BY DEF ReqJustified, TimerJustified, IdleReq, IdleTimer

\* A justification outlives every step.
LEMMA ReqStaysJustified ==
  ASSUME Grows, NEW r \in ReqRec, r.pc # "idle" => r.ticket \in Tickets,
         ReqJustified(r, been)
  PROVE  ReqJustified(r, been')
BY DEF Grows, ReqJustified

LEMMA TimerStaysJustified ==
  ASSUME TypeInv, TypeInv', Grows, NEW r \in TimerRec, r.pc # "idle" => r.ticket \in Tickets,
         TimerJustified(r, row, been, now)
  PROVE  TimerJustified(r, row', been', now')
<1> SUFFICES ASSUME r.pc # "idle" PROVE TimerJustified(r, row', been', now')
  BY DEF TimerJustified
<1>1. r.ticket \in Tickets /\ "requested" \in been[r.ticket]
  BY DEF TimerJustified
<1>2. /\ row'[r.ticket].start = row[r.ticket].start
      /\ row'[r.ticket].end = row[r.ticket].end
      /\ been[r.ticket] \subseteq been'[r.ticket]
  BY <1>1 DEF Grows
<1>3. /\ now \in Nat /\ now' \in Nat /\ now' >= now
      /\ row[r.ticket].start \in Nat /\ row[r.ticket].end \in Nat
  BY <1>1, TimeAssumption DEF Grows, TypeInv, TypeOK, Row, Instants, ZeroTime
<1> QED BY <1>1, <1>2, <1>3 DEF TimerJustified

\* Hence a step need only justify the slots it fills.
LEMMA Justify ==
  ASSUME TypeInv, TypeInv', PromiseInv, Grows, HistorySound(row', been'),
         \A h \in Handlers : req'[h] = req[h] \/ ReqJustified(req'[h], been'),
         \A k \in Timers : timer'[k] = timer[k] \/ TimerJustified(timer'[k], row', been', now')
  PROVE  PromiseInv'
<1>1. ASSUME NEW h \in Handlers PROVE ReqJustified(req'[h], been')
  <2>1. req[h] \in ReqRec /\ (req[h].pc # "idle" => req[h].ticket \in Tickets)
    BY DEF TypeInv, TypeOK, Assigned
  <2> QED BY <2>1, ReqStaysJustified DEF PromiseInv
<1>2. ASSUME NEW k \in Timers PROVE TimerJustified(timer'[k], row', been', now')
  <2>1. timer[k] \in TimerRec /\ (timer[k].pc # "idle" => timer[k].ticket \in Tickets)
    BY DEF TypeInv, TypeOK, Assigned
  <2> QED BY <2>1, TimerStaysJustified DEF PromiseInv
<1> QED BY <1>1, <1>2 DEF PromiseInv

LEMMA StillGrows ==
  ASSUME TypeInv, UNCHANGED <<now, row, been>>
  PROVE  Grows /\ (PromiseInv => HistorySound(row', been')) /\ UNCHANGED Promise!pvars
<1>1. now' >= now
  BY TimeAssumption DEF TypeInv, TypeOK, Instants, ZeroTime
<1> QED BY <1>1 DEF Grows, PromiseInv, HistorySound, Promise!pvars

LEMMA PromiseInvInit == Init => PromiseInv /\ Promise!PromiseInit
BY IdleJustified
   DEF Init, PromiseInv, HistorySound, ReqJustified, TimerJustified, IdleReq, IdleTimer,
       Promise!PromiseInit, Absent, ZeroTime, Promise!Absent, Promise!ZeroTime

\* The two ways a row changes are steps of the promise.
LEMMA InsertPromised ==
  ASSUME TypeInv, PromiseInv, NEW t \in Tickets, NEW p \in Requested,
         row[t].status = Absent, PeriodAccepted(p), Insert(t, p), now' = now
  PROVE  Grows /\ HistorySound(row', been') /\ Promise!PromiseNext
<1>1. been[t] = {}
  BY DEF PromiseInv, HistorySound
<1>2. /\ row'[t] = [status |-> "requested", start |-> p.start, end |-> p.end]
      /\ been'[t] = {"requested"}
      /\ \A u \in Tickets \ {t} : row'[u] = row[u] /\ been'[u] = been[u]
  BY InsertRow DEF TypeInv
<1>3. now' >= now
  BY TimeAssumption DEF TypeInv, TypeOK, Instants, ZeroTime
<1>4. Grows
  BY <1>1, <1>2, <1>3 DEF Grows
<1>5. HistorySound(row', been')
  BY <1>2 DEF PromiseInv, HistorySound, Absent
<1>6. p \in [start : Promise!Instants, end : Promise!Instants] /\ Promise!PeriodAccepted(p)
  BY JITAssumption
     DEF PeriodAccepted, Instants, ZeroTime, Promise!PeriodAccepted, Promise!Instants, Promise!ZeroTime
<1>7. Promise!Submit(t, p)
  BY <1>6 DEF Insert, Promise!Submit, Absent, Promise!Absent
<1>8. Promise!PromiseNext
  BY <1>6, <1>7 DEF Promise!PromiseNext
<1> QED BY <1>4, <1>5, <1>8

LEMMA WritePromised ==
  ASSUME TypeInv, PromiseInv, NEW t \in Tickets, NEW s \in Statuses \ {"requested"},
         "requested" \in been[t],
         s \in {"active", "revoked"} => "approved" \in been[t],
         s = "active" => now >= row[t].start,
         s = "expired" => now >= row[t].end,
         Becomes(t, s), now' = now
  PROVE  Grows /\ HistorySound(row', been') /\ Promise!PromiseNext
<1>1. /\ row'[t].status = s /\ row'[t].start = row[t].start /\ row'[t].end = row[t].end
      /\ been'[t] = been[t] \cup {s}
      /\ \A u \in Tickets \ {t} : row'[u] = row[u] /\ been'[u] = been[u]
  BY BecomesRow DEF TypeInv
<1>2. now' >= now
  BY TimeAssumption DEF TypeInv, TypeOK, Instants, ZeroTime
<1>3. Grows
  BY <1>1, <1>2 DEF Grows
<1>4. HistorySound(row', been')
  <2>1. s # Absent
    BY DEF Statuses, Absent
  <2> QED BY <1>1, <2>1 DEF PromiseInv, HistorySound
<1>5. Promise!Becomes(t, s)
  BY DEF Becomes, Promise!Becomes
<1>6. Promise!Decide(t) \/ Promise!Revoke(t) \/ Promise!Activate(t) \/ Promise!Expire(t)
  BY <1>5 DEF Statuses, Promise!Decide, Promise!Revoke, Promise!Activate, Promise!Expire
<1>7. Promise!PromiseNext
  BY <1>6 DEF Promise!PromiseNext
<1> QED BY <1>3, <1>4, <1>7

LEMMA PromiseHandler ==
  ASSUME TypeInv, TypeInv', PromiseInv, NEW h \in Handlers, Arrive(h) \/ Proceed(h)
  PROVE  PromiseInv' /\ [Promise!PromiseNext]_(Promise!pvars)
<1>0. /\ req \in [Handlers -> ReqRec]
      /\ timer \in [Timers -> TimerRec]
      /\ req[h].pc # "idle" => req[h].ticket \in Tickets
      /\ req[h].op \in Statuses
      /\ ReqJustified(req[h], been)
      /\ \A t \in Tickets : row[t].status # Absent => "requested" \in been[t]
  BY DEF TypeInv, TypeOK, Assigned, PromiseInv, HistorySound, ReqRec, Ops, Statuses
<1> DEFINE Others == \A g \in Handlers \ {h} : req'[g] = req[g]
<1> DEFINE SameTable == UNCHANGED <<now, row, been>>
<1>1. ASSUME NEW t \in Tickets, NEW p \in Requested, CreateTicket(h, t, p)
      PROVE  PromiseInv' /\ Promise!PromiseNext
  <2>1. Grows /\ HistorySound(row', been') /\ Promise!PromiseNext
    BY <1>1, InsertPromised DEF CreateTicket
  <2>2. Others /\ timer' = timer
    BY <1>0, <1>1 DEF CreateTicket
  <2>3. req'[h] = [pc |-> "stop", ticket |-> t, op |-> "requested", seen |-> "requested"]
    BY <1>0, <1>1 DEF CreateTicket
  <2>4. been'[t] = {"requested"}
    BY <1>1 DEF CreateTicket, Insert, TypeInv, TypeOK
  <2>5. ReqJustified(req'[h], been')
    BY <2>3, <2>4 DEF ReqJustified
  <2> QED BY <2>1, <2>2, <2>5, Justify
<1>2. ASSUME NEW t \in Tickets, NEW p \in Requested, CreateTicketFails(h, t, p)
      PROVE  PromiseInv' /\ Promise!PromiseNext
  <2>1. Grows /\ HistorySound(row', been') /\ Promise!PromiseNext
    BY <1>2, InsertPromised DEF CreateTicketFails
  <2> QED BY <1>2, <2>1, Justify DEF CreateTicketFails
<1>3. ASSUME NEW t \in Tickets, CancelTicket(h, t)
      PROVE  PromiseInv' /\ SameTable
  <2>1. Others /\ timer' = timer /\ SameTable
    BY <1>0, <1>3 DEF CancelTicket
  <2>2. req'[h] = [pc |-> "read", ticket |-> t, op |-> "canceled", seen |-> Absent]
    BY <1>0, <1>3 DEF CancelTicket
  <2>3. "requested" \in been[t]
    BY <1>0, <1>3 DEF CancelTicket, Absent
  <2>4. ReqJustified(req'[h], been')
    BY <2>1, <2>2, <2>3 DEF ReqJustified, Absent
  <2> QED BY <2>1, <2>4, StillGrows, Justify
<1>4. ASSUME NEW t \in Tickets, NEW s \in {"approved", "rejected", "revoked"},
             AdminUpdateStatus(h, t, s)
      PROVE  PromiseInv' /\ SameTable
  <2>1. Others /\ timer' = timer /\ SameTable
    BY <1>0, <1>4 DEF AdminUpdateStatus
  <2>2. req'[h] = [pc |-> "write", ticket |-> t, op |-> s, seen |-> Absent]
    BY <1>0, <1>4 DEF AdminUpdateStatus
  <2>3. row[t].status \in {"requested", "approved", "active"}
        /\ (s = "revoked" => row[t].status \in {"approved", "active"})
    BY <1>4 DEF AdminUpdateStatus, IsValidTransition, ValidTransitions
  <2>4. "requested" \in been[t] /\ (s = "revoked" => "approved" \in been[t])
    BY <1>0, <2>3 DEF PromiseInv, HistorySound, Absent
  <2>5. ReqJustified(req'[h], been')
    BY <2>1, <2>2, <2>4 DEF ReqJustified, Absent
  <2> QED BY <2>1, <2>5, StillGrows, Justify
<1>5. CASE ReadStatus(h)
  <2>1. Others /\ timer' = timer /\ SameTable
    BY <1>0, <1>5 DEF ReadStatus, Goto, Done
  <2>2. ReqJustified(req'[h], been')
    <3>1. "write" \in ReqPCs
      BY DEF ReqPCs
    <3> QED BY <1>0, <1>5, <2>1, <3>1, GotoReq, DoneReq DEF ReadStatus, ReqJustified
  <2> QED BY <2>1, <2>2, StillGrows, Justify
<1>6. CASE ReadStatusFails(h)
  <2>1. Others /\ timer' = timer /\ SameTable /\ req'[h].pc = "idle"
    BY <1>0, <1>6, DoneReq DEF ReadStatusFails
  <2> QED BY <2>1, StillGrows, Justify DEF ReqJustified
<1>7. CASE WriteStatus(h)
  <2>1. Grows /\ HistorySound(row', been') /\ Promise!PromiseNext
    BY <1>0, <1>7, WritePromised DEF WriteStatus, ReqJustified, TypeInv, TypeOK, ReqRec, Ops
  <2>2. Others /\ timer' = timer
    BY <1>0, <1>7 DEF WriteStatus, Goto
  <2>3. ReqJustified(req'[h], been)
    <3>1. "reread" \in ReqPCs
      BY DEF ReqPCs
    <3> QED BY <1>0, <1>7, <3>1, GotoReq DEF WriteStatus, ReqJustified
  <2>4. req'[h] \in ReqRec /\ req'[h].ticket \in Tickets
    BY <1>0, <1>7 DEF WriteStatus, Goto, TypeInv, TypeOK
  <2>5. ReqJustified(req'[h], been')
    BY <2>1, <2>3, <2>4, ReqStaysJustified
  <2> QED BY <2>1, <2>2, <2>5, Justify
<1>8. CASE WriteStatusFails(h)
  <2>1. Others /\ timer' = timer /\ now' = now /\ req'[h].pc = "idle"
    BY <1>0, <1>8, DoneReq DEF WriteStatusFails
  <2>2. ReqJustified(req'[h], been')
    BY <2>1 DEF ReqJustified
  <2>3. CASE UNCHANGED store
    <3>1. SameTable
      BY <2>1, <2>3 DEF store
    <3> QED BY <2>1, <2>2, <3>1, StillGrows, Justify
  <2>4. CASE Becomes(req[h].ticket, req[h].op)
    <3>1. Grows /\ HistorySound(row', been') /\ Promise!PromiseNext
      BY <1>0, <1>8, <2>1, <2>4, WritePromised
         DEF WriteStatusFails, ReqJustified, TypeInv, TypeOK, ReqRec, Ops
    <3> QED BY <2>1, <2>2, <3>1, Justify
  <2> QED BY <1>8, <2>3, <2>4 DEF WriteStatusFails
<1>9. CASE Reread(h)
  <2>1. Others /\ timer' = timer /\ SameTable
    BY <1>0, <1>9 DEF Reread
  <2>2. req[h].ticket \in Tickets /\ req[h].pc = "reread"
    BY <1>0, <1>9 DEF Reread
  <2>3. /\ req'[h].ticket = req[h].ticket
        /\ req'[h].op = req[h].op
        /\ req'[h].seen = row[req[h].ticket].status
        /\ req'[h].pc \in {"stop", "cancel"}
    BY <1>0, <1>9 DEF Reread, ReqRec
  <2>4. req'[h].seen = "approved" => "approved" \in been[req[h].ticket]
    BY <2>2, <2>3 DEF PromiseInv, HistorySound, Absent
  <2>5. ReqJustified(req'[h], been')
    BY <1>0, <2>1, <2>2, <2>3, <2>4 DEF ReqJustified
  <2> QED BY <2>1, <2>5, StillGrows, Justify
<1>10. CASE RereadFails(h)
  <2>1. Others /\ timer' = timer /\ SameTable /\ req'[h].pc = "idle"
    BY <1>0, <1>10, DoneReq DEF RereadFails
  <2> QED BY <2>1, StillGrows, Justify DEF ReqJustified
<1>11. CASE ScheduleStop(h) \/ CancelTimer(h)
  <2>1. Others /\ SameTable
    BY <1>0, <1>11 DEF ScheduleStop, CancelTimer, Goto
  <2>2. ReqJustified(req'[h], been')
    <3>1. {"arm", "respond"} \subseteq ReqPCs
      BY DEF ReqPCs
    <3> QED BY <1>0, <1>11, <2>1, <3>1, GotoReq DEF ScheduleStop, CancelTimer, ReqJustified
  <2>3. \A k \in Timers : timer'[k] = timer[k] \/ timer'[k] = IdleTimer
    BY <1>0, <1>11, StoppedType DEF ScheduleStop, CancelTimer
  <2>4. TimerJustified(IdleTimer, row', been', now')
    BY DEF TimerJustified, IdleTimer
  <2> QED BY <2>1, <2>2, <2>3, <2>4, StillGrows, Justify
<1>12. CASE ScheduleArm(h)
  <2> DEFINE r == NewTimer(req[h].ticket, TargetOf(req[h].seen))
  <2>1. Others /\ SameTable
    BY <1>0, <1>12 DEF ScheduleArm, Goto
  <2>2. ReqJustified(req'[h], been')
    <3>1. "respond" \in ReqPCs
      BY DEF ReqPCs
    <3> QED BY <1>0, <1>12, <2>1, <3>1, GotoReq DEF ScheduleArm, ReqJustified
  <2>3. \A k \in Timers : timer'[k] = timer[k] \/ timer'[k] = r
    BY <1>0, <1>12, ArmInType, TargetType DEF ScheduleArm
  <2>4. TimerJustified(r, row', been', now')
    BY <1>0, <1>12, <2>1
       DEF ScheduleArm, ReqJustified, TimerJustified, NewTimer, TargetOf, Absent
  <2> HIDE DEF r
  <2> QED BY <2>1, <2>2, <2>3, <2>4, StillGrows, Justify
<1>13. CASE Respond(h)
  <2>1. Others /\ timer' = timer /\ SameTable /\ req'[h].pc = "idle"
    BY <1>0, <1>13, DoneReq DEF Respond
  <2> QED BY <2>1, StillGrows, Justify DEF ReqJustified
<1> QED
  <2>1. SameTable => UNCHANGED Promise!pvars
    BY DEF Promise!pvars
  <2> QED BY <1>1, <1>2, <1>3, <1>4, <1>5, <1>6, <1>7, <1>8, <1>9, <1>10, <1>11, <1>12, <1>13,
             <2>1, StillGrows DEF Arrive, Proceed

LEMMA PromiseTimer ==
  ASSUME TypeInv, TypeInv', PromiseInv, NEW k \in Timers, Elapse(k)
  PROVE  PromiseInv' /\ [Promise!PromiseNext]_(Promise!pvars)
<1> DEFINE t == timer[k].ticket
<1> DEFINE Others == \A j \in Timers \ {k} : timer'[j] = timer[j]
<1> DEFINE SameTable == UNCHANGED <<now, row, been>>
<1>0. /\ timer \in [Timers -> TimerRec]
      /\ timer[k].pc # "idle" => t \in Tickets
      /\ timer[k].target \in {"active", "expired"}
      /\ timer[k].target \in Statuses \ {"requested"}
      /\ TimerJustified(timer[k], row, been, now)
  BY DEF TypeInv, TypeOK, Assigned, PromiseInv, TimerRec, Targets, Statuses
<1>1. {"fired", "update", "reread", "notify", "stop"} \subseteq TimerPCs
  BY DEF TimerPCs
<1>2. SameTable => /\ Grows /\ HistorySound(row', been')
                   /\ UNCHANGED Promise!pvars
  BY StillGrows
\* A step of k's own program that keeps what it knows.
<1>3. ASSUME SameTable, Others, req' = req,
             timer'[k].pc = "idle" \/ /\ timer[k].pc \notin {"idle", "armed"}
                                      /\ timer'[k].ticket = t
                                      /\ timer'[k].target = timer[k].target
                                      /\ timer'[k].seen = timer[k].seen
      PROVE  PromiseInv'
  <2>1. TimerJustified(timer'[k], row', been', now')
    BY <1>0, <1>3 DEF TimerJustified
  <2> QED BY <1>2, <1>3, <2>1, Justify
<1>4. CASE Fire(k)
  <2>1. SameTable /\ req' = req /\ Others
    BY <1>0, <1>4 DEF Fire, Step
  <2>2. /\ timer'[k].ticket = t
        /\ timer'[k].target = timer[k].target
        /\ timer'[k].seen = timer[k].seen
    BY <1>0, <1>1, <1>4, StepTimer DEF Fire
  <2>3. TimerJustified(timer'[k], row', been', now')
    BY <1>0, <1>4, <2>1, <2>2 DEF TimerJustified, Fire, Due
  <2> QED BY <1>2, <2>1, <2>3, Justify
<1>5. CASE ForgetTimer(k)
  <2>1. SameTable /\ req' = req /\ Others
    BY <1>0, <1>5 DEF ForgetTimer, Step
  <2> QED BY <1>0, <1>1, <1>2, <1>3, <1>5, <2>1, StepTimer DEF ForgetTimer
<1>6. CASE SystemUpdate(k)
  <2>1. now' = now /\ req' = req /\ Others
    BY <1>0, <1>6 DEF SystemUpdate, Step, End
  <2>2. CASE row[t].status = timer[k].target
    <3>1. SameTable /\ timer'[k].pc = "idle"
      BY <1>0, <1>6, <2>1, <2>2, EndTimer DEF SystemUpdate, store
    <3> QED BY <1>2, <1>3, <2>1, <3>1
  <2>3. CASE row[t].status # timer[k].target
    <3>1. Becomes(t, timer[k].target) /\ Step(k, "reread") /\ timer[k].pc = "update"
      BY <1>6, <2>3 DEF SystemUpdate
    <3>2. Grows /\ HistorySound(row', been') /\ Promise!PromiseNext
      BY <1>0, <2>1, <3>1, WritePromised DEF TimerJustified
    <3>3. TimerJustified(timer'[k], row, been, now)
      BY <1>0, <1>1, <3>1, StepTimer DEF TimerJustified
    <3>4. timer'[k] \in TimerRec /\ (timer'[k].pc # "idle" => timer'[k].ticket \in Tickets)
      BY DEF TypeInv, TypeOK, Assigned
    <3>5. TimerJustified(timer'[k], row', been', now')
      BY <3>2, <3>3, <3>4, TimerStaysJustified
    <3> QED BY <2>1, <3>2, <3>5, Justify
  <2> QED BY <2>2, <2>3
<1>7. CASE SystemUpdateFails(k)
  <2>1. now' = now /\ req' = req /\ Others /\ timer'[k].pc = "idle" /\ timer[k].pc = "update"
    BY <1>0, <1>7, EndTimer DEF SystemUpdateFails
  <2>2. CASE UNCHANGED store
    <3>1. SameTable
      BY <2>1, <2>2 DEF store
    <3> QED BY <1>2, <1>3, <2>1, <3>1
  <2>3. CASE Becomes(t, timer[k].target)
    <3>1. Grows /\ HistorySound(row', been') /\ Promise!PromiseNext
      BY <1>0, <2>1, <2>3, WritePromised DEF TimerJustified
    <3>2. TimerJustified(timer'[k], row', been', now')
      BY <2>1 DEF TimerJustified
    <3> QED BY <2>1, <3>1, <3>2, Justify
  <2> QED BY <1>7, <2>2, <2>3 DEF SystemUpdateFails
<1>8. CASE SystemReread(k)
  <2>1. SameTable /\ req' = req /\ Others /\ t \in Tickets /\ timer[k].pc = "reread"
    BY <1>0, <1>8 DEF SystemReread
  <2>2. /\ timer'[k].ticket = t
        /\ timer'[k].target = timer[k].target
        /\ timer'[k].seen = row[t].status
    BY <1>0, <1>8 DEF SystemReread, TimerRec
  <2>3. timer'[k].seen = "approved" => "approved" \in been[t]
    BY <2>1, <2>2 DEF PromiseInv, HistorySound, Absent
  <2>4. TimerJustified(timer'[k], row', been', now')
    BY <1>0, <2>1, <2>2, <2>3 DEF TimerJustified
  <2> QED BY <1>2, <2>1, <2>4, Justify
<1>9. CASE SystemRereadFails(k)
  <2>1. SameTable /\ req' = req /\ Others /\ timer'[k].pc = "idle"
    BY <1>0, <1>9, EndTimer DEF SystemRereadFails
  <2> QED BY <1>2, <1>3, <2>1
<1>10. CASE Notify(k)
  <2>1. SameTable /\ req' = req /\ Others
    BY <1>0, <1>10 DEF Notify, Step, End
  <2> QED BY <1>0, <1>1, <1>2, <1>3, <1>10, <2>1, StepTimer, EndTimer DEF Notify
<1>11. CASE RescheduleStop(k)
  <2> DEFINE stopped == Stopped(t)
  <2>1. SameTable /\ req' = req /\ t \in Tickets /\ timer[k].pc = "stop"
    BY <1>0, <1>11 DEF RescheduleStop
  <2>2. /\ stopped \in [Timers -> TimerRec]
        /\ stopped[k] = timer[k]
        /\ \A j \in Timers : stopped[j] = timer[j] \/ stopped[j] = IdleTimer
    BY <2>1, StoppedType
  <2>3. timer' = [stopped EXCEPT ![k] = IF NeedsTimer(timer[k].seen)
                                          THEN [stopped[k] EXCEPT !.pc = "arm"] ELSE IdleTimer]
    BY <1>11 DEF RescheduleStop
  <2> HIDE DEF stopped
  <2>4. \A j \in Timers \ {k} : timer'[j] = timer[j] \/ timer'[j] = IdleTimer
    BY <2>2, <2>3
  <2>5. timer'[k] = [timer[k] EXCEPT !.pc = "arm"] \/ timer'[k] = IdleTimer
    BY <2>2, <2>3
  <2>6. TimerJustified(IdleTimer, row', been', now')
    BY DEF TimerJustified, IdleTimer
  <2>7. TimerJustified([timer[k] EXCEPT !.pc = "arm"], row', been', now')
    BY <1>0, <2>1 DEF TimerJustified, TimerRec
  <2> QED BY <1>2, <2>1, <2>4, <2>5, <2>6, <2>7, Justify
<1>12. CASE RescheduleArm(k)
  <2> DEFINE objects == [timer EXCEPT ![k] = IdleTimer]
             r == NewTimer(t, TargetOf(timer[k].seen))
  <2>1. SameTable /\ req' = req /\ t \in Tickets /\ timer[k].pc = "arm"
    BY <1>0, <1>12 DEF RescheduleArm
  <2>2. objects \in [Timers -> TimerRec]
        /\ \A j \in Timers : objects[j] = timer[j] \/ objects[j] = IdleTimer
    BY <1>0, IdleRecords
  <2>3. ArmIn(objects, t, TargetOf(timer[k].seen))
    BY <1>12 DEF RescheduleArm
  <2>4. TimerJustified(r, row', been', now')
    BY <1>0, <2>1 DEF TimerJustified, NewTimer, TargetOf, Absent
  <2>5. TimerJustified(IdleTimer, row', been', now')
    BY DEF TimerJustified, IdleTimer
  <2> HIDE DEF objects
  <2>6. \A j \in Timers : timer'[j] = objects[j] \/ timer'[j] = r
    BY <2>1, <2>2, <2>3, ArmInType, TargetType
  <2> HIDE DEF r
  <2> QED BY <1>2, <2>1, <2>2, <2>4, <2>5, <2>6, Justify
<1> QED BY <1>2, <1>4, <1>5, <1>6, <1>7, <1>8, <1>9, <1>10, <1>11, <1>12 DEF Elapse

LEMMA PromiseSystem ==
  ASSUME TypeInv, TypeInv', PromiseInv, Tick \/ Crash \/ Restart \/ RestartUnscheduled
  PROVE  PromiseInv' /\ [Promise!PromiseNext]_(Promise!pvars)
<1> DEFINE SameTable == UNCHANGED <<now, row, been>>
<1>0. SameTable => /\ Grows /\ HistorySound(row', been')
                   /\ UNCHANGED Promise!pvars
  BY StillGrows
<1>1. CASE Tick
  <2>1. now' > now
    BY <1>1, TimeAssumption DEF Tick, TypeInv, TypeOK, Instants, ZeroTime
  <2>2. Promise!PromiseNext
    BY <1>1, <2>1 DEF Tick, Promise!PromiseNext, Promise!TimePasses
  <2>3. Grows /\ HistorySound(row', been')
    BY <1>1, <2>1, TimeAssumption
       DEF Tick, Grows, PromiseInv, HistorySound, TypeInv, TypeOK, Instants, ZeroTime
  <2> QED BY <1>1, <2>2, <2>3, Justify DEF Tick
<1>2. CASE Crash
  <2>1. /\ SameTable
        /\ \A h \in Handlers : req'[h] = IdleReq
        /\ \A k \in Timers : timer'[k] = IdleTimer
    BY <1>2 DEF Crash
  <2>2. ReqJustified(IdleReq, been') /\ TimerJustified(IdleTimer, row', been', now')
    BY DEF ReqJustified, TimerJustified, IdleReq, IdleTimer
  <2> QED BY <1>0, <2>1, <2>2, Justify
<1>3. CASE Restart
  <2>1. SameTable /\ req' = req
    BY <1>3 DEF Restart
  <2>2. ASSUME NEW k \in Timers PROVE TimerJustified(timer'[k], row', been', now')
    <3>1. CASE timer'[k] = IdleTimer
      BY <3>1 DEF TimerJustified, IdleTimer
    <3>2. ASSUME NEW u \in PendingTickets, timer'[k] = NewTimer(u, TargetOf(row[u].status))
          PROVE  TimerJustified(timer'[k], row', been', now')
      <4>1. u \in Tickets /\ row[u].status # Absent
        BY DEF PendingTickets, Pending, Absent
      <4>2. "requested" \in been[u] /\ (row[u].status = "approved" => "approved" \in been[u])
        BY <4>1 DEF PromiseInv, HistorySound
      <4> QED BY <2>1, <3>2, <4>2 DEF TimerJustified, NewTimer, TargetOf, Absent
    <3> QED BY <1>3, <3>1, <3>2, RestartTimers
  <2> QED BY <1>0, <2>1, <2>2, Justify
<1>4. CASE RestartUnscheduled
  <2>1. SameTable /\ req' = req /\ timer' = timer
    BY <1>4 DEF RestartUnscheduled
  <2> QED BY <1>0, <2>1, Justify
<1> QED BY <1>1, <1>2, <1>3, <1>4

LEMMA PromiseStep ==
  TypeInv /\ TypeInv' /\ PromiseInv /\ [Next]_vars
    => PromiseInv' /\ [Promise!PromiseNext]_(Promise!pvars)
<1> SUFFICES ASSUME TypeInv, TypeInv', PromiseInv, [Next]_vars
             PROVE  PromiseInv' /\ [Promise!PromiseNext]_(Promise!pvars)
  OBVIOUS
<1>1. CASE UNCHANGED vars
  <2>1. UNCHANGED <<now, row, been>> /\ req' = req /\ timer' = timer
    BY <1>1 DEF vars
  <2> QED BY <2>1, StillGrows, Justify
<1>2. CASE Next
  BY <1>2, PromiseHandler, PromiseTimer, PromiseSystem DEF Next
<1> QED BY <1>1, <1>2

\* Whatever requests overlap, statements fail and processes die, the table
\* of tickets behaves as TicketPromise says.
THEOREM Implements == Spec => KeepsPromise
<1>1. Spec => []TypeInv
  BY TypeInit, TypeNext, PTL DEF Spec
<1>2. Init => PromiseInv /\ Promise!PromiseInit
  BY PromiseInvInit
<1>3. Spec => []PromiseInv
  BY <1>1, <1>2, PromiseStep, PTL DEF Spec
<1> QED BY <1>1, <1>2, <1>3, PromiseStep, PTL DEF Spec, KeepsPromise, Promise!PromiseSpec
================================================================================
