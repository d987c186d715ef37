--------------------------- MODULE JITSchedulerProofs --------------------------
(***************************************************************************)
(* Theorems about the scheduler of JITTickets: its map matches its timers, *)
(* a ticket nothing is under way on is scheduled as its status calls for,  *)
(* and it changes along the lifecycle only.                                *)
(*                                                                         *)
(* What a quiet ticket looks like says nothing of how it is left and       *)
(* reached again.  The invariant therefore says of every ticket that is    *)
(* not disturbed that one slot at most works on it, and what row and       *)
(* timers look like at every point of that slot's program.                 *)
(***************************************************************************)
EXTENDS JITTicketsProofs

MapSoundAt(t) ==
  timers[t] # NoTimer =>
    timer[timers[t]].ticket = t /\ timer[timers[t]].pc \in {"armed", "fired"}

\* While the process is down nothing of it is left.
Down ==
  ~up => /\ \A h \in Handlers : req[h] = IdleReq
         /\ \A k \in Timers : timer[k] = IdleTimer
         /\ \A t \in Tickets : timers[t] = NoTimer

Bare(t) == \A k \in Timers : ~ArmedFor(k, t)

Scheduled(t) ==
  /\ row[t].status \in Pending => \E k \in Timers : ArmedFor(k, t)
  /\ \A k \in Timers : ArmedFor(k, t) =>
       row[t].status \in Pending /\ timer[k].target = TargetOf(row[t].status)

ReqStage(h) ==
  LET t == req[h].ticket IN
  /\ req[h].pc \in {"read", "write", "respond"} => Scheduled(t)
  /\ req[h].pc = "write" => IsValidTransition(row[t].status, req[h].op)
  /\ req[h].pc = "reread" => row[t].status = req[h].op
  /\ req[h].pc \in {"stop", "arm"} => row[t].status = req[h].seen
  /\ req[h].pc = "arm" => row[t].status \in Pending /\ Bare(t)
  /\ req[h].pc = "cancel" => row[t].status \notin Pending

TimerStage(k) ==
  LET t == timer[k].ticket IN
  /\ timer[k].pc # "armed" => Bare(t)
  /\ timer[k].pc \in {"fired", "update"} =>
       row[t].status \in Pending /\ timer[k].target = TargetOf(row[t].status)
  /\ timer[k].pc \in {"reread", "notify"} => row[t].status = timer[k].target
  /\ timer[k].pc = "notify" => row[t].status = timer[k].seen
  /\ timer[k].pc \in {"stop", "arm"} =>
       row[t].status = timer[k].seen /\ row[t].status \in Pending

AloneOn(t) ==
  /\ \A g, h \in Handlers : HandledBy(g, t) /\ HandledBy(h, t) => g = h
  /\ \A j, k \in Timers : FiredFor(j, t) /\ FiredFor(k, t) => j = k
  /\ \A h \in Handlers, k \in Timers : ~(HandledBy(h, t) /\ FiredFor(k, t))

Orderly(t) ==
  t \notin disturbed =>
    /\ \A k \in Timers : ArmedFor(k, t) => timers[t] = k
    /\ AloneOn(t)
    /\ \A h \in Handlers : HandledBy(h, t) => ReqStage(h)
    /\ \A k \in Timers : FiredFor(k, t) => TimerStage(k)
    /\ up /\ ~Busy(t) => Scheduled(t)

SchedulerInv == Down /\ \A t \in Tickets : MapSoundAt(t) /\ Orderly(t)

(***************************************************************************)
(* A step that works on one ticket.                                        *)
(***************************************************************************)
ReqAbout(h, t) == req[h].pc = "idle" \/ req[h].ticket = t
TimerAbout(k, t) == timer[k].pc = "idle" \/ timer[k].ticket = t

LEMMA OtherTickets ==
  ASSUME SchedulerInv, TypeInv, up' = up,
         NEW u \in Tickets, row'[u] = row[u], timers'[u] = timers[u],
         u \in disturbed => u \in disturbed',
         \A h \in Handlers : \/ req'[h] = req[h]
                             \/ (~HandledBy(h, u) /\ ~HandledBy(h, u)'),
         \A k \in Timers : \/ timer'[k] = timer[k]
                             \/ /\ ~FiredFor(k, u) /\ ~FiredFor(k, u)'
                                /\ ~ArmedFor(k, u) /\ ~ArmedFor(k, u)'
  PROVE  MapSoundAt(u)' /\ Orderly(u)'
<1>1. MapSoundAt(u) /\ Orderly(u)
  BY DEF SchedulerInv
<1>2. timers[u] \in Timers \cup {NoTimer}
  BY DEF TypeInv, TypeOK
<1>3. MapSoundAt(u)'
  BY <1>1, <1>2 DEF MapSoundAt, FiredFor, ArmedFor
<1>4. /\ \A h \in Handlers : HandledBy(h, u)' <=> HandledBy(h, u)
      /\ \A k \in Timers : FiredFor(k, u)' <=> FiredFor(k, u)
      /\ \A k \in Timers : ArmedFor(k, u)' <=> ArmedFor(k, u)
      /\ \A h \in Handlers : HandledBy(h, u) => req'[h] = req[h]
      /\ \A k \in Timers : FiredFor(k, u) \/ ArmedFor(k, u) => timer'[k] = timer[k]
  BY DEF HandledBy, FiredFor, ArmedFor
<1>5. (Scheduled(u)' <=> Scheduled(u)) /\ (Bare(u)' <=> Bare(u)) /\ (Busy(u)' <=> Busy(u))
  BY <1>4 DEF Scheduled, Bare, Busy
<1>6. AloneOn(u)' <=> AloneOn(u)
  BY <1>4 DEF AloneOn
<1>7. ASSUME NEW h \in Handlers, HandledBy(h, u), ReqStage(h) PROVE ReqStage(h)'
  BY <1>4, <1>5, <1>7 DEF ReqStage, HandledBy
<1>8. ASSUME NEW k \in Timers, FiredFor(k, u), TimerStage(k) PROVE TimerStage(k)'
  BY <1>4, <1>5, <1>8 DEF TimerStage, FiredFor
<1>9. Orderly(u)'
  BY <1>1, <1>4, <1>5, <1>6, <1>7, <1>8 DEF Orderly
<1> QED BY <1>3, <1>9

LEMMA Local ==
  ASSUME SchedulerInv, TypeInv, up, up', NEW t \in Tickets,
         \A h \in Handlers : req'[h] = req[h] \/ (ReqAbout(h, t) /\ ReqAbout(h, t)'),
         \A k \in Timers : timer'[k] = timer[k] \/ (TimerAbout(k, t) /\ TimerAbout(k, t)'),
         \A u \in Tickets \ {t} : /\ row'[u] = row[u] /\ timers'[u] = timers[u]
                                  /\ u \in disturbed => u \in disturbed',
         MapSoundAt(t)', Orderly(t)'
  PROVE  SchedulerInv'
<1>1. ASSUME NEW u \in Tickets \ {t} PROVE MapSoundAt(u)' /\ Orderly(u)'
  <2>1. \A h \in Handlers : req'[h] = req[h] \/ (~HandledBy(h, u) /\ ~HandledBy(h, u)')
    BY <1>1 DEF ReqAbout, HandledBy
  <2>2. \A k \in Timers : \/ timer'[k] = timer[k]
                          \/ /\ ~FiredFor(k, u) /\ ~FiredFor(k, u)'
                             /\ ~ArmedFor(k, u) /\ ~ArmedFor(k, u)'
    BY <1>1 DEF TimerAbout, FiredFor, ArmedFor
  <2> QED BY <1>1, <2>1, <2>2, OtherTickets
<1>2. Down'
  BY DEF Down
<1> QED BY <1>1, <1>2 DEF SchedulerInv

\* What the invariant says of the ticket a slot works on.
LEMMA HandlerAlone ==
  ASSUME SchedulerInv, TypeInv, NEW h \in Handlers, req[h].pc # "idle"
  PROVE  /\ up
         /\ req[h].ticket \in Tickets
         /\ req[h].ticket \notin disturbed =>
              /\ \A g \in Handlers \ {h} : ~HandledBy(g, req[h].ticket)
              /\ \A k \in Timers : ~FiredFor(k, req[h].ticket)
              /\ \A k \in Timers : ArmedFor(k, req[h].ticket) => timers[req[h].ticket] = k
              /\ ReqStage(h)
<1>1. up
  BY DEF SchedulerInv, Down, IdleReq
<1>2. req[h].ticket \in Tickets /\ HandledBy(h, req[h].ticket)
  BY DEF TypeInv, Assigned, HandledBy
<1> QED BY <1>1, <1>2 DEF SchedulerInv, Orderly, AloneOn

LEMMA TimerAlone ==
  ASSUME SchedulerInv, TypeInv, NEW k \in Timers, timer[k].pc \notin {"idle", "armed"}
  PROVE  /\ up
         /\ timer[k].ticket \in Tickets
         /\ timer[k].ticket \notin disturbed =>
              /\ \A h \in Handlers : ~HandledBy(h, timer[k].ticket)
              /\ \A j \in Timers \ {k} : ~FiredFor(j, timer[k].ticket)
              /\ Bare(timer[k].ticket)
              /\ TimerStage(k)
<1>1. up
  BY DEF SchedulerInv, Down, IdleTimer
<1>2. timer[k].ticket \in Tickets /\ FiredFor(k, timer[k].ticket)
  BY DEF TypeInv, Assigned, FiredFor
<1> QED BY <1>1, <1>2 DEF SchedulerInv, Orderly, AloneOn, TimerStage

\* What has to be shown of it after the step.
LEMMA HandlerOrderly ==
  ASSUME NEW h \in Handlers, NEW t \in Tickets,
         t \notin disturbed' =>
           /\ \A g \in Handlers \ {h} : ~HandledBy(g, t)'
           /\ \A k \in Timers : ~FiredFor(k, t)'
           /\ \A k \in Timers : ArmedFor(k, t)' => timers'[t] = k
           /\ HandledBy(h, t)' => ReqStage(h)'
           /\ ~HandledBy(h, t)' => Scheduled(t)'
  PROVE  Orderly(t)'
BY DEF Orderly, AloneOn, Busy

LEMMA TimerOrderly ==
  ASSUME NEW k \in Timers, NEW t \in Tickets,
         t \notin disturbed' =>
           /\ \A h \in Handlers : ~HandledBy(h, t)'
           /\ \A j \in Timers \ {k} : ~FiredFor(j, t)'
           /\ \A j \in Timers : ArmedFor(j, t)' => timers'[t] = j
           /\ FiredFor(k, t)' => TimerStage(k)'
           /\ ~FiredFor(k, t)' => Scheduled(t)'
  PROVE  Orderly(t)'
BY DEF Orderly, AloneOn, Busy

(***************************************************************************)
(* Requests.                                                               *)
(***************************************************************************)
\* A ticket that has not been inserted has no slot at work on it.
LEMMA AbsentIsUntouched ==
  ASSUME TypeInv, PromiseInv, NEW t \in Tickets, row[t].status = Absent
  PROVE  /\ \A h \in Handlers : ~HandledBy(h, t)
         /\ \A k \in Timers : ~FiredFor(k, t) /\ ~ArmedFor(k, t)
<1>1. been[t] = {}
  BY DEF PromiseInv, HistorySound
<1> QED BY <1>1 DEF PromiseInv, ReqJustified, TimerJustified, HandledBy, FiredFor, ArmedFor

\* A statement of a request, or its answer: the timers are left alone.
LEMMA RequestOnly ==
  ASSUME SchedulerInv, TypeInv, NEW h \in Handlers, NEW t \in Tickets,
         req[h].pc # "idle", req[h].ticket = t,
         timer' = timer, timers' = timers, up' = up,
         \A g \in Handlers \ {h} : req'[g] = req[g],
         req'[h].pc = "idle" \/ req'[h].ticket = t,
         \A u \in Tickets \ {t} : row'[u] = row[u],
         disturbed \subseteq disturbed',
         t \notin disturbed' =>
           /\ req'[h].pc # "idle" => ReqStage(h)'
           /\ req'[h].pc = "idle" => Scheduled(t)'
  PROVE  SchedulerInv'
<1>1. /\ up /\ up'
      /\ t \notin disturbed =>
           /\ \A g \in Handlers \ {h} : ~HandledBy(g, t)
           /\ \A k \in Timers : ~FiredFor(k, t)
           /\ \A k \in Timers : ArmedFor(k, t) => timers[t] = k
  BY HandlerAlone
<1>2. MapSoundAt(t)'
  BY <1>1 DEF SchedulerInv, MapSoundAt
<1>3. Orderly(t)'
  <2>1. t \notin disturbed' =>
          /\ \A g \in Handlers \ {h} : ~HandledBy(g, t)'
          /\ \A k \in Timers : ~FiredFor(k, t)'
          /\ \A k \in Timers : ArmedFor(k, t)' => timers'[t] = k
          /\ HandledBy(h, t)' => ReqStage(h)'
          /\ ~HandledBy(h, t)' => Scheduled(t)'
    BY <1>1 DEF HandledBy, FiredFor, ArmedFor
  <2> QED BY <1>1, <2>1, HandlerOrderly
<1>4. \A g \in Handlers : req'[g] = req[g] \/ (ReqAbout(g, t) /\ ReqAbout(g, t)')
  BY DEF ReqAbout
<1>5. \A u \in Tickets \ {t} : /\ row'[u] = row[u] /\ timers'[u] = timers[u]
                               /\ u \in disturbed => u \in disturbed'
  OBVIOUS
<1> QED BY <1>1, <1>2, <1>3, <1>4, <1>5, Local

\* A request begins on a ticket that was quiet, or disturbs it.
LEMMA RequestBegins ==
  ASSUME SchedulerInv, TypeInv, NEW h \in Handlers, NEW t \in Tickets, up, up' = up,
         req[h].pc = "idle",
         timer' = timer, timers' = timers, row' = row, Begin(t),
         \A g \in Handlers \ {h} : req'[g] = req[g],
         req'[h].ticket = t, req'[h].pc \in {"read", "write"},
         req'[h].pc = "write" => IsValidTransition(row[t].status, req'[h].op)
  PROVE  SchedulerInv'
<1>1. disturbed \subseteq disturbed' /\ (t \notin disturbed' => ~Busy(t) /\ t \notin disturbed)
  BY DEF Begin
<1>2. MapSoundAt(t)'
  BY DEF SchedulerInv, MapSoundAt
<1>3. ASSUME t \notin disturbed'
      PROVE  /\ \A g \in Handlers \ {h} : ~HandledBy(g, t)'
             /\ \A k \in Timers : ~FiredFor(k, t)'
             /\ \A k \in Timers : ArmedFor(k, t)' => timers'[t] = k
             /\ HandledBy(h, t)' /\ ReqStage(h)'
  <2>1. Scheduled(t) /\ \A k \in Timers : ArmedFor(k, t) => timers[t] = k
    BY <1>1, <1>3 DEF SchedulerInv, Orderly
  <2>2. Scheduled(t)'
    BY <2>1 DEF Scheduled, ArmedFor
  <2>3. HandledBy(h, t)' /\ ReqStage(h)'
    BY <2>2 DEF HandledBy, ReqStage
  <2> QED BY <1>1, <1>3, <2>1, <2>3 DEF Busy, HandledBy, FiredFor, ArmedFor
<1>4. Orderly(t)'
  BY <1>3, HandlerOrderly
<1>5. \A g \in Handlers : req'[g] = req[g] \/ (ReqAbout(g, t) /\ ReqAbout(g, t)')
  BY DEF ReqAbout
<1> QED BY <1>1, <1>2, <1>4, <1>5, Local

\* Cancel leaves no armed timer of a ticket whose timers are all in the map.
LEMMA StoppedBare ==
  ASSUME SchedulerInv, TypeInv, NEW t \in Tickets
  PROVE  /\ \A k \in Timers : \/ Stopped(t)[k] = timer[k]
                              \/ /\ Stopped(t)[k] = IdleTimer
                                 /\ timer[k].pc = "armed" /\ timer[k].ticket = t
         /\ (\A k \in Timers : ArmedFor(k, t) => timers[t] = k) =>
              \A k \in Timers : ~(Stopped(t)[k].pc = "armed" /\ Stopped(t)[k].ticket = t)
<1>1. timer \in [Timers -> TimerRec] /\ timers[t] \in Timers \cup {NoTimer} /\ NoTimer \notin Timers
  BY JITAssumption DEF TypeInv, TypeOK
<1>2. timers[t] # NoTimer => timer[timers[t]].ticket = t
  BY DEF SchedulerInv, MapSoundAt
<1>3. CASE timers[t] # NoTimer /\ timer[timers[t]].pc = "armed"
  <2>1. Stopped(t) = [timer EXCEPT ![timers[t]] = IdleTimer]
    BY <1>3 DEF Stopped
  <2>2. IdleTimer.pc = "idle"
    BY DEF IdleTimer
  <2> QED BY <1>1, <1>2, <1>3, <2>1, <2>2 DEF ArmedFor
<1>4. CASE ~(timers[t] # NoTimer /\ timer[timers[t]].pc = "armed")
  <2>1. Stopped(t) = timer
    BY <1>4 DEF Stopped
  <2> QED BY <1>1, <1>4, <2>1 DEF ArmedFor
<1> QED BY <1>3, <1>4

\* The map loses one entry.
LEMMA UnmappedAt ==
  ASSUME TypeInv, NEW t \in Tickets
  PROVE  /\ Unmapped(t)[t] = NoTimer
         /\ \A u \in Tickets \ {t} : Unmapped(t)[u] = timers[u]
BY DEF Unmapped, TypeInv, TypeOK

\* Scheduler.Cancel, by itself and in Schedule.
LEMMA RequestStops ==
  ASSUME SchedulerInv, TypeInv, NEW h \in Handlers, ScheduleStop(h) \/ CancelTimer(h)
  PROVE  SchedulerInv'
<1> PICK t \in Tickets : req[h].ticket = t
  BY HandlerAlone DEF ScheduleStop, CancelTimer, ScheduleArm
<1>1. /\ up
      /\ t \notin disturbed =>
           /\ \A g \in Handlers \ {h} : ~HandledBy(g, t)
           /\ \A k \in Timers : ~FiredFor(k, t)
           /\ \A k \in Timers : ArmedFor(k, t) => timers[t] = k
           /\ ReqStage(h)
  BY HandlerAlone DEF ScheduleStop, CancelTimer
<1>2. timer' = Stopped(t) /\ timers' = Unmapped(t) /\ row' = row /\ disturbed' = disturbed /\ up' = up
  BY DEF ScheduleStop, CancelTimer
<1>3. /\ \A k \in Timers : \/ timer'[k] = timer[k]
                           \/ timer'[k] = IdleTimer /\ timer[k].ticket = t
      /\ t \notin disturbed => Bare(t)'
  BY <1>1, <1>2, StoppedBare DEF Bare, ArmedFor
<1>4. /\ req'[h].ticket = t
      /\ req'[h].seen = req[h].seen
      /\ \A g \in Handlers \ {h} : req'[g] = req[g]
      /\ \/ req[h].pc = "stop" /\ req'[h].pc = IF NeedsTimer(req[h].seen) THEN "arm" ELSE "respond"
         \/ req[h].pc = "cancel" /\ req'[h].pc = "respond"
  <2>1. {"arm", "respond"} \subseteq ReqPCs /\ req \in [Handlers -> ReqRec]
    BY DEF ReqPCs, TypeInv, TypeOK
  <2> QED BY <2>1, GotoReq DEF ScheduleStop, CancelTimer
<1>5. MapSoundAt(t)'
  BY <1>1, <1>2, UnmappedAt DEF MapSoundAt
<1>6. ASSUME t \notin disturbed' PROVE HandledBy(h, t)' /\ ReqStage(h)'
  <2>1. Bare(t)' /\ ReqStage(h)
    BY <1>1, <1>2, <1>3, <1>6
  <2>2. CASE req[h].pc = "stop"
    BY <1>2, <1>4, <2>1, <2>2 DEF ReqStage, HandledBy, NeedsTimer, Scheduled, Bare
  <2>3. CASE req[h].pc = "cancel"
    BY <1>2, <1>4, <2>1, <2>3 DEF ReqStage, HandledBy, Scheduled, Bare
  <2> QED BY <1>4, <2>2, <2>3
<1>7. Orderly(t)'
  <2>1. IdleTimer.pc = "idle"
    BY DEF IdleTimer
  <2>2. ASSUME t \notin disturbed'
        PROVE  /\ \A g \in Handlers \ {h} : ~HandledBy(g, t)'
               /\ \A k \in Timers : ~FiredFor(k, t)'
               /\ \A k \in Timers : ArmedFor(k, t)' => timers'[t] = k
    BY <1>1, <1>2, <1>3, <1>4, <2>1, <2>2 DEF HandledBy, FiredFor, Bare
  <2> QED BY <1>1, <1>6, <2>2, HandlerOrderly
<1>8. \A g \in Handlers : req'[g] = req[g] \/ (ReqAbout(g, t) /\ ReqAbout(g, t)')
  BY <1>4 DEF ReqAbout
<1>9. \A k \in Timers : timer'[k] = timer[k] \/ (TimerAbout(k, t) /\ TimerAbout(k, t)')
  BY <1>3 DEF TimerAbout, IdleTimer
<1>10. \A u \in Tickets \ {t} : /\ row'[u] = row[u] /\ timers'[u] = timers[u]
                                /\ u \in disturbed => u \in disturbed'
  BY <1>1, <1>2, UnmappedAt
<1> QED BY <1>1, <1>2, <1>5, <1>7, <1>8, <1>9, <1>10, Local

\* A timer object is put into the map.
LEMMA ArmedOne ==
  ASSUME TypeInv, NEW objects \in [Timers -> TimerRec], NEW t \in Tickets,
         NEW target \in Targets, ArmIn(objects, t, target)
  PROVE  \E k \in Timers :
           /\ objects[k].pc = "idle"
           /\ timer'[k] = NewTimer(t, target)
           /\ \A j \in Timers \ {k} : timer'[j] = objects[j]
           /\ timers'[t] = k
           /\ \A u \in Tickets \ {t} : timers'[u] = timers[u]
BY DEF ArmIn, TypeInv, TypeOK

LEMMA RequestArms ==
  ASSUME SchedulerInv, TypeInv, NEW h \in Handlers, ScheduleArm(h)
  PROVE  SchedulerInv'
<1> PICK t \in Tickets : req[h].ticket = t
  BY HandlerAlone DEF ScheduleStop, CancelTimer, ScheduleArm
<1>1. /\ up
      /\ t \notin disturbed =>
           /\ \A g \in Handlers \ {h} : ~HandledBy(g, t)
           /\ \A k \in Timers : ~FiredFor(k, t)
           /\ ReqStage(h)
  BY HandlerAlone DEF ScheduleArm
<1>2. row' = row /\ disturbed' = disturbed /\ up' = up /\ req[h].pc = "arm"
  BY DEF ScheduleArm
<1>3. PICK k \in Timers :
        /\ timer[k].pc = "idle"
        /\ timer'[k] = NewTimer(t, TargetOf(req[h].seen))
        /\ \A j \in Timers \ {k} : timer'[j] = timer[j]
        /\ timers'[t] = k
        /\ \A u \in Tickets \ {t} : timers'[u] = timers[u]
  BY <1>1, ArmedOne, TargetType DEF ScheduleArm, TypeInv, TypeOK
<1>4. /\ timer'[k].pc = "armed" /\ timer'[k].ticket = t
      /\ timer'[k].target = TargetOf(req[h].seen)
  BY <1>3 DEF NewTimer
<1>5. /\ req'[h].ticket = t
      /\ req'[h].pc = "respond"
      /\ \A g \in Handlers \ {h} : req'[g] = req[g]
  <2>1. "respond" \in ReqPCs /\ req \in [Handlers -> ReqRec]
    BY DEF ReqPCs, TypeInv, TypeOK
  <2> QED BY <2>1, GotoReq DEF ScheduleArm
<1>6. MapSoundAt(t)'
  BY <1>3, <1>4 DEF MapSoundAt
<1>7. ASSUME t \notin disturbed'
      PROVE  /\ \A g \in Handlers \ {h} : ~HandledBy(g, t)'
             /\ \A j \in Timers : ~FiredFor(j, t)'
             /\ \A j \in Timers : ArmedFor(j, t)' => timers'[t] = j
             /\ HandledBy(h, t)' /\ ReqStage(h)'
  <2>1. Bare(t) /\ row[t].status = req[h].seen /\ row[t].status \in Pending
    BY <1>1, <1>2, <1>7 DEF ReqStage
  <2>2. \A j \in Timers : ArmedFor(j, t)' <=> j = k
    BY <1>3, <1>4, <2>1 DEF ArmedFor, Bare
  <2>3. Scheduled(t)'
    BY <1>2, <1>4, <2>1, <2>2 DEF Scheduled
  <2> QED BY <1>1, <1>2, <1>3, <1>4, <1>5, <1>7, <2>2, <2>3 DEF ReqStage, HandledBy, FiredFor
<1>8. Orderly(t)'
  BY <1>1, <1>7, HandlerOrderly
<1>9. \A g \in Handlers : req'[g] = req[g] \/ (ReqAbout(g, t) /\ ReqAbout(g, t)')
  BY <1>5 DEF ReqAbout
<1>10. \A j \in Timers : timer'[j] = timer[j] \/ (TimerAbout(j, t) /\ TimerAbout(j, t)')
  BY <1>3, <1>4 DEF TimerAbout
<1> QED BY <1>1, <1>2, <1>3, <1>6, <1>8, <1>9, <1>10, Local

LEMMA RequestArrives ==
  ASSUME SchedulerInv, TypeInv, PromiseInv, NEW h \in Handlers, Arrive(h)
  PROVE  SchedulerInv'
<1>0. req \in [Handlers -> ReqRec]
  BY DEF TypeInv, TypeOK
<1>1. ASSUME NEW t \in Tickets, NEW p \in Requested, CreateTicket(h, t, p)
      PROVE  SchedulerInv'
  <2>1. /\ up /\ up' /\ timer' = timer /\ timers' = timers /\ disturbed' = disturbed
        /\ req[h].pc = "idle" /\ row[t].status = Absent
        /\ \A g \in Handlers \ {h} : req'[g] = req[g]
        /\ req'[h] = [pc |-> "stop", ticket |-> t, op |-> "requested", seen |-> "requested"]
    BY <1>0, <1>1 DEF CreateTicket
  <2>2. row'[t].status = "requested" /\ \A u \in Tickets \ {t} : row'[u] = row[u]
    <3>1. TypeOK /\ Insert(t, p)
      BY <1>1 DEF CreateTicket, TypeInv
    <3>2. /\ row'[t] = [status |-> "requested", start |-> p.start, end |-> p.end]
          /\ \A u \in Tickets \ {t} : row'[u] = row[u]
      BY <3>1, InsertRow
    <3> QED BY <3>2
  <2>3. /\ \A g \in Handlers \ {h} : ~HandledBy(g, t)'
        /\ \A k \in Timers : ~FiredFor(k, t)' /\ ~ArmedFor(k, t)'
    BY <2>1, AbsentIsUntouched DEF HandledBy, FiredFor, ArmedFor
  <2>4. HandledBy(h, t)' /\ ReqStage(h)'
    BY <2>1, <2>2 DEF HandledBy, ReqStage
  <2>5. Orderly(t)'
    BY <2>3, <2>4, HandlerOrderly
  <2>6. MapSoundAt(t)'
    BY <2>1 DEF SchedulerInv, MapSoundAt
  <2>7. \A g \in Handlers : req'[g] = req[g] \/ (ReqAbout(g, t) /\ ReqAbout(g, t)')
    BY <2>1 DEF ReqAbout
  <2> QED BY <2>1, <2>2, <2>5, <2>6, <2>7, Local
<1>2. ASSUME NEW t \in Tickets, NEW p \in Requested, CreateTicketFails(h, t, p)
      PROVE  SchedulerInv'
  <2>1. /\ up /\ up' /\ timer' = timer /\ timers' = timers /\ req' = req
        /\ disturbed' = disturbed \cup {t}
    BY <1>2 DEF CreateTicketFails, DBError
  <2>2. \A u \in Tickets \ {t} : row'[u] = row[u]
    BY <1>2, InsertRow DEF CreateTicketFails, TypeInv
  <2>3. MapSoundAt(t)' /\ Orderly(t)'
    BY <2>1 DEF SchedulerInv, MapSoundAt, Orderly
  <2> QED BY <2>1, <2>2, <2>3, Local
<1>3. ASSUME NEW t \in Tickets, CancelTicket(h, t)
      PROVE  SchedulerInv'
  <2>1. /\ up /\ up' = up /\ timer' = timer /\ timers' = timers /\ row' = row /\ Begin(t)
        /\ req[h].pc = "idle"
        /\ \A g \in Handlers \ {h} : req'[g] = req[g]
        /\ req'[h] = [pc |-> "read", ticket |-> t, op |-> "canceled", seen |-> Absent]
    BY <1>0, <1>3 DEF CancelTicket
  <2>2. req'[h].ticket = t /\ req'[h].pc = "read"
    BY <2>1
  <2> QED BY <2>1, <2>2, RequestBegins
<1>4. ASSUME NEW t \in Tickets, NEW s \in {"approved", "rejected", "revoked"},
             AdminUpdateStatus(h, t, s)
      PROVE  SchedulerInv'
  <2>1. /\ up /\ up' = up /\ timer' = timer /\ timers' = timers /\ row' = row /\ Begin(t)
        /\ req[h].pc = "idle"
        /\ \A g \in Handlers \ {h} : req'[g] = req[g]
        /\ req'[h] = [pc |-> "write", ticket |-> t, op |-> s, seen |-> Absent]
        /\ IsValidTransition(row[t].status, s)
    BY <1>0, <1>4 DEF AdminUpdateStatus
  <2>2. req'[h].ticket = t /\ req'[h].pc = "write" /\ req'[h].op = s
    BY <2>1
  <2> QED BY <2>1, <2>2, RequestBegins
<1> QED BY <1>1, <1>2, <1>3, <1>4 DEF Arrive

LEMMA RequestProceeds ==
  ASSUME SchedulerInv, TypeInv, PromiseInv, NEW h \in Handlers, Proceed(h)
  PROVE  SchedulerInv'
<1>0. req[h].pc # "idle"
  BY DEF Proceed, ReadStatus, ReadStatusFails, WriteStatus, WriteStatusFails, Reread,
         RereadFails, ScheduleStop, ScheduleArm, CancelTimer, Respond
<1> PICK t \in Tickets : req[h].ticket = t
  BY <1>0, HandlerAlone
<1>1. /\ req \in [Handlers -> ReqRec]
      /\ req[h].op \in Statuses
      /\ up
      /\ t \notin disturbed => ReqStage(h)
  BY <1>0, HandlerAlone DEF TypeInv, TypeOK, ReqRec, Ops, Statuses
\* A statement that leaves the row as it is.
<1>2. ASSUME timer' = timer, timers' = timers, row' = row, up' = up, disturbed \subseteq disturbed',
             \A g \in Handlers \ {h} : req'[g] = req[g],
             req'[h].pc = "idle" \/ req'[h].ticket = t,
             t \notin disturbed' /\ ReqStage(h) =>
               /\ req'[h].pc # "idle" => ReqStage(h)'
               /\ req'[h].pc = "idle" => Scheduled(t)'
      PROVE  SchedulerInv'
  BY <1>0, <1>1, <1>2, RequestOnly
<1>3. ASSUME timer' = timer, row' = row, Scheduled(t) PROVE Scheduled(t)'
  BY <1>3 DEF Scheduled, ArmedFor
<1>4. CASE ReadStatus(h)
  <2>1. "write" \in ReqPCs
    BY DEF ReqPCs
  <2>2. /\ \A g \in Handlers \ {h} : req'[g] = req[g]
        /\ \/ req'[h].pc = "idle"
           \/ /\ req'[h].pc = "write" /\ req'[h].ticket = t
              /\ IsValidTransition(row[t].status, req'[h].op)
    BY <1>1, <1>4, <2>1, GotoReq, DoneReq DEF ReadStatus
  <2>3. /\ timer' = timer /\ timers' = timers /\ row' = row /\ up' = up /\ disturbed' = disturbed
        /\ req[h].pc = "read"
    BY <1>4 DEF ReadStatus
  <2>4. ASSUME ReqStage(h)
        PROVE  Scheduled(t)' /\ (req'[h].pc # "idle" => ReqStage(h)')
    <3>1. Scheduled(t)'
      BY <1>3, <2>3, <2>4 DEF ReqStage
    <3> QED BY <2>2, <2>3, <3>1 DEF ReqStage
  <2> QED BY <1>2, <2>2, <2>3, <2>4
<1>5. CASE ReadStatusFails(h)
  <2>1. /\ timer' = timer /\ timers' = timers /\ row' = row /\ up' = up /\ disturbed' = disturbed
        /\ req[h].pc = "read"
    BY <1>5 DEF ReadStatusFails, DBError
  <2>2. req'[h].pc = "idle" /\ \A g \in Handlers \ {h} : req'[g] = req[g]
    BY <1>1, <1>5, DoneReq DEF ReadStatusFails
  <2>3. ReqStage(h) => Scheduled(t)'
    BY <1>3, <2>1 DEF ReqStage
  <2> QED BY <1>2, <2>1, <2>2, <2>3
<1>6. CASE WriteStatus(h)
  <2>1. "reread" \in ReqPCs
    BY DEF ReqPCs
  <2>2. /\ req'[h].pc = "reread" /\ req'[h].ticket = t /\ req'[h].op = req[h].op
        /\ \A g \in Handlers \ {h} : req'[g] = req[g]
    BY <1>1, <1>6, <2>1, GotoReq DEF WriteStatus
  <2>3. row'[t].status = req[h].op /\ \A u \in Tickets \ {t} : row'[u] = row[u]
    BY <1>1, <1>6, BecomesRow DEF WriteStatus, TypeInv
  <2>4. timer' = timer /\ timers' = timers /\ up' = up /\ disturbed' = disturbed
    BY <1>6 DEF WriteStatus
  <2>5. ReqStage(h)'
    BY <2>2, <2>3 DEF ReqStage
  <2> QED BY <1>0, <2>2, <2>3, <2>4, <2>5, RequestOnly
<1>7. CASE WriteStatusFails(h)
  <2>1. /\ timer' = timer /\ timers' = timers /\ up' = up /\ disturbed \subseteq disturbed'
        /\ req[h].pc = "write"
    BY <1>7 DEF WriteStatusFails, DBError
  <2>2. req'[h].pc = "idle" /\ \A g \in Handlers \ {h} : req'[g] = req[g]
    BY <1>1, <1>7, DoneReq DEF WriteStatusFails
  <2>3. CASE UNCHANGED store
    <3>1. row' = row
      BY <2>3 DEF store
    <3>2. ReqStage(h) => Scheduled(t)'
      BY <1>3, <2>1, <3>1 DEF ReqStage
    <3> QED BY <1>2, <2>1, <2>2, <3>1, <3>2
  <2>4. CASE Becomes(t, req[h].op) /\ DBError(t, TRUE)
    <3>1. \A u \in Tickets \ {t} : row'[u] = row[u]
      BY <1>1, <2>4, BecomesRow DEF TypeInv
    <3>2. t \in disturbed'
      BY <2>4 DEF DBError
    <3> QED BY <1>0, <2>1, <2>2, <3>1, <3>2, RequestOnly
  <2> QED BY <1>7, <2>3, <2>4 DEF WriteStatusFails
<1>8. CASE Reread(h)
  <2>1. /\ timer' = timer /\ timers' = timers /\ row' = row /\ up' = up /\ disturbed' = disturbed
        /\ req[h].pc = "reread"
        /\ \A g \in Handlers \ {h} : req'[g] = req[g]
    BY <1>1, <1>8 DEF Reread
  <2>2. /\ req'[h].ticket = t /\ req'[h].seen = row[t].status
        /\ req'[h].pc = IF req[h].op = "approved" THEN "stop" ELSE "cancel"
    BY <1>1, <1>8 DEF Reread, ReqRec
  <2>3. req[h].op # "requested" /\ req[h].op \in Ops
    BY <1>1, <2>1 DEF PromiseInv, ReqJustified, ReqRec
  <2>4. ASSUME ReqStage(h) PROVE ReqStage(h)'
    BY <2>1, <2>2, <2>3, <2>4 DEF ReqStage, Ops, Pending
  <2> QED BY <1>2, <2>1, <2>2, <2>4
<1>9. CASE RereadFails(h)
  <2>1. /\ timer' = timer /\ timers' = timers /\ row' = row /\ up' = up
        /\ disturbed' = disturbed \cup {t}
    BY <1>9 DEF RereadFails, DBError
  <2>2. req'[h].pc = "idle" /\ \A g \in Handlers \ {h} : req'[g] = req[g]
    BY <1>1, <1>9, DoneReq DEF RereadFails
  <2> QED BY <1>2, <2>1, <2>2
<1>10. CASE Respond(h)
  <2>1. /\ timer' = timer /\ timers' = timers /\ row' = row /\ up' = up /\ disturbed' = disturbed
        /\ req[h].pc = "respond"
    BY <1>10 DEF Respond
  <2>2. req'[h].pc = "idle" /\ \A g \in Handlers \ {h} : req'[g] = req[g]
    BY <1>1, <1>10, DoneReq DEF Respond
  <2>3. ReqStage(h) => Scheduled(t)'
    BY <1>3, <2>1 DEF ReqStage
  <2> QED BY <1>2, <2>1, <2>2, <2>3
<1> QED BY <1>4, <1>5, <1>6, <1>7, <1>8, <1>9, <1>10, RequestStops, RequestArms DEF Proceed

(***************************************************************************)
(* Timers.                                                                 *)
(***************************************************************************)
\* A step of the goroutine that arms nothing: the map loses its ticket's
\* entry, or is left alone.
LEMMA GoroutineOnly ==
  ASSUME SchedulerInv, TypeInv, NEW k \in Timers, NEW t \in Tickets,
         timer[k].pc \notin {"idle", "armed"}, timer[k].ticket = t,
         req' = req, up' = up,
         (timers' = timers /\ timer[k].pc # "fired") \/ timers' = Unmapped(t),
         \A j \in Timers \ {k} : timer'[j] = timer[j],
         timer'[k].pc # "armed",
         timer'[k].pc = "idle" \/ timer'[k].ticket = t,
         \A u \in Tickets \ {t} : row'[u] = row[u],
         disturbed \subseteq disturbed',
         t \notin disturbed' /\ TimerStage(k) /\ Bare(t)' =>
           /\ timer'[k].pc # "idle" => TimerStage(k)'
           /\ timer'[k].pc = "idle" => row'[t].status \notin Pending
  PROVE  SchedulerInv'
<1>1. /\ up /\ up'
      /\ t \notin disturbed =>
           /\ \A h \in Handlers : ~HandledBy(h, t)
           /\ \A j \in Timers \ {k} : ~FiredFor(j, t)
           /\ Bare(t)
           /\ TimerStage(k)
  BY TimerAlone
<1>2. timers[t] \in Timers \cup {NoTimer} /\ MapSoundAt(t)
  BY DEF TypeInv, TypeOK, SchedulerInv
<1>3. MapSoundAt(t)'
  <2>1. CASE timers' = Unmapped(t)
    BY <2>1, UnmappedAt DEF MapSoundAt
  <2>2. CASE timers' = timers /\ timer[k].pc # "fired"
    BY <1>2, <2>2 DEF MapSoundAt
  <2> QED BY <2>1, <2>2
<1>4. ASSUME t \notin disturbed'
      PROVE  /\ \A h \in Handlers : ~HandledBy(h, t)'
             /\ \A j \in Timers \ {k} : ~FiredFor(j, t)'
             /\ \A j \in Timers : ArmedFor(j, t)' => timers'[t] = j
             /\ FiredFor(k, t)' => TimerStage(k)'
             /\ ~FiredFor(k, t)' => Scheduled(t)'
  <2>1. Bare(t)' /\ TimerStage(k)
    BY <1>1, <1>4 DEF Bare, ArmedFor
  <2>2. \A h \in Handlers : ~HandledBy(h, t)'
    BY <1>1, <1>4 DEF HandledBy
  <2>3. \A j \in Timers \ {k} : ~FiredFor(j, t)'
    BY <1>1, <1>4 DEF FiredFor
  <2>4. ~FiredFor(k, t)' => timer'[k].pc = "idle"
    BY DEF FiredFor
  <2>5. FiredFor(k, t)' => TimerStage(k)'
    BY <1>4, <2>1 DEF FiredFor
  <2>6. ~FiredFor(k, t)' => Scheduled(t)'
    BY <1>4, <2>1, <2>4 DEF Scheduled, Bare
  <2> QED BY <2>1, <2>2, <2>3, <2>5, <2>6 DEF Bare
<1>5. Orderly(t)'
  BY <1>4, TimerOrderly
<1>6. \A j \in Timers : timer'[j] = timer[j] \/ (TimerAbout(j, t) /\ TimerAbout(j, t)')
  BY DEF TimerAbout
<1>7. \A u \in Tickets \ {t} : /\ row'[u] = row[u] /\ timers'[u] = timers[u]
                               /\ u \in disturbed => u \in disturbed'
  BY UnmappedAt
<1> QED BY <1>1, <1>3, <1>5, <1>6, <1>7, Local

LEMMA TimerFires ==
  ASSUME SchedulerInv, TypeInv, NEW k \in Timers, Fire(k)
  PROVE  SchedulerInv'
<1> PICK t \in Tickets : timer[k].ticket = t
  BY DEF TypeInv, Assigned, Fire
<1>0. timer \in [Timers -> TimerRec] /\ "fired" \in TimerPCs
  BY DEF TypeInv, TypeOK, TimerPCs
<1>1. /\ timer[k].pc = "armed" /\ Step(k, "fired") /\ Begin(t)
      /\ row' = row /\ timers' = timers /\ req' = req /\ up' = up
  BY DEF Fire
<1>2. up
  BY <1>1 DEF SchedulerInv, Down, IdleTimer
<1>3. /\ timer'[k].pc = "fired" /\ timer'[k].ticket = t /\ timer'[k].target = timer[k].target
      /\ \A j \in Timers \ {k} : timer'[j] = timer[j]
  BY <1>0, <1>1, StepTimer
<1>4. disturbed \subseteq disturbed' /\ (t \notin disturbed' => ~Busy(t) /\ t \notin disturbed)
  BY <1>1 DEF Begin
<1>5. MapSoundAt(t)'
  <2>1. timers[t] \in Timers \cup {NoTimer} /\ MapSoundAt(t)
    BY DEF TypeInv, TypeOK, SchedulerInv
  <2> QED BY <1>1, <1>3, <2>1 DEF MapSoundAt
<1>6. ASSUME t \notin disturbed'
      PROVE  /\ \A h \in Handlers : ~HandledBy(h, t)'
             /\ \A j \in Timers \ {k} : ~FiredFor(j, t)'
             /\ \A j \in Timers : ArmedFor(j, t)' => timers'[t] = j
             /\ FiredFor(k, t)' /\ TimerStage(k)'
  <2>1. Scheduled(t) /\ \A j \in Timers : ArmedFor(j, t) => timers[t] = j
    BY <1>2, <1>4, <1>6 DEF SchedulerInv, Orderly
  <2>2. ArmedFor(k, t)
    BY <1>1 DEF ArmedFor
  <2>3. Bare(t)'
    BY <1>3, <2>1, <2>2 DEF Bare, ArmedFor
  <2>4. row[t].status \in Pending /\ timer[k].target = TargetOf(row[t].status)
    BY <2>1, <2>2 DEF Scheduled
  <2>5. TimerStage(k)'
    BY <1>1, <1>3, <2>3, <2>4 DEF TimerStage
  <2> QED BY <1>1, <1>3, <1>4, <1>6, <2>3, <2>5 DEF Busy, HandledBy, FiredFor, Bare
<1>7. Orderly(t)'
  BY <1>6, TimerOrderly
<1>8. \A j \in Timers : timer'[j] = timer[j] \/ (TimerAbout(j, t) /\ TimerAbout(j, t)')
  BY <1>3 DEF TimerAbout
<1> QED BY <1>1, <1>2, <1>4, <1>5, <1>7, <1>8, Local

LEMMA TimerReschedules ==
  ASSUME SchedulerInv, TypeInv, NEW k \in Timers, RescheduleStop(k)
  PROVE  SchedulerInv'
<1> PICK t \in Tickets : timer[k].ticket = t
  BY DEF TypeInv, Assigned, RescheduleStop
<1>1. /\ timer[k].pc = "stop"
      /\ row' = row /\ req' = req /\ up' = up /\ disturbed' = disturbed /\ timers' = Unmapped(t)
  BY DEF RescheduleStop
<1>2. /\ up
      /\ t \notin disturbed =>
           /\ \A h \in Handlers : ~HandledBy(h, t)
           /\ \A j \in Timers \ {k} : ~FiredFor(j, t)
           /\ Bare(t)
           /\ TimerStage(k)
  BY <1>1, TimerAlone
<1>3. /\ \A j \in Timers \ {k} : \/ timer'[j] = timer[j]
                                 \/ timer'[j] = IdleTimer /\ timer[j].ticket = t
      /\ \/ timer'[k] = IdleTimer /\ ~NeedsTimer(timer[k].seen)
         \/ timer'[k] = [timer[k] EXCEPT !.pc = "arm"]
  <2> DEFINE stopped == Stopped(t)
  <2>1. stopped \in [Timers -> TimerRec] /\ stopped[k] = timer[k]
    BY <1>1, StoppedType
  <2>2. \A j \in Timers : \/ stopped[j] = timer[j]
                          \/ stopped[j] = IdleTimer /\ timer[j].ticket = t
    BY StoppedBare
  <2>3. timer' = [stopped EXCEPT ![k] = IF NeedsTimer(timer[k].seen)
                                          THEN [stopped[k] EXCEPT !.pc = "arm"] ELSE IdleTimer]
    BY DEF RescheduleStop
  <2> HIDE DEF stopped
  <2> QED BY <2>1, <2>2, <2>3
<1>4. timer[k] \in TimerRec /\ IdleTimer.pc = "idle"
  BY DEF TypeInv, TypeOK, IdleTimer
<1>5. timer'[k].pc \in {"idle", "arm"} /\ (timer'[k].pc # "idle" => timer'[k].ticket = t)
  BY <1>3, <1>4 DEF TimerRec
<1>6. ASSUME t \notin disturbed'
      PROVE  /\ \A h \in Handlers : ~HandledBy(h, t)'
             /\ \A j \in Timers \ {k} : ~FiredFor(j, t)'
             /\ \A j \in Timers : ArmedFor(j, t)' => timers'[t] = j
             /\ FiredFor(k, t)' /\ TimerStage(k)'
  <2>1. Bare(t) /\ row[t].status = timer[k].seen /\ row[t].status \in Pending
    BY <1>1, <1>2, <1>6 DEF TimerStage
  <2>2. timer'[k] = [timer[k] EXCEPT !.pc = "arm"]
    BY <1>3, <2>1 DEF NeedsTimer
  <2>3. timer'[k].pc = "arm" /\ timer'[k].ticket = t /\ timer'[k].seen = timer[k].seen
    BY <1>4, <2>2 DEF TimerRec
  <2>4. Bare(t)'
    BY <1>3, <1>4, <2>1, <2>3 DEF Bare, ArmedFor
  <2>5. TimerStage(k)'
    BY <1>1, <2>1, <2>3, <2>4 DEF TimerStage
  <2>6. \A h \in Handlers : ~HandledBy(h, t)'
    BY <1>1, <1>2, <1>6 DEF HandledBy
  <2>7. \A j \in Timers \ {k} : ~FiredFor(j, t)'
    BY <1>1, <1>2, <1>3, <1>4, <1>6 DEF FiredFor
  <2> QED BY <2>3, <2>4, <2>5, <2>6, <2>7 DEF FiredFor, Bare
<1>7. Orderly(t)'
  BY <1>6, TimerOrderly
<1>8. MapSoundAt(t)'
  BY <1>1, UnmappedAt DEF MapSoundAt
<1>9. \A j \in Timers : timer'[j] = timer[j] \/ (TimerAbout(j, t) /\ TimerAbout(j, t)')
  BY <1>3, <1>4, <1>5 DEF TimerAbout
<1>10. \A u \in Tickets \ {t} : timers'[u] = timers[u]
  BY <1>1, UnmappedAt
<1> QED BY <1>1, <1>2, <1>7, <1>8, <1>9, <1>10, Local

LEMMA TimerRearms ==
  ASSUME SchedulerInv, TypeInv, NEW k \in Timers, RescheduleArm(k)
  PROVE  SchedulerInv'
<1> PICK t \in Tickets : timer[k].ticket = t
  BY DEF TypeInv, Assigned, RescheduleArm
<1>1. timer[k].pc = "arm" /\ row' = row /\ req' = req /\ up' = up /\ disturbed' = disturbed
  BY DEF RescheduleArm
<1>2. /\ up
      /\ t \notin disturbed =>
           /\ \A h \in Handlers : ~HandledBy(h, t)
           /\ \A j \in Timers \ {k} : ~FiredFor(j, t)
           /\ Bare(t)
           /\ TimerStage(k)
  BY <1>1, TimerAlone
<1> DEFINE objects == [timer EXCEPT ![k] = IdleTimer]
<1>3. /\ objects \in [Timers -> TimerRec] /\ objects[k].pc = "idle"
      /\ \A j \in Timers \ {k} : objects[j] = timer[j]
  BY IdleRecords DEF TypeInv, TypeOK, IdleTimer
<1>4. ArmIn(objects, t, TargetOf(timer[k].seen))
  BY DEF RescheduleArm
<1> HIDE DEF objects
<1>5. PICK i \in Timers :
        /\ objects[i].pc = "idle"
        /\ timer'[i] = NewTimer(t, TargetOf(timer[k].seen))
        /\ \A j \in Timers \ {i} : timer'[j] = objects[j]
        /\ timers'[t] = i
        /\ \A u \in Tickets \ {t} : timers'[u] = timers[u]
  BY <1>3, <1>4, ArmedOne, TargetType
<1>6. /\ timer'[i].pc = "armed" /\ timer'[i].ticket = t
      /\ timer'[i].target = TargetOf(timer[k].seen)
  BY <1>5 DEF NewTimer
<1>7. ASSUME t \notin disturbed'
      PROVE  /\ \A h \in Handlers : ~HandledBy(h, t)'
             /\ \A j \in Timers : ~FiredFor(j, t)'
             /\ \A j \in Timers : ArmedFor(j, t)' => timers'[t] = j
             /\ Scheduled(t)'
  <2>1. Bare(t) /\ row[t].status = timer[k].seen /\ row[t].status \in Pending
    BY <1>1, <1>2, <1>7 DEF TimerStage
  <2>2. \A j \in Timers \ {i} : timer'[j] = timer[j] \/ timer'[j].pc = "idle"
    BY <1>3, <1>5
  <2>3. \A j \in Timers : ArmedFor(j, t)' <=> j = i
    BY <1>6, <2>1, <2>2 DEF ArmedFor, Bare
  <2>4. Scheduled(t)'
    BY <1>1, <1>6, <2>1, <2>3 DEF Scheduled
  <2>5. \A h \in Handlers : ~HandledBy(h, t)'
    BY <1>1, <1>2, <1>7 DEF HandledBy
  <2>6. \A j \in Timers : ~FiredFor(j, t)'
    <3>1. timer'[k].pc \in {"idle", "armed"}
      BY <1>3, <1>5, <1>6
    <3> QED BY <1>1, <1>2, <1>6, <1>7, <2>2, <3>1 DEF FiredFor
  <2> QED BY <1>5, <2>3, <2>4, <2>5, <2>6
<1>8. Orderly(t)'
  BY <1>7, TimerOrderly
<1>9. MapSoundAt(t)'
  BY <1>5, <1>6 DEF MapSoundAt
<1>10. \A j \in Timers : timer'[j] = timer[j] \/ (TimerAbout(j, t) /\ TimerAbout(j, t)')
  BY <1>3, <1>5, <1>6 DEF TimerAbout
<1> QED BY <1>1, <1>2, <1>5, <1>8, <1>9, <1>10, Local

LEMMA TimerElapses ==
  ASSUME SchedulerInv, TypeInv, PromiseInv, NEW k \in Timers, Elapse(k)
  PROVE  SchedulerInv'
<1>1. CASE Fire(k) \/ RescheduleStop(k) \/ RescheduleArm(k)
  BY <1>1, TimerFires, TimerReschedules, TimerRearms
<1> SUFFICES ASSUME \/ ForgetTimer(k) \/ SystemUpdate(k) \/ SystemUpdateFails(k)
                    \/ SystemReread(k) \/ SystemRereadFails(k) \/ Notify(k)
             PROVE  SchedulerInv'
  BY <1>1 DEF Elapse
<1>2. timer[k].pc \in {"fired", "update", "reread", "notify"}
  BY DEF ForgetTimer, SystemUpdate, SystemUpdateFails, SystemReread, SystemRereadFails, Notify
<1> PICK t \in Tickets : timer[k].ticket = t
  BY <1>2 DEF TypeInv, Assigned
<1>3. /\ timer \in [Timers -> TimerRec] /\ timer[k].target \in {"active", "expired"}
      /\ timer[k].target \in Statuses
      /\ {"update", "reread", "stop"} \subseteq TimerPCs
  BY DEF TypeInv, TypeOK, TimerRec, Targets, Statuses, TimerPCs
<1>4. CASE ForgetTimer(k)
  <2>1. /\ timers' = Unmapped(t) /\ Step(k, "update") /\ timer[k].pc = "fired"
        /\ row' = row /\ req' = req /\ up' = up /\ disturbed' = disturbed
    BY <1>4 DEF ForgetTimer
  <2>2. /\ timer'[k].pc = "update" /\ timer'[k].ticket = t /\ timer'[k].target = timer[k].target
        /\ \A j \in Timers \ {k} : timer'[j] = timer[j]
    BY <1>3, <2>1, StepTimer
  <2>3. TimerStage(k) /\ Bare(t)' => TimerStage(k)'
    BY <2>1, <2>2 DEF TimerStage
  <2> QED BY <1>2, <2>1, <2>2, <2>3, GoroutineOnly
<1>5. CASE SystemUpdate(k)
  <2>1. /\ timers' = timers /\ req' = req /\ up' = up /\ disturbed' = disturbed
        /\ timer[k].pc = "update"
    BY <1>5 DEF SystemUpdate
  <2>2. TimerStage(k) => row[t].status # timer[k].target
    BY <2>1 DEF TimerStage, Pending, TargetOf
  <2>3. CASE row[t].status = timer[k].target
    <3>1. row' = row /\ End(k)
      BY <1>5, <2>3 DEF SystemUpdate, store
    <3>2. timer'[k].pc = "idle" /\ \A j \in Timers \ {k} : timer'[j] = timer[j]
      BY <1>3, <3>1, EndTimer
    <3> QED BY <1>2, <2>1, <2>2, <2>3, <3>1, <3>2, GoroutineOnly
  <2>4. CASE row[t].status # timer[k].target
    <3>1. Step(k, "reread") /\ Becomes(t, timer[k].target)
      BY <1>5, <2>4 DEF SystemUpdate
    <3>2. /\ timer'[k].pc = "reread" /\ timer'[k].ticket = t /\ timer'[k].target = timer[k].target
          /\ \A j \in Timers \ {k} : timer'[j] = timer[j]
      BY <1>3, <3>1, StepTimer
    <3>3. row'[t].status = timer[k].target /\ \A u \in Tickets \ {t} : row'[u] = row[u]
      BY <1>3, <3>1, BecomesRow DEF TypeInv
    <3>4. Bare(t)' => TimerStage(k)'
      BY <3>2, <3>3 DEF TimerStage
    <3> QED BY <1>2, <2>1, <3>2, <3>3, <3>4, GoroutineOnly
  <2> QED BY <2>3, <2>4
<1>6. CASE SystemUpdateFails(k)
  <2>1. /\ timers' = timers /\ req' = req /\ up' = up /\ disturbed \subseteq disturbed'
        /\ timer[k].pc = "update"
    BY <1>6 DEF SystemUpdateFails, DBError
  <2>2. timer'[k].pc = "idle" /\ \A j \in Timers \ {k} : timer'[j] = timer[j]
    BY <1>3, <1>6, EndTimer DEF SystemUpdateFails
  <2>3. CASE UNCHANGED store /\ DBError(t, TRUE)
    <3>1. row' = row /\ t \in disturbed'
      BY <2>3 DEF store, DBError
    <3> QED BY <1>2, <2>1, <2>2, <3>1, GoroutineOnly
  <2>4. CASE Becomes(t, timer[k].target) /\ DBError(t, timer[k].target = "active")
    <3>1. row'[t].status = timer[k].target /\ \A u \in Tickets \ {t} : row'[u] = row[u]
      BY <1>3, <2>4, BecomesRow DEF TypeInv
    <3>2. timer[k].target = "active" => t \in disturbed'
      BY <2>4 DEF DBError
    <3>3. t \notin disturbed' => row'[t].status \notin Pending
      BY <1>3, <3>1, <3>2 DEF Pending
    <3> QED BY <1>2, <2>1, <2>2, <3>1, <3>3, GoroutineOnly
  <2> QED BY <1>6, <2>3, <2>4 DEF SystemUpdateFails
<1>7. CASE SystemReread(k)
  <2>1. /\ timers' = timers /\ req' = req /\ up' = up /\ disturbed' = disturbed /\ row' = row
        /\ timer[k].pc = "reread"
        /\ \A j \in Timers \ {k} : timer'[j] = timer[j]
    BY <1>3, <1>7 DEF SystemReread
  <2>2. /\ timer'[k].pc = "notify" /\ timer'[k].ticket = t /\ timer'[k].target = timer[k].target
        /\ timer'[k].seen = row[t].status
    BY <1>3, <1>7 DEF SystemReread, TimerRec
  <2>3. TimerStage(k) /\ Bare(t)' => TimerStage(k)'
    BY <2>1, <2>2 DEF TimerStage
  <2> QED BY <1>2, <2>1, <2>2, <2>3, GoroutineOnly
<1>8. CASE SystemRereadFails(k)
  <2>1. /\ timers' = timers /\ req' = req /\ up' = up /\ disturbed \subseteq disturbed' /\ row' = row
        /\ timer[k].pc = "reread"
        /\ timer[k].target = "active" => t \in disturbed'
    BY <1>8 DEF SystemRereadFails, DBError
  <2>2. timer'[k].pc = "idle" /\ \A j \in Timers \ {k} : timer'[j] = timer[j]
    BY <1>3, <1>8, EndTimer DEF SystemRereadFails
  <2>3. t \notin disturbed' /\ TimerStage(k) => row'[t].status \notin Pending
    BY <1>3, <2>1 DEF TimerStage, Pending
  <2> QED BY <1>2, <2>1, <2>2, <2>3, GoroutineOnly
<1>9. CASE Notify(k)
  <2>1. /\ timers' = timers /\ req' = req /\ up' = up /\ disturbed' = disturbed /\ row' = row
        /\ timer[k].pc = "notify"
        /\ IF timer[k].target = "active" THEN Step(k, "stop") ELSE End(k)
    BY <1>9 DEF Notify
  <2>2. /\ \A j \in Timers \ {k} : timer'[j] = timer[j]
        /\ timer[k].target = "active" =>
             /\ timer'[k].pc = "stop" /\ timer'[k].ticket = t /\ timer'[k].seen = timer[k].seen
        /\ timer[k].target = "expired" => timer'[k].pc = "idle"
    BY <1>3, <2>1, StepTimer, EndTimer
  <2>3. TimerStage(k) /\ Bare(t)' =>
          /\ timer'[k].pc # "idle" => TimerStage(k)'
          /\ timer'[k].pc = "idle" => row'[t].status \notin Pending
    BY <1>3, <2>1, <2>2 DEF TimerStage, Pending
  <2>4. timer'[k].pc # "armed" /\ (timer'[k].pc = "idle" \/ timer'[k].ticket = t)
    BY <1>3, <2>2
  <2> QED BY <1>2, <2>1, <2>2, <2>3, <2>4, GoroutineOnly
<1> QED BY <1>4, <1>5, <1>6, <1>7, <1>8, <1>9

(***************************************************************************)
(* Crashes and restarts.                                                   *)
(***************************************************************************)
LEMMA SchedulerRestarts ==
  ASSUME SchedulerInv, TypeInv, Restart
  PROVE  SchedulerInv'
<1>1. /\ up' /\ row' = row
      /\ \A h \in Handlers : req'[h] = IdleReq
      /\ \A h \in Handlers, t \in Tickets : ~HandledBy(h, t)'
  BY DEF Restart, SchedulerInv, Down, HandledBy, IdleReq
<1>2. PICK slot \in [PendingTickets -> Timers] :
        /\ \A s, t \in PendingTickets : slot[s] = slot[t] => s = t
        /\ timers' = [t \in Tickets |-> IF t \in PendingTickets THEN slot[t] ELSE NoTimer]
        /\ timer' = [k \in Timers |->
                       IF \E t \in PendingTickets : slot[t] = k
                         THEN LET t == CHOOSE u \in PendingTickets : slot[u] = k
                              IN NewTimer(t, TargetOf(row[t].status))
                         ELSE IdleTimer]
  BY DEF Restart
<1>3. ASSUME NEW t \in PendingTickets
      PROVE  timer'[slot[t]] = NewTimer(t, TargetOf(row[t].status))
  <2> DEFINE u == CHOOSE u \in PendingTickets : slot[u] = slot[t]
  <2>1. u \in PendingTickets /\ slot[u] = slot[t]
    OBVIOUS
  <2>2. u = t
    BY <1>2, <2>1
  <2>3. timer'[slot[t]] = NewTimer(u, TargetOf(row[u].status))
    BY <1>2
  <2> HIDE DEF u
  <2> QED BY <2>2, <2>3
<1>4. ASSUME NEW k \in Timers, timer'[k] # IdleTimer
      PROVE  \E t \in PendingTickets : k = slot[t]
  BY <1>2, <1>4
<1>5. PendingTickets = {t \in Tickets : row[t].status \in Pending}
  BY DEF PendingTickets
<1>6. ASSUME NEW t \in Tickets PROVE MapSoundAt(t)' /\ Orderly(t)'
  <2>1. MapSoundAt(t)'
    BY <1>2, <1>3 DEF MapSoundAt, NewTimer
  <2>2. ASSUME NEW k \in Timers
        PROVE  /\ ~FiredFor(k, t)'
               /\ ArmedFor(k, t)' => /\ t \in PendingTickets /\ timers'[t] = k
                                     /\ timer'[k].target = TargetOf(row[t].status)
    <3>1. CASE timer'[k] = IdleTimer
      BY <3>1 DEF FiredFor, ArmedFor, IdleTimer
    <3>2. CASE timer'[k] # IdleTimer
      <4>1. PICK u \in PendingTickets : k = slot[u]
        BY <1>4, <3>2
      <4>2. timer'[k] = NewTimer(u, TargetOf(row[u].status))
        BY <1>3, <4>1
      <4> QED BY <1>2, <4>1, <4>2 DEF FiredFor, ArmedFor, NewTimer
    <3> QED BY <3>1, <3>2
  <2>3. t \in PendingTickets => ArmedFor(slot[t], t)' /\ slot[t] \in Timers
    BY <1>2, <1>3 DEF ArmedFor, NewTimer
  <2>4. Scheduled(t)'
    BY <1>1, <1>5, <2>2, <2>3 DEF Scheduled
  <2> QED BY <1>1, <2>1, <2>2, <2>4 DEF Orderly, AloneOn
<1> QED BY <1>1, <1>6 DEF SchedulerInv, Down

LEMMA SchedulerSystem ==
  ASSUME SchedulerInv, TypeInv, Crash \/ Restart \/ RestartUnscheduled
  PROVE  SchedulerInv'
<1>1. CASE Crash
  <2>1. /\ ~up' /\ \A h \in Handlers : req'[h] = IdleReq
        /\ \A k \in Timers : timer'[k] = IdleTimer
        /\ \A t \in Tickets : timers'[t] = NoTimer
    BY <1>1 DEF Crash
  <2> QED BY <2>1 DEF SchedulerInv, Down, MapSoundAt, Orderly, AloneOn, HandledBy, FiredFor,
                      ArmedFor, IdleReq, IdleTimer
<1>2. CASE RestartUnscheduled
  <2>1. /\ up' /\ row' = row /\ disturbed' = PendingTickets
        /\ \A h \in Handlers : req'[h] = IdleReq
        /\ \A k \in Timers : timer'[k] = IdleTimer
        /\ \A t \in Tickets : timers'[t] = NoTimer
    BY <1>2 DEF RestartUnscheduled, SchedulerInv, Down
  <2>2. ASSUME NEW t \in Tickets PROVE MapSoundAt(t)' /\ Orderly(t)'
    <3>1. /\ \A h \in Handlers : ~HandledBy(h, t)'
          /\ \A k \in Timers : ~FiredFor(k, t)' /\ ~ArmedFor(k, t)'
      BY <2>1 DEF HandledBy, FiredFor, ArmedFor, IdleReq, IdleTimer
    <3>2. t \notin disturbed' => Scheduled(t)'
      BY <2>1, <3>1 DEF Scheduled, PendingTickets
    <3> QED BY <2>1, <3>1, <3>2 DEF MapSoundAt, Orderly, AloneOn
  <2> QED BY <2>1, <2>2 DEF SchedulerInv, Down
<1> QED BY <1>1, <1>2, SchedulerRestarts

LEMMA SchedulerStands ==
  ASSUME SchedulerInv, TypeInv, UNCHANGED <<row, timers, timer, req, up, disturbed>>
  PROVE  SchedulerInv'
<1>1. \A t \in Tickets : MapSoundAt(t)' /\ Orderly(t)'
  BY OtherTickets
<1> QED BY <1>1 DEF SchedulerInv, Down

LEMMA SchedulerInit == Init => SchedulerInv
<1> SUFFICES ASSUME Init PROVE SchedulerInv
  OBVIOUS
<1>1. /\ up /\ \A h \in Handlers : req[h] = IdleReq
      /\ \A k \in Timers : timer[k] = IdleTimer
      /\ \A t \in Tickets : timers[t] = NoTimer /\ row[t].status = Absent
  BY DEF Init
<1>2. \A t \in Tickets : Scheduled(t)
  BY <1>1 DEF Scheduled, ArmedFor, IdleTimer, Pending, Absent
<1> QED BY <1>1, <1>2 DEF SchedulerInv, Down, MapSoundAt, Orderly, AloneOn, HandledBy, FiredFor,
                          ArmedFor, IdleReq, IdleTimer

LEMMA SchedulerNext ==
  SchedulerInv /\ TypeInv /\ PromiseInv /\ [Next]_vars => SchedulerInv'
<1> SUFFICES ASSUME SchedulerInv, TypeInv, PromiseInv, [Next]_vars PROVE SchedulerInv'
  OBVIOUS
<1>1. CASE UNCHANGED vars \/ Tick
  BY <1>1, SchedulerStands DEF vars, Tick
<1> QED BY <1>1, RequestArrives, RequestProceeds, TimerElapses, SchedulerSystem DEF Next

LEMMA SchedulerInvariant == Spec => [](TypeInv /\ PromiseInv /\ SchedulerInv)
<1>1. Init => TypeInv /\ PromiseInv /\ SchedulerInv
  BY TypeInit, PromiseInvInit, SchedulerInit
<1>2. (TypeInv /\ PromiseInv /\ SchedulerInv) /\ [Next]_vars
        => (TypeInv /\ PromiseInv /\ SchedulerInv)'
  BY TypeNext, PromiseStep, SchedulerNext
<1> QED BY <1>1, <1>2, PTL DEF Spec

(***************************************************************************)
(* The theorems.                                                           *)
(***************************************************************************)
\* An entry of the map is a live timer of its ticket; an armed timer Cancel
\* cannot reach is the trace of two operations that overlapped.
THEOREM MapMatches == Spec => []MapMatchesTimers
<1>1. TypeInv /\ SchedulerInv => MapMatchesTimers
  <2> SUFFICES ASSUME TypeInv, SchedulerInv PROVE MapMatchesTimers
    OBVIOUS
  <2>1. \A t \in Tickets : timers[t] # NoTimer =>
          timer[timers[t]].ticket = t /\ timer[timers[t]].pc \in {"armed", "fired"}
    BY DEF SchedulerInv, MapSoundAt
  <2>2. ASSUME NEW k \in Timers, timer[k].pc = "armed"
        PROVE  timers[timer[k].ticket] = k \/ timer[k].ticket \in disturbed
    BY <2>2 DEF TypeInv, Assigned, SchedulerInv, Orderly, ArmedFor
  <2> QED BY <2>1, <2>2 DEF MapMatchesTimers
<1> QED BY <1>1, SchedulerInvariant, PTL

\* While nothing is under way on it, a ticket no operations overlapped on
\* has the one timer its status calls for.
THEOREM QuietScheduled == Spec => []QuietTicketsScheduled
<1>1. SchedulerInv => QuietTicketsScheduled
  <2> SUFFICES ASSUME SchedulerInv, up, NEW t \in Tickets, t \notin disturbed, ~Busy(t)
               PROVE  {timer[k].target : k \in {j \in Timers : ArmedFor(j, t)}} =
                        IF NeedsTimer(row[t].status) THEN {TargetOf(row[t].status)} ELSE {}
    BY DEF QuietTicketsScheduled
  <2>1. Scheduled(t)
    BY DEF SchedulerInv, Orderly
  <2>2. CASE row[t].status \in Pending
    <3>1. PICK k \in Timers : ArmedFor(k, t)
      BY <2>1, <2>2 DEF Scheduled
    <3>2. \A j \in Timers : ArmedFor(j, t) => timer[j].target = TargetOf(row[t].status)
      BY <2>1 DEF Scheduled
    <3> QED BY <2>2, <3>1, <3>2 DEF NeedsTimer
  <2>3. CASE row[t].status \notin Pending
    BY <2>1, <2>3 DEF Scheduled, NeedsTimer
  <2> QED BY <2>2, <2>3
<1> QED BY <1>1, SchedulerInvariant, PTL

\* A ticket no operations overlapped on changes along the lifecycle, although
\* the UPDATE statements do not look at what they replace.
THEOREM LifecycleKept == Spec => UndisturbedLifecycle
<1> DEFINE Lawful(t) ==
      t \notin disturbed' /\ row'[t].status # row[t].status =>
        LifecycleStep(row[t].status, row'[t].status)
<1>1. ASSUME TypeInv, PromiseInv, SchedulerInv, [Next]_vars, NEW t \in Tickets,
             t \notin disturbed', row'[t].status # row[t].status
      PROVE  LifecycleStep(row[t].status, row'[t].status)
  <2>1. ASSUME NEW h \in Handlers, NEW u \in Tickets, NEW p \in Requested,
               CreateTicket(h, u, p) \/ CreateTicketFails(h, u, p)
        PROVE  LifecycleStep(row[t].status, row'[t].status)
    <3>1. Insert(u, p) /\ row[u].status = Absent /\ TypeOK
      BY <1>1, <2>1 DEF CreateTicket, CreateTicketFails, TypeInv
    <3>2. /\ row'[u] = [status |-> "requested", start |-> p.start, end |-> p.end]
          /\ \A v \in Tickets \ {u} : row'[v] = row[v]
      BY <3>1, InsertRow
    <3>3. t = u /\ row'[t].status = "requested"
      BY <1>1, <3>2
    <3> QED BY <3>1, <3>3 DEF LifecycleStep
  <2>2. ASSUME NEW h \in Handlers, WriteStatus(h) \/ WriteStatusFails(h)
        PROVE  LifecycleStep(row[t].status, row'[t].status)
    <3>1. req[h].pc = "write" /\ disturbed \subseteq disturbed'
      BY <2>2 DEF WriteStatus, WriteStatusFails, DBError
    <3>2. PICK u \in Tickets : u = req[h].ticket
      BY <1>1, <3>1, HandlerAlone
    <3>3. Becomes(u, req[h].op)
      BY <1>1, <2>2, <3>2 DEF WriteStatus, WriteStatusFails, store
    <3>4. req[h].op \in Statuses
      BY <1>1 DEF TypeInv, TypeOK, ReqRec, Ops, Statuses
    <3>5. row'[u].status = req[h].op /\ \A v \in Tickets \ {u} : row'[v] = row[v]
      BY <1>1, <3>3, <3>4, BecomesRow DEF TypeInv
    <3>6. t = u
      BY <1>1, <3>5
    <3>7. ReqStage(h)
      BY <1>1, <3>1, <3>2, <3>6, HandlerAlone
    <3> QED BY <3>1, <3>2, <3>5, <3>6, <3>7 DEF ReqStage, LifecycleStep
  <2>3. ASSUME NEW k \in Timers, SystemUpdate(k) \/ SystemUpdateFails(k)
        PROVE  LifecycleStep(row[t].status, row'[t].status)
    <3>1. timer[k].pc = "update" /\ disturbed \subseteq disturbed'
      BY <2>3 DEF SystemUpdate, SystemUpdateFails, DBError
    <3>2. PICK u \in Tickets : u = timer[k].ticket
      BY <1>1, <3>1, TimerAlone
    <3>3. Becomes(u, timer[k].target)
      BY <1>1, <2>3, <3>2 DEF SystemUpdate, SystemUpdateFails, store
    <3>4. timer[k].target \in Statuses
      BY <1>1 DEF TypeInv, TypeOK, TimerRec, Targets, Statuses
    <3>5. row'[u].status = timer[k].target /\ \A v \in Tickets \ {u} : row'[v] = row[v]
      BY <1>1, <3>3, <3>4, BecomesRow DEF TypeInv
    <3>6. t = u
      BY <1>1, <3>5
    <3>7. TimerStage(k)
      BY <1>1, <3>1, <3>2, <3>6, TimerAlone
    <3>8. row[t].status \in Pending /\ row'[t].status = TargetOf(row[t].status)
      BY <3>1, <3>2, <3>5, <3>6, <3>7 DEF TimerStage
    <3> QED BY <3>8 DEF LifecycleStep, TargetOf, Pending, IsValidTransition, ValidTransitions
  <2>4. row' # row
    BY <1>1
  <2> QED BY <1>1, <2>1, <2>2, <2>3, <2>4
          DEF Next, vars, Tick, Crash, Restart, RestartUnscheduled, Arrive, Proceed, Elapse,
              CancelTicket, AdminUpdateStatus, ReadStatus, ReadStatusFails, Reread, RereadFails,
              ScheduleStop, ScheduleArm, CancelTimer, Respond, Fire, ForgetTimer, SystemReread,
              SystemRereadFails, Notify, RescheduleStop, RescheduleArm
<1>2. TypeInv /\ PromiseInv /\ SchedulerInv /\ [Next]_vars =>
        [\A t \in Tickets : Lawful(t)]_vars
  BY <1>1
<1> QED BY <1>2, SchedulerInvariant, PTL DEF Spec, UndisturbedLifecycle
================================================================================
