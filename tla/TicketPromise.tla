----------------------------- MODULE TicketPromise -----------------------------
(***************************************************************************)
(* What the JIT ticketing subsystem promises about a ticket row whatever   *)
(* races, database errors and restarts it goes through.  A consumer of the *)
(* table (the approval workflow, the user interface) may rely on this and  *)
(* on no more:                                                             *)
(*   - a row is inserted once, as "requested", and keeps its period;       *)
(*   - a row is never "requested" again once it has left that status;      *)
(*   - "active" is written only to a ticket some administrator approved,   *)
(*     and only from its period's start on;                                *)
(*   - "expired" is written only from its period's end on;                 *)
(*   - "revoked" is written only to a ticket that was approved.            *)
(* The order the statuses follow each other in is NOT promised: see        *)
(* TerminalIsFinal in JITTickets.                                          *)
(***************************************************************************)
EXTENDS JITModels

CONSTANT Tickets

VARIABLES
  now,   \* the wall clock
  row,   \* the jit_tickets table: ticket -> [status, start, end]
  been   \* ticket -> the statuses its row has held so far

pvars == <<now, row, been>>

PromiseInit ==
  /\ now = ZeroTime + 1
  /\ row = [t \in Tickets |-> [status |-> Absent, start |-> ZeroTime, end |-> ZeroTime]]
  /\ been = [t \in Tickets |-> {}]

\* Write status s to ticket t and remember it.
Becomes(t, s) ==
  /\ row' = [row EXCEPT ![t].status = s]
  /\ been' = [been EXCEPT ![t] = @ \cup {s}]
  /\ UNCHANGED now

Submit(t, p) ==
  /\ row[t].status = Absent
  /\ PeriodAccepted(p)
  /\ row' = [row EXCEPT ![t] = [status |-> "requested", start |-> p.start, end |-> p.end]]
  /\ been' = [been EXCEPT ![t] = {"requested"}]
  /\ UNCHANGED now

Decide(t) ==
  /\ "requested" \in been[t]
  /\ \E s \in {"approved", "rejected", "canceled"} : Becomes(t, s)

Revoke(t) ==
  /\ "approved" \in been[t]
  /\ Becomes(t, "revoked")

Activate(t) ==
  /\ "approved" \in been[t]
  /\ now >= row[t].start
  /\ Becomes(t, "active")

Expire(t) ==
  /\ "requested" \in been[t]
  /\ now >= row[t].end
  /\ Becomes(t, "expired")

TimePasses ==
  /\ now' > now
  /\ UNCHANGED <<row, been>>

PromiseNext ==
  \/ TimePasses
  \/ \E t \in Tickets :
       \/ \E p \in [start : Instants, end : Instants] : Submit(t, p)
       \/ Decide(t)
       \/ Revoke(t)
       \/ Activate(t)
       \/ Expire(t)

PromiseSpec == PromiseInit /\ [][PromiseNext]_pvars
================================================================================
