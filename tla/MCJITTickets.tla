----------------------------- MODULE MCJITTickets ------------------------------
(* Model checking JITTickets: symmetry, and the end of a bounded behaviour. *)
EXTENDS JITTickets, TLC

\* Handler goroutines and timer objects are interchangeable.
Slots == Permutations(Handlers) \cup Permutations(Timers)
SlotsAndTickets == Slots \cup Permutations(Tickets)

\* A period that has started when it is asked for, and one that has not.
TwoPeriods == {[start |-> 1, end |-> 2], [start |-> 2, end |-> 3]}
\* Also: one long over; one without a start, unbounded; one without an end.
AllKinds ==
  TwoPeriods \cup {[start |-> ZeroTime, end |-> 1], [start |-> ZeroTime, end |-> 3],
                   [start |-> 2, end |-> ZeroTime]}

OnePeriod == {[start |-> 1, end |-> 2]}

\* The clock has reached its bound and nothing is in flight: a behaviour may
\* stop here and nowhere else, so that TLC's deadlock check finds a request
\* or a goroutine that is stuck, for want of a timer slot for instance.
Finished ==
  /\ now = MaxTime /\ up
  /\ \A t \in Tickets : ~Busy(t)
  /\ \A k \in Timers : timer[k].pc = "idle"
  /\ UNCHANGED vars

MCSpec == Init /\ [][Next \/ Finished]_vars
================================================================================
