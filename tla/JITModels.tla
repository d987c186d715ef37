------------------------------- MODULE JITModels -------------------------------
(***************************************************************************)
(* The status vocabulary of JIT tickets (knox-proxy/jit/models.go) and the *)
(* part of request validation that decides which access periods a ticket   *)
(* may carry (knox-proxy/jit/handler.go, validateCreateRequest).           *)
(***************************************************************************)
EXTENDS Naturals

CONSTANTS
  MaxTime,      \* last instant of the modelled time line
  MaxDuration   \* JIT_MAX_DURATION_DAYS, in instants

ASSUME TimeAssumption == MaxTime \in Nat \ {0} /\ MaxDuration \in Nat

Statuses ==
  {"requested", "approved", "active", "expired", "rejected", "revoked", "canceled"}

\* A row that has not been inserted yet.
Absent == "absent"

Pending == {"requested", "approved", "active"}
Final   == Statuses \ Pending

ValidTransitions ==
  [requested |-> {"approved", "rejected", "canceled"},
   approved  |-> {"active", "revoked"},
   active    |-> {"revoked", "expired"}]

IsValidTransition(from, to) ==
  from \in DOMAIN ValidTransitions /\ to \in ValidTransitions[from]

\* Instants.  ZeroTime stands for Go's time.Time{}, the year-1 instant an
\* RFC 3339 string can spell and for which IsZero() holds; the clock starts
\* after it.
ZeroTime == 0
Instants == ZeroTime .. MaxTime

\* What validateCreateRequest asks of a period: it compares the two ends
\* only when neither of them is the zero time.  Nothing compares them with
\* the clock, so a period may lie in the past.
PeriodAccepted(p) ==
  p.start # ZeroTime /\ p.end # ZeroTime =>
    p.start < p.end /\ p.end - p.start <= MaxDuration
================================================================================
