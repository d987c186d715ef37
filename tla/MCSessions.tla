------------------------------- MODULE MCSessions ------------------------------
(* Model checking Sessions. *)
EXTENDS Sessions

\* Users never press "log out": their sessions end by expiry or by Keycloak.
StayingUsers == Init /\ [][Next /\ ~\E b \in Browsers : Logout(b)]_vars

\* Symmetry by hand, where a liveness property rules SYMMETRY out: names are
\* numbers, and of those nothing holds the least is taken next.
LeastNames ==
  /\ \A i, j \in Ids : i < j /\ ~Stored(j) /\ Stored(j)' => ~Fresh(i)
  /\ \A r, s \in Sids : r < s /\ kc[s] = "new" /\ kc'[s] = "live" => kc[r] # "new"
  /\ \A f, g \in Flows : f < g /\ flow[g].pc = "idle" /\ flow'[g].pc = "login" =>
       flow[f].pc # "idle" \/ states[f] # NoState

NumberedSpec == Init /\ [][Next /\ LeastNames]_vars /\ Fairness
================================================================================
