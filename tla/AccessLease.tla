------------------------------ MODULE AccessLease ------------------------------
(***************************************************************************)
(* What KNOX and its workflow promise together about temporary access,     *)
(* whatever webhooks are lost or overtake one another.  On top of what     *)
(* TicketPromise says of the tickets:                                      *)
(*   - a role is given only under a ticket for it that was approved and    *)
(*     activated, once its period has begun;                               *)
(*   - a role is taken away only under a ticket for it that has expired,   *)
(*     once its period is over;                                            *)
(*   - a session carries only roles its user held when signing on.         *)
(* That a role is given, or taken away, at all is NOT promised, nor that   *)
(* it is taken away under the ticket it was given under.                   *)
(***************************************************************************)
EXTENDS TicketPromise

CONSTANTS
  Roles,   \* what a ticket can be for
  RoleOf   \* ticket -> role

VARIABLES
  roles,   \* the roles the user holds
  access   \* the roles some session of the user carries

lvars == <<pvars, roles, access>>

For(r) == {t \in Tickets : RoleOf[t] = r}

LeaseInit == PromiseInit /\ roles = {} /\ access = {}

Give(r) ==
  /\ \E t \in For(r) : {"approved", "active"} \subseteq been[t] /\ now >= row[t].start
  /\ roles' = roles \cup {r}
  /\ UNCHANGED <<pvars, access>>

Take(r) ==
  /\ \E t \in For(r) : "expired" \in been[t] /\ now >= row[t].end
  /\ roles' = roles \ {r}
  /\ UNCHANGED <<pvars, access>>

Enter == access' = access \cup roles /\ UNCHANGED <<pvars, roles>>
Leave == access' \in SUBSET access /\ UNCHANGED <<pvars, roles>>

LeaseNext ==
  \/ PromiseNext /\ UNCHANGED <<roles, access>>
  \/ \E r \in Roles : Give(r) \/ Take(r)
  \/ Enter \/ Leave

LeaseSpec == LeaseInit /\ [][LeaseNext]_lvars
================================================================================
