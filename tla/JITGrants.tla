------------------------------- MODULE JITGrants -------------------------------
(***************************************************************************)
(* What a ticket is for: JITTickets with the webhooks it sends, the n8n    *)
(* workflow that hears them (docs/n8n-jit-workflow-v2.json), the Keycloak  *)
(* roles that workflow assigns and removes, and the KNOX sessions that     *)
(* carry them.  All tickets are one user's; users do not touch each other. *)
(*                                                                         *)
(* A webhook is sent once.  n8n answers as soon as it has it and runs the  *)
(* workflow by the side, so two of them overtake one another at will, and  *)
(* an execution that fails is not repeated.  Of the six statuses the       *)
(* workflow listens to, only "active" and "expired" lead to Keycloak;      *)
(* "revoked" is not among the six.                                         *)
(***************************************************************************)
EXTENDS JITTickets

CONSTANTS
  Roles,      \* Keycloak client roles
  RoleOf,     \* access_type:workflow_id of a ticket; several may share one
  MaxLosses   \* bound: webhooks and executions that fail

ASSUME GrantsAssumption ==
  /\ RoleOf \in [Tickets -> Roles]
  /\ MaxLosses \in Nat

VARIABLES
  hooks,    \* webhooks on their way, until the role has been changed
  ending,   \* executions that have yet to reach "Logout User"
  roles,    \* Keycloak: the roles the user holds
  access,   \* SessionManager: the roles some session of the user carries
  losses,   \* counter for the bound
  excused   \* history: roles a webhook of which was lost, cut off by an error
            \* or a crash, or met another one on the way; roles of disturbed
            \* tickets

workflow == <<hooks, ending, roles, access, losses, excused>>
gvars == <<vars, workflow>>

Hooks == [ticket : Tickets, status : Targets]
RoleFor(x) == RoleOf[x.ticket]

GrantsTypeOK ==
  /\ hooks \subseteq Hooks /\ ending \subseteq Hooks
  /\ roles \subseteq Roles /\ access \subseteq Roles
  /\ losses \in 0 .. MaxLosses
  /\ excused \subseteq Roles

GInit ==
  /\ Init
  /\ hooks = {} /\ ending = {} /\ roles = {} /\ access = {}
  /\ losses = 0 /\ excused = {}

(***************************************************************************)
(* KNOX: a step of JITTickets, and the webhook it sends.                   *)
(***************************************************************************)
\* Mutated: onTransition is called with the status that is to be written.
ToldBefore(x) ==
  \E k \in Timers :
    Fire(k) /\ x = [ticket |-> timer[k].ticket, status |-> timer[k].target]

\* Mutated: only activations are told.
ToldActive(x) ==
  \E k \in Timers :
    /\ Notify(k) /\ timer[k].target = "active"
    /\ x = [ticket |-> timer[k].ticket, status |-> timer[k].seen]

\* FireWebhook(ticket), with the ticket as it was read again after the write.
Told(x) ==
  \/ \E h \in Handlers :
       Respond(h) /\ x = [ticket |-> req[h].ticket, status |-> req[h].seen]
  \/ \E k \in Timers :
       Notify(k) /\ x = [ticket |-> timer[k].ticket, status |-> timer[k].seen]

New == {x \in Hooks : Told(x)}

Overtaking == {x \in New : \E y \in hooks : RoleFor(x) = RoleFor(y)}

\* A crash or a failing statement may swallow the webhook of what is under way.
CutOff ==
  IF crashes' # crashes \/ dbErrors' # dbErrors THEN {t \in Tickets : Busy(t)} ELSE {}

Knox(A) ==
  /\ A
  /\ hooks' = hooks \cup New
  /\ excused' = excused \cup {RoleFor(x) : x \in Overtaking}
                         \cup {RoleOf[t] : t \in CutOff \cup disturbed'}
  /\ UNCHANGED <<ending, roles, access, losses>>

(***************************************************************************)
(* The workflow.                                                           *)
(***************************************************************************)
\* Mutated: the role's name is put together from another field.
AssignByTicket(x) ==
  /\ x \in hooks /\ x.status = "active"
  /\ roles' = roles \cup {x.ticket}
  /\ hooks' = hooks \ {x} /\ ending' = ending \cup {x}
  /\ UNCHANGED <<vars, access, losses, excused>>

\* The role is created if need be and assigned to the user.
AssignRole(x) ==
  /\ x \in hooks /\ x.status = "active"
  /\ roles' = roles \cup {RoleFor(x)}
  /\ hooks' = hooks \ {x} /\ ending' = ending \cup {x}
  /\ UNCHANGED <<vars, access, losses, excused>>

\* Mutated: the branch for expired tickets goes to "Logout User" directly.
LogoutOnly(x) ==
  /\ x \in hooks /\ x.status = "expired"
  /\ hooks' = hooks \ {x} /\ ending' = ending \cup {x}
  /\ UNCHANGED <<vars, roles, access, losses, excused>>

RevokeRole(x) ==
  /\ x \in hooks /\ x.status = "expired"
  /\ roles' = roles \ {RoleFor(x)}
  /\ hooks' = hooks \ {x} /\ ending' = ending \cup {x}
  /\ UNCHANGED <<vars, access, losses, excused>>

\* Keycloak ends the user's sessions and notifies KNOX, whose index leads
\* to all of the user's sessions or not (see Sessions).
LogoutUser(x) ==
  /\ x \in ending
  /\ ending' = ending \ {x}
  /\ access' \in SUBSET access
  /\ UNCHANGED <<vars, hooks, roles, losses, excused>>

\* The webhook does not arrive, or a node of the workflow fails.
WebhookFails(x) ==
  /\ losses < MaxLosses
  /\ losses' = losses + 1
  /\ \/ /\ x \in hooks
        /\ hooks' = hooks \ {x} /\ excused' = excused \cup {RoleFor(x)}
        /\ UNCHANGED ending
     \/ /\ x \in ending
        /\ ending' = ending \ {x}
        /\ UNCHANGED <<hooks, excused>>
  /\ UNCHANGED <<vars, roles, access>>

(***************************************************************************)
(* Sessions.                                                               *)
(***************************************************************************)
\* Mutated: the new session takes its roles from the table of tickets.
SignOnByTable ==
  \E t \in Tickets :
    /\ row[t].status = "active" /\ RoleOf[t] \notin access
    /\ access' = access \cup {RoleOf[t]}
    /\ UNCHANGED <<vars, hooks, ending, roles, losses, excused>>

\* CallbackHandler copies the roles into the new session.
SignOn ==
  /\ roles \ access # {}
  /\ access' = access \cup roles
  /\ UNCHANGED <<vars, hooks, ending, roles, losses, excused>>

\* The last session that carries r ends: SESSION_MAX_AGE, if nothing else.
SessionEnds(r) ==
  /\ r \in access
  /\ \E rest \in SUBSET (access \ {r}) : access' = rest
  /\ UNCHANGED <<vars, hooks, ending, roles, losses, excused>>

Execute(x) == AssignRole(x) \/ RevokeRole(x) \/ LogoutUser(x)

GNext ==
  \/ Knox(Next)
  \/ \E x \in Hooks : Execute(x) \/ WebhookFails(x)
  \/ SignOn
  \/ \E r \in Roles : SessionEnds(r)

GSpec == GInit /\ [][GNext]_gvars

\* That of JITTickets; n8n goes on with what it has begun, and no session
\* lives for ever.
GFairness ==
  /\ WF_gvars(Knox(Tick))
  /\ WF_gvars(Knox(Restart \/ RestartUnscheduled))
  /\ \A h \in Handlers : WF_gvars(Knox(Proceed(h)))
  /\ \A k \in Timers : WF_gvars(Knox(Elapse(k)))
  /\ \A x \in Hooks : WF_gvars(Execute(x))
  /\ \A r \in Roles : WF_gvars(SessionEnds(r))

GFairSpec == GSpec /\ GFairness

(***************************************************************************)
(* Properties.                                                             *)
(***************************************************************************)
TicketsFor(r) == {t \in Tickets : RoleOf[t] = r}

\* The tickets that stand for a role: active, or revoked when they were, which
\* the workflow does not hear.
Holding(r) == {t \in TicketsFor(r) : "active" \in been[t] /\ row[t].status # "expired"}

\* A role is held, and a session carries it, only if a ticket for it was
\* approved and activated after its period had begun: whatever races, errors,
\* crashes, lost and overtaken webhooks there were (FireWebhook is called
\* behind every write, with a status that has been in the table).
AccessIsEarned ==
  \A r \in roles \cup access : \E t \in TicketsFor(r) :
    {"approved", "active"} \subseteq been[t] /\ now >= row[t].start

\* While nothing is under way, roles and tickets agree: the user holds a role
\* only if a ticket for it stands, and holds it if one does, unless another
\* ticket for it has expired, with which the workflow takes the role away from
\* both (n8n-jit-workflow-v2.json).  Roles whose webhooks were lost, cut off or
\* overtaken, or whose ticket was disturbed, may be off.
RolesMatchTickets ==
  up /\ hooks = {} /\ (\A t \in Tickets : ~Busy(t)) =>
    \A r \in Roles \ excused :
      /\ r \in roles => Holding(r) # {}
      /\ \A t \in Holding(r) :
           (\A u \in TicketsFor(r) \ {t} : "expired" \notin been[u]) => r \in roles

\* Whatever happens to the webhooks on their way (FireWebhook sends each once,
\* n8n runs them side by side), roles are given and taken away only as the
\* tickets justify, and sessions have them from nowhere else.
Lease == INSTANCE AccessLease
KeepsLease == Lease!LeaseSpec

\* What the ticket gave ends with it: role and sessions are gone in the end,
\* although nobody asks for it, the timers die with the process and the
\* session outlives the role.  Not so if the ticket was revoked or disturbed,
\* or a webhook came to grief.
AccessEnds ==
  \A r \in Roles :
    (r \in roles \cup access)
      ~> \/ r \notin roles \cup access
         \/ r \in excused
         \/ \E t \in TicketsFor(r) : row[t].status = "revoked"

\* docs/keycloak-setup-guide.md: "Client Roles are used to grant temporary
\* access to specific workflows."
RolesAreTemporary == \A r \in Roles : (r \in roles) ~> (r \notin roles)
================================================================================
