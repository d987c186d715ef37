--------------------------- MODULE MCAccessPipeline ---------------------------
(***************************************************************************)
(* Model checking AccessPipeline: what users send, and the roles and       *)
(* groups they may have.                                                   *)
(***************************************************************************)
EXTENDS AccessPipeline

CONSTANT N8NWorkflows   \* the workflows n8n has

Words == {"rest", "api", "v1", "assets", "workflows", "executions", "telemetry", "ph",
          "push", "credentials", "run", "activate", "share", "stop", "retry", "now"}

SomeSegments == Words \cup N8NWorkflows \cup BadIds \cup Executions

\* All executions are of one workflow.
OneWorkflow == CHOOSE w \in N8NWorkflows : TRUE
OfOneWorkflow == [e \in Executions |-> OneWorkflow]

Capital(verb) == [verb |-> verb, capitals |-> TRUE]
Small(verb) == [verb |-> verb, capitals |-> FALSE]
Sends(method, path, body) ==
  [method |-> method, path |-> path, body |-> body, upgrade |-> FALSE]
Upgrading(r) == [r EXCEPT !.upgrade = TRUE]

Saving(nodes) == [NoBody EXCEPT !.kind = "json", !.nodes = nodes]
NamingData(i) == [NoBody EXCEPT !.kind = "json", !.data = i]
NamingId(i) == [NoBody EXCEPT !.kind = "json", !.id = i]

\* The n8n user interface, and other clients, at work on workflow w: one
\* request for each thing KNOX tells apart.
RequestsFor(w) ==
  {Sends(Capital("POST"), <<"rest", "workflows", w, "run">>, NoBody),
   Sends(Capital("POST"), <<"rest", "workflows", w, "run", "now">>, NoBody),
   Sends(Capital("POST"), <<"rest", "workflows", "run">>, NamingData(w)),
   Sends(Small("POST"), <<"rest", "workflows", "run">>, NamingData(w)),
   Sends(Capital("POST"), <<"rest", "executions">>, NamingId(w)),
   Sends(Capital("PATCH"), <<"rest", "workflows", w>>, Saving({})),
   Sends(Capital("PATCH"), <<"rest", "workflows", w>>, Saving(Dangerous)),
   Sends(Small("PATCH"), <<"rest", "workflows", w>>, Saving(Dangerous)),
   Sends(Capital("OTHER"), <<"rest", "workflows", w>>, NoBody),
   Sends(Capital("POST"), <<"rest", "workflows", w, "activate">>, Saving(Dangerous)),
   Sends(Capital("DELETE"), <<"rest", "workflows", w>>, NoBody),
   Sends(Capital("POST"), <<"api", "workflows", w, "run">>, NoBody),
   Sends(Small("GET"), <<"rest", "workflows", w>>, NoBody)}

RequestsAbout(e) ==
  {Sends(Capital("POST"), <<"rest", "executions", e, "stop">>, NoBody),
   Sends(Capital("POST"), <<"rest", "executions", e, "retry">>, NoBody),
   Sends(Capital("DELETE"), <<"rest", "executions", e>>, NoBody)}

OtherRequests ==
  {Sends(Capital("POST"), <<>>, Garbled),
   Sends(Capital("POST"), <<"rest", "workflows">>, Saving({})),
   Sends(Capital("POST"), <<"rest", "workflows", "run">>, Saving({})),
   Sends(Capital("POST"), <<"rest", "credentials">>, Garbled),
   Sends(Capital("POST"), <<"rest", "telemetry">>, Garbled),
   Sends(Capital("POST"), <<"api", "v1", "workflows">>, NoBody),
   Sends(Capital("GET"), <<"rest", "push">>, NoBody),
   Upgrading(Sends(Capital("GET"), <<"assets">>, NoBody))}
  \cup {Sends(Capital("PATCH"), <<"rest", "workflows", i>>, NoBody) : i \in BadIds}

SomeRequests ==
  OtherRequests \cup UNION {RequestsFor(w) : w \in N8NWorkflows}
                \cup UNION {RequestsAbout(e) : e \in Executions}

\* The right to run one workflow, the right to change any, and the role of a
\* ticket for both.
SomeRoles == {[action |-> "run", workflow |-> OneWorkflow],
              [action |-> "edit", workflow |-> AnyWorkflow],
              [action |-> "edit,run", workflow |-> OneWorkflow]}

\* No team at all; a team behind a group that is none; a team without
\* credentials, which is the one that counts, before one with them.
MixedGroups == {<<>>} \cup {<<NoTeam, t>> : t \in Accounts}
               \cup {<<t, CHOOSE u \in Accounts : TRUE>> : t \in Teams \ Accounts}
================================================================================
