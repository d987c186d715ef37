----------------------------- MODULE AccessPolicy -----------------------------
(***************************************************************************)
(* What a request may do: the policy engine and the body sanitizer         *)
(* (knox-proxy/policy), the helpers of the middleware and of the proxy     *)
(* that look at a request, and, apart from them, what the documentation    *)
(* grants.                                                                 *)
(*                                                                         *)
(* A path is the sequence of its segments.  KNOX's ServeMux has cleaned it *)
(* already, so all that path.Clean does to it is to drop a final slash,    *)
(* which these paths do not have.  A method is a verb and whether it came  *)
(* in capitals, which HTTP does not ask for.                               *)
(***************************************************************************)
EXTENDS SequencesExt, Naturals

CONSTANTS
  Segments,    \* what can stand between two slashes
  BadIds,      \* the segments that pathIDRegex does not match
  Executions,  \* ids of execution records
  WorkflowOf,  \* n8n: the workflow of an execution, which KNOX does not know
  Teams,
  Nodes,       \* types of n8n nodes
  Dangerous,   \* the types the sanitizer blocks
  AnyWorkflow, \* the * of a wildcard role
  NoId, NoTeam

\* What can be the id of a workflow, whether n8n has one by it or not.
Workflows == Segments \ BadIds

ASSUME PolicyAssumption ==
  /\ NoId \notin Workflows
  /\ AnyWorkflow \notin Workflows
  /\ WorkflowOf \in [Executions -> Workflows]
  /\ Dangerous \subseteq Nodes
  /\ NoTeam \notin Teams

\* The client roles run:<id>, edit:<id>, run:* and edit:*, and edit,run:<id>,
\* which is what the approval workflow calls the role of a ticket for both
\* (access_type:workflow_id).
Role == [action : {"run", "edit", "edit,run"}, workflow : Workflows \cup {AnyWorkflow}]

\* OTHER is any verb that the code does not name.
Method == [verb : {"GET", "HEAD", "OPTIONS", "POST", "PATCH", "PUT", "DELETE", "OTHER"},
           capitals : BOOLEAN]
ToUpper(method) == [method EXCEPT !.capitals = TRUE]

ReadMethods == [verb : {"GET", "HEAD", "OPTIONS"}, capitals : {TRUE}]
MutationMethods == [verb : {"POST", "PATCH", "PUT", "DELETE"}, capitals : {TRUE}]

\* A body by what is read from it: whether it is a JSON object, workflowData.id
\* and workflowId (NoId when missing, empty or not a string), and the types in
\* its nodes array (not in one that is part of workflowData).
Body == [kind : {"json"}, data : Segments \cup {NoId}, id : Segments \cup {NoId},
         nodes : SUBSET Nodes]

NoBody == [kind |-> "none", data |-> NoId, id |-> NoId, nodes |-> {}]
Garbled == [NoBody EXCEPT !.kind = "garbled"]

\* upgrade: the header Upgrade: websocket.
Request == [method : Method, path : Seq(Segments), body : Body \cup {NoBody, Garbled},
            upgrade : BOOLEAN]

(***************************************************************************)
(* The policy engine.                                                      *)
(***************************************************************************)
extractWorkflowIDFromBody(body) == IF body.data # NoId THEN body.data ELSE body.id

\* An id of the right form, and the role for it or for all workflows.
Granted(roles, action, id) ==
  /\ id \in Workflows
  /\ \E w \in {id, AnyWorkflow} : [action |-> action, workflow |-> w] \in roles

\* workflows/run, workflows/<id> and workflows/<id>/<verb>.
evaluateWorkflowPath(path, body, roles) ==
  LET manual == Len(path) = 3 /\ path[3] = "run"
      runs == Len(path) >= 4 /\ path[4] \in {"run", "test"} IN
  \/ manual /\ Granted(roles, "run", extractWorkflowIDFromBody(body))
  \/ ~manual /\ Len(path) >= 3 /\ Granted(roles, IF runs THEN "run" ELSE "edit", path[3])

\* The first segment, rest or api, is not looked at again.
evaluateMutation(path, body, roles) ==
  \/ path[2] \in {"telemetry", "ph"}
  \/ path[2] = "executions" /\ Len(path) >= 3 /\ roles # {}
  \/ path[2] = "executions" /\ Len(path) = 2
     /\ Granted(roles, "run", extractWorkflowIDFromBody(body))
  \/ path[2] = "workflows" /\ evaluateWorkflowPath(path, body, roles)

\* A path has the prefix /rest/ or /api/ when something follows it.
isAPIPath(path) == Len(path) >= 2 /\ path[1] \in {"rest", "api"}

\* body is what the middleware has read: NoBody where it has not.
Evaluate(method, path, body, roles) ==
  \/ ~isAPIPath(path)
  \/ ToUpper(method) \in ReadMethods
  \/ evaluateMutation(path, body, roles)

(***************************************************************************)
(* The middleware's and the sanitizer's look at the body.  Its prefixes    *)
(* end without a slash: a segment that only begins with these words has    *)
(* its body read too, and is then denied by the engine as any other.       *)
(***************************************************************************)
isWorkflowPath(path) == IsPrefix(<<"rest", "workflows">>, path)
isExecutionPath(path) == IsPrefix(<<"rest", "executions">>, path)

\* Mutated: the body of an execution request is left unread.
ReadsWorkflowBody(r) == r.method \in MutationMethods /\ isWorkflowPath(r.path)

\* isMutationMethod compares as the method came.
ReadsBody(r) ==
  r.method \in MutationMethods /\ (isWorkflowPath(r.path) \/ isExecutionPath(r.path))

BodyRead(r) == IF ReadsBody(r) THEN r.body ELSE NoBody

SanitizeWorkflowBody(body) == body.kind = "json" /\ body.nodes \cap Dangerous = {}

\* Mutated: new definitions come with PATCH only.
SanitizedPatches(r) ==
  \/ Dangerous = {}
  \/ ~(r.method.verb = "PATCH" /\ r.method.capitals)
  \/ ~isWorkflowPath(r.path)
  \/ r.body.kind = "none"
  \/ SanitizeWorkflowBody(r.body)

Sanitized(r) ==
  \/ Dangerous = {}                       \* IsEnabled
  \/ r.method \notin MutationMethods
  \/ ~isWorkflowPath(r.path)
  \/ r.body.kind = "none"
  \/ SanitizeWorkflowBody(r.body)

(***************************************************************************)
(* The proxy's look at the user and the request.                           *)
(***************************************************************************)
\* The team of the first group with the prefix and a name after it; other
\* groups are NoTeam here.
resolveTeam(groups) ==
  LET teams == SelectSeq(groups, LAMBDA g : g # NoTeam) IN
  IF teams = <<>> THEN NoTeam ELSE teams[1]

isStreamingRequest(r) ==
  r.upgrade \/ \E s \in {"push", "events"} : IsPrefix(<<"rest", s>>, r.path)

(***************************************************************************)
(* What the documentation grants (README, "Just-In-Time (JIT) Roles" and   *)
(* "Default Deny"; docs/keycloak-setup-guide, 5), said of the effect a     *)
(* request has in n8n.  A mutation needs the role for the workflow it is   *)
(* about.                                                                  *)
(***************************************************************************)
Named(r) == IF r.body.data # NoId THEN r.body.data ELSE r.body.id

ManualRun == <<"rest", "workflows", "run">>

\* r has n8n execute workflow w, for the first time or again.
Runs(r, w) ==
  \/ \E v \in {"run", "test"} : IsPrefix(<<"rest", "workflows", w, v>>, r.path)
  \/ r.path \in {ManualRun, <<"rest", "executions">>} /\ Named(r) = w
  \/ \E e \in Executions :
       WorkflowOf[e] = w /\ IsPrefix(<<"rest", "executions", e, "retry">>, r.path)

\* r changes workflow w, whether it is active, or who has it.
Edits(r, w) ==
  /\ IsPrefix(<<"rest", "workflows", w>>, r.path) /\ r.path # ManualRun
  /\ ~Runs(r, w)

\* r does something else to an execution of workflow w: stops it, deletes it.
Handles(r, w) ==
  /\ \E e \in Executions :
       WorkflowOf[e] = w /\ IsPrefix(<<"rest", "executions", e>>, r.path)
  /\ ~Runs(r, w)

\* Requests anyone may send: to read, for the user interface, for telemetry.
Harmless(r) ==
  \/ ToUpper(r.method) \in ReadMethods
  \/ ~isAPIPath(r.path)
  \/ \E s \in {"telemetry", "ph"} : IsPrefix(<<"rest", s>>, r.path)

Holds(roles, action, w) ==
  \E x \in {w, AnyWorkflow} : [action |-> action, workflow |-> x] \in roles

Permitted(r, roles) ==
  \/ Harmless(r)
  \/ \E w \in Workflows :
       \/ Runs(r, w) /\ Holds(roles, "run", w)
       \/ Edits(r, w) /\ Holds(roles, "edit", w)
       \/ Handles(r, w) /\ \E a \in {"run", "edit"} : Holds(roles, a, w)

(***************************************************************************)
(* Where the code is more generous than that.                              *)
(***************************************************************************)
\* Whatever is done to an execution, retrying it included, and whosever it is,
\* any role will do (policy/engine.go:129-138).
AnyRoleWillDo(r, roles) ==
  roles # {} /\ Len(r.path) >= 3 /\ IsPrefix(<<"rest", "executions">>, r.path)

\* A request below /api is judged as if it were below /rest, without its body
\* (policy/engine.go:104).
UnderRest(r) == [r EXCEPT !.path = <<"rest">> \o Tail(@), !.body = NoBody]

JudgedAsRest(r, roles) ==
  /\ IsPrefix(<<"api">>, r.path)
  /\ Permitted(UnderRest(r), roles) \/ AnyRoleWillDo(UnderRest(r), roles)

Tolerated(r, roles) == AnyRoleWillDo(r, roles) \/ JudgedAsRest(r, roles)

\* A method KNOX reads the body for, if it has to.
Known(method) == method \in ReadMethods \cup MutationMethods

\* r carries the definition of a workflow, to be saved.
Saves(r) == ToUpper(r.method) \notin ReadMethods /\ \E w \in Workflows : Edits(r, w)
================================================================================
