---------------------------- MODULE AccessPipeline ----------------------------
(***************************************************************************)
(* A request's way through KNOX: Auth, Policy and the entry of the reverse *)
(* proxy (knox-proxy/middleware/chain.go, knox-proxy/proxy/handler.go),    *)
(* while its user signs on and off and Keycloak's administrators, or the   *)
(* approval workflow, grant and revoke the user's roles.                   *)
(*                                                                         *)
(* Sessions, which module Sessions models in full, are here a login per    *)
(* user: the roles and groups of the ID token it was created from.  What   *)
(* happens between the proxy and n8n is module TeamProxy's.                *)
(***************************************************************************)
EXTENDS AccessPolicy, FiniteSets

CONSTANTS
  Users,
  Handlers,     \* requests that can be under way together
  Arrivals,     \* the requests users send
  Grantable,    \* the roles granted and revoked
  GroupLists,   \* the groups a user may have, in the token's order
  Accounts,     \* teams with credentials in the provider
  NoUser, NoRequest, NoLogin,
  MaxLogins     \* bound: how often anyone signs on

ASSUME PipelineAssumption ==
  /\ NoUser \notin Users
  /\ Arrivals \subseteq Request /\ NoRequest \notin Arrivals
  /\ Grantable \subseteq Role
  /\ GroupLists \subseteq Seq(Teams \cup {NoTeam})
  /\ NoLogin \notin [roles : SUBSET Grantable, groups : GroupLists]
  /\ Accounts \subseteq Teams
  /\ MaxLogins \in Nat

VARIABLES
  roles,     \* Keycloak: the roles a user holds
  login,     \* SessionManager.sessions, one per user
  logins,    \* how many there have been
  req        \* the requests under way

vars == <<roles, login, logins, req>>

Login == [roles : SUBSET Grantable, groups : GroupLists]

\* user is the RequestUser of the context, from Auth on.  seen, the logins
\* that were good at some time since the request arrived, is history.
Handling == [pc : {"idle", "auth", "policy", "proxy", "buffer", "sent", "refused", "failed"},
             from : Users \cup {NoUser}, request : Request \cup {NoRequest},
             user : Login \cup {NoLogin}, team : Teams \cup {NoTeam},
             seen : SUBSET Login]

IdleHandler == [pc |-> "idle", from |-> NoUser, request |-> NoRequest, user |-> NoLogin,
                team |-> NoTeam, seen |-> {}]

\* A request has a user behind Auth, and a team with credentials behind
\* ResolveTeam.
TypeOK ==
  /\ roles \in [Users -> SUBSET Grantable]
  /\ login \in [Users -> Login \cup {NoLogin}]
  /\ logins \in 0 .. MaxLogins
  /\ req \in [Handlers -> Handling]
  /\ \A h \in Handlers :
       /\ req[h].pc # "idle" => req[h].from # NoUser /\ req[h].request # NoRequest
       /\ req[h].pc \in {"policy", "proxy", "buffer", "sent"} => req[h].user # NoLogin
       /\ req[h].pc \in {"buffer", "sent"} => req[h].team \in Accounts

Init ==
  /\ roles = [u \in Users |-> {}]
  /\ login = [u \in Users |-> NoLogin]
  /\ logins = 0
  /\ req = [h \in Handlers |-> IdleHandler]

(***************************************************************************)
(* The environment: Keycloak's administration and the users' sessions.     *)
(***************************************************************************)
Grant(u, r) ==
  /\ r \notin roles[u]
  /\ roles' = [roles EXCEPT ![u] = @ \cup {r}]
  /\ UNCHANGED <<login, logins, req>>

Revoke(u, r) ==
  /\ r \in roles[u]
  /\ roles' = [roles EXCEPT ![u] = @ \ {r}]
  /\ UNCHANGED <<login, logins, req>>

\* The callback creates a session with the roles and groups of its ID token.
SignOn(u, groups) ==
  LET l == [roles |-> roles[u], groups |-> groups] IN
  /\ logins < MaxLogins
  /\ logins' = logins + 1
  /\ login' = [login EXCEPT ![u] = l]
  /\ req' = [h \in Handlers |-> IF req[h].from = u THEN [req[h] EXCEPT !.seen = @ \cup {l}]
                                                   ELSE req[h]]
  /\ UNCHANGED roles

\* Logout, backchannel logout or the end of the session's life.
SignOff(u) ==
  /\ login[u] # NoLogin
  /\ login' = [login EXCEPT ![u] = NoLogin]
  /\ UNCHANGED <<roles, logins, req>>

(***************************************************************************)
(* The request.                                                            *)
(***************************************************************************)
Arrive(h, u, r) ==
  /\ req[h].pc = "idle"
  /\ req' = [req EXCEPT ![h] = [IdleHandler EXCEPT
       !.pc = "auth", !.from = u, !.request = r,
       !.seen = IF login[u] = NoLogin THEN {} ELSE {login[u]}]]
  /\ UNCHANGED <<roles, login, logins>>

\* Mutated: a page, unlike a call of the API, is let through without a session.
AuthForAPI(h) ==
  LET l == login[req[h].from] IN
  /\ req[h].pc = "auth" /\ (l # NoLogin \/ ~isAPIPath(req[h].request.path)
                                          \/ isStreamingRequest(req[h].request))
  /\ req' = [req EXCEPT ![h].pc = "policy", ![h].user = l]
  /\ UNCHANGED <<roles, login, logins>>

\* Auth: GetSession, and the user's data into the context.
Auth(h) ==
  LET l == login[req[h].from] IN
  /\ req[h].pc = "auth" /\ l # NoLogin
  /\ req' = [req EXCEPT ![h].pc = "policy", ![h].user = l]
  /\ UNCHANGED <<roles, login, logins>>

\* 401, or a redirect to the login page.
AuthFails(h) ==
  /\ req[h].pc = "auth" /\ login[req[h].from] = NoLogin
  /\ req' = [req EXCEPT ![h].pc = "failed"]
  /\ UNCHANGED <<roles, login, logins>>

\* Policy reads the body the engine needs; the client may fail to send it.
PolicyFails(h) ==
  /\ req[h].pc = "policy" /\ ReadsBody(req[h].request)
  /\ req' = [req EXCEPT ![h].pc = "failed"]
  /\ UNCHANGED <<roles, login, logins>>

\* Mutated: the roles are looked up in the session once more.
PolicyOfSession(h) ==
  LET r == req[h].request
      l == login[req[h].from]
      allowed == l # NoLogin /\ Evaluate(r.method, r.path, BodyRead(r), l.roles) IN
  /\ req[h].pc = "policy"
  /\ req' = [req EXCEPT ![h].pc = IF allowed /\ Sanitized(r) THEN "proxy" ELSE "refused"]
  /\ UNCHANGED <<roles, login, logins>>

\* Policy: evaluation, then sanitization (403, 400, or on to the proxy).
Policy(h) ==
  LET r == req[h].request
      allowed == Evaluate(r.method, r.path, BodyRead(r), req[h].user.roles) IN
  /\ req[h].pc = "policy"
  /\ req' = [req EXCEPT ![h].pc = CASE ~allowed                 -> "refused"
                                    [] allowed /\ ~Sanitized(r) -> "failed"
                                    [] allowed /\ Sanitized(r)  -> "proxy"]
  /\ UNCHANGED <<roles, login, logins>>

\* ServeHTTP finds the team and its credentials (or answers 403 or 500).
ResolveTeam(h) ==
  LET t == resolveTeam(req[h].user.groups) IN
  /\ req[h].pc = "proxy"
  /\ req' = IF t \in Accounts
              THEN [req EXCEPT ![h].team = t, ![h].pc =
                      IF isStreamingRequest(req[h].request) THEN "sent" ELSE "buffer"]
              ELSE [req EXCEPT ![h].pc = "failed"]
  /\ UNCHANGED <<roles, login, logins>>

\* The body is buffered for a retry.  (What a LimitReader cuts off a body of
\* more than 32 MB is lost; lengths are not modelled.)  n8n's part of it is
\* module TeamProxy's.
BufferBody(h) ==
  /\ req[h].pc = "buffer"
  /\ req' = [req EXCEPT ![h].pc = "sent"]
  /\ UNCHANGED <<roles, login, logins>>

BufferFails(h) ==
  /\ req[h].pc = "buffer" /\ ~ReadsBody(req[h].request)
  /\ req[h].request.body.kind # "none"
  /\ req' = [req EXCEPT ![h].pc = "failed"]
  /\ UNCHANGED <<roles, login, logins>>

Done(h) ==
  /\ req[h].pc \in {"sent", "refused", "failed"}
  /\ req' = [req EXCEPT ![h] = IdleHandler]
  /\ UNCHANGED <<roles, login, logins>>

Step(h) ==
  \/ Auth(h) \/ AuthFails(h)
  \/ Policy(h) \/ PolicyFails(h)
  \/ ResolveTeam(h)
  \/ BufferBody(h) \/ BufferFails(h)
  \/ Done(h)

Next ==
  \/ \E u \in Users, r \in Grantable : Grant(u, r) \/ Revoke(u, r)
  \/ \E u \in Users, g \in GroupLists : SignOn(u, g)
  \/ \E u \in Users : SignOff(u)
  \/ \E h \in Handlers, u \in Users, r \in Arrivals : Arrive(h, u, r)
  \/ \E h \in Handlers : Step(h)

Spec == Init /\ [][Next]_vars

(***************************************************************************)
(* Properties.                                                             *)
(***************************************************************************)
\* What reaches n8n is what the documentation permits, or the engine is known
\* to tolerate, for the roles of one login of the request's own user, a login
\* that was good when the request arrived or later, and it reaches the account
\* of that same login's team (middleware/chain.go, proxy/handler.go).
SentUnderALogin ==
  \A h \in Handlers :
    req[h].pc = "sent" =>
      \E l \in req[h].seen :
        /\ Permitted(req[h].request, l.roles) \/ Tolerated(req[h].request, l.roles)
        /\ req[h].team = resolveTeam(l.groups)

\* The policy refuses no request with a method it knows that the documentation
\* permits to every login its user had meanwhile.  (Of another method it does
\* not read the body that may name the workflow.)
RefusedForALogin ==
  \A h \in Handlers :
    req[h].pc = "refused" /\ Known(req[h].request.method) =>
      \E l \in req[h].seen : ~Permitted(req[h].request, l.roles)

\* A definition with a dangerous node is not saved through KNOX, but with a
\* method that the middleware does not take for a mutation: the engine goes by
\* the method in capitals (policy/engine.go:58) and the sanitizer's caller does
\* not (middleware/chain.go:250, 291).
SavesAreClean ==
  \A h \in Handlers :
    req[h].pc = "sent" /\ Saves(req[h].request) =>
      \/ req[h].request.body.nodes \cap Dangerous = {}
      \/ req[h].request.method \notin MutationMethods
================================================================================
