-------------------------------- MODULE Sessions -------------------------------
(***************************************************************************)
(* Sign-on (knox-proxy/auth): the in-memory SessionManager with its index  *)
(* from Keycloak session ids to KNOX sessions, the OIDC login flow, user   *)
(* logout, and Keycloak's backchannel logout.                              *)
(*                                                                         *)
(* Browsers and Keycloak are the environment.  A browser has one single-   *)
(* sign-on session at Keycloak, which every login from it reuses while it  *)
(* lives, and one KNOX cookie, which the last answer to arrive sets.       *)
(*                                                                         *)
(* Each operation of the SessionManager is one critical section of its     *)
(* mutex and one action here.  Lifetimes are kept as the time left, so no  *)
(* clock has to be bounded; 0 is "expired".                                *)
(*                                                                         *)
(* Keycloak puts a sid into every ID token.  Of a provider that does not,  *)
(* whose sessions stay out of the index (keycloakSID # "" in CreateSession,*)
(* DestroySession and CleanExpired), nothing is said.                      *)
(***************************************************************************)
EXTENDS Naturals

CONSTANTS
  Browsers,   \* browser profiles
  Flows,      \* login attempts (tabs) that can be under way together
  Sids,       \* bound: Keycloak sessions there will ever be
  Ids,        \* KNOX session ids; reused only when nothing holds them
  NoSid, NoId, NoSession, NoState, NoBrowser,   \* "none" of each kind
  MaxAge,     \* session lifetime
  StateAge    \* lifetime of an OIDC state (10 minutes)

ASSUME SessionsAssumption ==
  /\ NoSid \notin Sids
  /\ NoId \notin Ids
  /\ NoSession \notin [sid : Sids, left : 0 .. MaxAge]
  /\ NoState \notin 0 .. StateAge
  /\ NoBrowser \notin Browsers
  /\ MaxAge \in Nat \ {0}
  /\ StateAge \in Nat \ {0}

VARIABLES
  sessions,   \* SessionManager.sessions
  sidIndex,   \* SessionManager.sidIndex
  states,     \* OIDCAuth.states, one key per flow
  flow,       \* each login attempt: [pc, browser, sid, id]
  up,         \* is KNOX running
  cookie,     \* browser: the knox_session cookie
  sso,        \* browser: the Keycloak session it is signed in to
  kc,         \* Keycloak: new, live or ended
  notices,    \* backchannel logout requests on their way
  revoked,    \* history: Keycloak sessions whose logout KNOX has processed
  shared      \* history: Keycloak sessions that have had two stored KNOX
              \* sessions at the same time since startup

knox == <<sessions, sidIndex, states, up, shared, revoked>>
world == <<cookie, sso, kc, notices>>
vars == <<knox, flow, world>>

Session == [sid : Sids, left : 0 .. MaxAge]

\* login: at Keycloak.  code: coming back with a code.  exchange, create,
\* reply: inside CallbackHandler.
FlowPCs == {"idle", "login", "code", "exchange", "create", "reply"}
Flow == [pc : FlowPCs, browser : Browsers \cup {NoBrowser},
         sid : Sids \cup {NoSid}, id : Ids \cup {NoId}]
IdleFlow == [pc |-> "idle", browser |-> NoBrowser, sid |-> NoSid, id |-> NoId]

TypeOK ==
  /\ sessions \in [Ids -> Session \cup {NoSession}]
  /\ sidIndex \in [Sids -> Ids \cup {NoId}]
  /\ states \in [Flows -> (0 .. StateAge) \cup {NoState}]
  /\ flow \in [Flows -> Flow]
  /\ up \in BOOLEAN
  /\ cookie \in [Browsers -> Ids \cup {NoId}]
  /\ sso \in [Browsers -> Sids \cup {NoSid}]
  /\ kc \in [Sids -> {"new", "live", "ended"}]
  /\ notices \in SUBSET Sids
  /\ revoked \in SUBSET Sids
  /\ shared \in SUBSET Sids

Init ==
  /\ sessions = [i \in Ids |-> NoSession]
  /\ sidIndex = [s \in Sids |-> NoId]
  /\ states = [f \in Flows |-> NoState]
  /\ flow = [f \in Flows |-> IdleFlow]
  /\ up = TRUE
  /\ cookie = [b \in Browsers |-> NoId]
  /\ sso = [b \in Browsers |-> NoSid]
  /\ kc = [s \in Sids |-> "new"]
  /\ notices = {}
  /\ revoked = {}
  /\ shared = {}

(***************************************************************************)
(* The session manager.                                                    *)
(***************************************************************************)
Stored(i) == sessions[i] # NoSession
StoredFor(s) == {i \in Ids : Stored(i) /\ sessions[i].sid = s}

\* GetSession finds it.
Valid(i) == Stored(i) /\ sessions[i].left > 0

\* A random id is one nobody holds.
Fresh(i) ==
  /\ ~Stored(i)
  /\ \A b \in Browsers : cookie[b] # i
  /\ \A f \in Flows : flow[f].id # i

\* Mutated: the index is not told of the session.
CreateUnindexed(i, s) ==
  /\ Fresh(i)
  /\ sessions' = [sessions EXCEPT ![i] = [sid |-> s, left |-> MaxAge]]
  /\ shared' = IF StoredFor(s) # {} THEN shared \cup {s} ELSE shared
  /\ UNCHANGED sidIndex

CreateSession(i, s) ==
  /\ Fresh(i)
  /\ sessions' = [sessions EXCEPT ![i] = [sid |-> s, left |-> MaxAge]]
  /\ sidIndex' = [sidIndex EXCEPT ![s] = i]
  /\ shared' = IF StoredFor(s) # {} THEN shared \cup {s} ELSE shared

\* Remove these sessions, and for each the index entry of its sid, whichever
\* session the entry leads to.
Remove(gone) ==
  /\ sessions' = [i \in Ids |-> IF i \in gone THEN NoSession ELSE sessions[i]]
  /\ sidIndex' = [s \in Sids |-> IF \E i \in gone : sessions[i].sid = s
                                   THEN NoId ELSE sidIndex[s]]

\* Mutated: the index entry is forgotten when a session is destroyed.
DestroyKeepingIndex(i) ==
  IF i # NoId /\ Stored(i)
    THEN sessions' = [sessions EXCEPT ![i] = NoSession] /\ UNCHANGED sidIndex
    ELSE UNCHANGED <<sessions, sidIndex>>

DestroySession(i) ==
  IF i # NoId /\ Stored(i) THEN Remove({i}) ELSE UNCHANGED <<sessions, sidIndex>>

\* Mutated: only the index entry goes.
DestroyIndexOnly(s) ==
  /\ sidIndex' = [sidIndex EXCEPT ![s] = NoId]
  /\ UNCHANGED sessions

\* Backchannel logout: the one session the index leads to.
DestroyByKeycloakSID(s) ==
  IF sidIndex[s] # NoId
    THEN /\ sessions' = [sessions EXCEPT ![sidIndex[s]] = NoSession]
         /\ sidIndex' = [sidIndex EXCEPT ![s] = NoId]
    ELSE UNCHANGED <<sessions, sidIndex>>

\* Mutated: the cleanup walks the index instead of the sessions.
CleanIndexed ==
  /\ up
  /\ Remove({i \in Ids : Stored(i) /\ sessions[i].left = 0 /\ sidIndex[sessions[i].sid] = i})
  /\ UNCHANGED <<states, up, shared, revoked, flow, world>>

\* The five-minute cleanup of main.
CleanExpired ==
  /\ up
  /\ Remove({i \in Ids : Stored(i) /\ sessions[i].left = 0})
  /\ UNCHANGED <<states, up, shared, revoked, flow, world>>

(***************************************************************************)
(* Logging in.                                                             *)
(***************************************************************************)
\* LoginHandler: store a state, redirect to Keycloak.
Login(f, b) ==
  /\ up
  /\ flow[f].pc = "idle" /\ states[f] = NoState
  /\ states' = [states EXCEPT ![f] = StateAge]
  /\ flow' = [flow EXCEPT ![f] = [IdleFlow EXCEPT !.pc = "login", !.browser = b]]
  /\ UNCHANGED <<sessions, sidIndex, up, shared, revoked, world>>

\* Keycloak recognises its own session, or asks for a password and opens one.
Authenticate(f) ==
  LET b == flow[f].browser IN
  /\ flow[f].pc = "login"
  /\ IF sso[b] # NoSid /\ kc[sso[b]] = "live"
       THEN /\ flow' = [flow EXCEPT ![f].pc = "code", ![f].sid = sso[b]]
            /\ UNCHANGED <<sso, kc>>
       ELSE \E s \in Sids :
              /\ kc[s] = "new"
              /\ kc' = [kc EXCEPT ![s] = "live"]
              /\ sso' = [sso EXCEPT ![b] = s]
              /\ flow' = [flow EXCEPT ![f].pc = "code", ![f].sid = s]
  /\ UNCHANGED <<knox, cookie, notices>>

\* The user closes the tab; the state stays until it is cleaned up.
Abandon(f) ==
  /\ flow[f].pc \in {"login", "code"}
  /\ flow' = [flow EXCEPT ![f] = IdleFlow]
  /\ UNCHANGED <<knox, world>>

\* Keycloak sends the browser back with an error and no code: CallbackHandler
\* takes the state, and answers 400 or 401.
CallbackError(f) ==
  /\ up
  /\ flow[f].pc = "login"
  /\ states' = [states EXCEPT ![f] = NoState]
  /\ flow' = [flow EXCEPT ![f] = IdleFlow]
  /\ UNCHANGED <<sessions, sidIndex, up, shared, revoked, world>>

\* CallbackHandler: take the state, at most once.
TakeState(f) ==
  /\ up
  /\ flow[f].pc = "code"
  /\ states' = [states EXCEPT ![f] = NoState]
  /\ flow' = [flow EXCEPT ![f] =
                IF states[f] # NoState /\ states[f] > 0
                  THEN [@ EXCEPT !.pc = "exchange"] ELSE IdleFlow]
  /\ UNCHANGED <<sessions, sidIndex, up, shared, revoked, world>>

\* Mutated: the error of the token endpoint is not looked at.
ExchangeUnchecked(f) ==
  /\ flow[f].pc = "exchange"
  /\ flow' = [flow EXCEPT ![f].pc = "create"]
  /\ UNCHANGED <<knox, world>>

\* Exchange at Keycloak's token endpoint, Verify, Claims.  Keycloak gives
\* tokens for a live session only.
Exchange(f) ==
  /\ flow[f].pc = "exchange"
  /\ flow' = [flow EXCEPT ![f] =
                IF kc[flow[f].sid] = "live" THEN [@ EXCEPT !.pc = "create"] ELSE IdleFlow]
  /\ UNCHANGED <<knox, world>>

\* The request to Keycloak fails, or the token does not verify.
ExchangeFails(f) ==
  /\ flow[f].pc = "exchange"
  /\ flow' = [flow EXCEPT ![f] = IdleFlow]
  /\ UNCHANGED <<knox, world>>

Create(f) ==
  /\ flow[f].pc = "create"
  /\ \E i \in Ids :
       /\ CreateSession(i, flow[f].sid)
       /\ flow' = [flow EXCEPT ![f].pc = "reply", ![f].id = i]
  /\ UNCHANGED <<states, up, revoked, world>>

\* Mutated: the cookie holds the Keycloak session id.
SetSidCookie(f) ==
  /\ flow[f].pc = "reply"
  /\ cookie' = [cookie EXCEPT ![flow[f].browser] = flow[f].sid]
  /\ flow' = [flow EXCEPT ![f] = IdleFlow]
  /\ UNCHANGED <<knox, sso, kc, notices>>

\* The answer reaches the browser, whose cookie jar keeps the last one.
SetSessionCookie(f) ==
  /\ flow[f].pc = "reply"
  /\ cookie' = [cookie EXCEPT ![flow[f].browser] = flow[f].id]
  /\ flow' = [flow EXCEPT ![f] = IdleFlow]
  /\ UNCHANGED <<knox, sso, kc, notices>>

\* cleanStates, every five minutes.
CleanStates ==
  /\ up
  /\ states' = [f \in Flows |-> IF states[f] = 0 THEN NoState ELSE states[f]]
  /\ UNCHANGED <<sessions, sidIndex, up, shared, revoked, flow, world>>

(***************************************************************************)
(* Logging out.                                                            *)
(***************************************************************************)
\* LogoutHandler.  The redirect to Keycloak's end_session_endpoint asks the
\* user to confirm; whether Keycloak then ends its session is EndSSO.
Logout(b) ==
  /\ up
  /\ cookie[b] # NoId
  /\ DestroySession(cookie[b])
  /\ cookie' = [cookie EXCEPT ![b] = NoId]
  /\ UNCHANGED <<states, up, shared, revoked, flow, sso, kc, notices>>

\* Keycloak ends a session (an administrator, the user, the JIT workflow
\* after a role has changed) and notifies KNOX.
EndSSO(s) ==
  /\ kc[s] = "live"
  /\ kc' = [kc EXCEPT ![s] = "ended"]
  /\ notices' = notices \cup {s}
  /\ UNCHANGED <<knox, flow, cookie, sso>>

\* BackchannelLogoutHandler, on a token that validates.
Backchannel(s) ==
  /\ up
  /\ s \in notices
  /\ DestroyByKeycloakSID(s)
  /\ notices' = notices \ {s}
  /\ revoked' = revoked \cup {s}
  /\ UNCHANGED <<states, up, shared, flow, cookie, sso, kc>>

\* KNOX was unreachable; Keycloak does not try again.
LoseNotice(s) ==
  /\ s \in notices
  /\ notices' = notices \ {s}
  /\ UNCHANGED <<knox, flow, cookie, sso, kc>>

(***************************************************************************)
(* Time, crash, restart.                                                   *)
(***************************************************************************)
Less(n) == IF n > 0 THEN n - 1 ELSE 0

Tick ==
  /\ sessions' = [i \in Ids |-> IF Stored(i) THEN [sessions[i] EXCEPT !.left = Less(@)]
                                             ELSE NoSession]
  /\ states' = [f \in Flows |-> IF states[f] # NoState THEN Less(states[f]) ELSE NoState]
  /\ UNCHANGED <<sidIndex, up, shared, revoked, flow, world>>

\* Nothing of this is persisted; a handler under way dies with the process.
Crash ==
  /\ up
  /\ up' = FALSE
  /\ sessions' = [i \in Ids |-> NoSession]
  /\ sidIndex' = [s \in Sids |-> NoId]
  /\ states' = [f \in Flows |-> NoState]
  /\ flow' = [f \in Flows |->
                IF flow[f].pc \in {"exchange", "create", "reply"} THEN IdleFlow ELSE flow[f]]
  /\ shared' = {}
  /\ UNCHANGED <<revoked, world>>

Restart ==
  /\ ~up
  /\ up' = TRUE
  /\ UNCHANGED <<sessions, sidIndex, states, shared, revoked, flow, world>>

Callback(f) == Exchange(f) \/ ExchangeFails(f) \/ Create(f) \/ SetSessionCookie(f)

Next ==
  \/ \E f \in Flows :
       \/ \E b \in Browsers : Login(f, b)
       \/ Authenticate(f) \/ Abandon(f) \/ CallbackError(f) \/ TakeState(f)
       \/ Callback(f)
  \/ \E b \in Browsers : Logout(b)
  \/ \E s \in Sids : EndSSO(s) \/ Backchannel(s) \/ LoseNotice(s)
  \/ CleanExpired \/ CleanStates
  \/ Tick \/ Crash \/ Restart

Spec == Init /\ [][Next]_vars

\* The clock and the two cleanup tickers run, handlers make progress, the
\* container is restarted.  Nothing is assumed of users and of Keycloak.
Fairness ==
  /\ WF_vars(Tick)
  /\ WF_vars(CleanExpired)
  /\ WF_vars(CleanStates)
  /\ WF_vars(Restart)
  /\ \A f \in Flows : WF_vars(Callback(f))

FairSpec == Spec /\ Fairness

(***************************************************************************)
(* Properties.                                                             *)
(***************************************************************************)
\* The reverse index never dangles: an entry leads to a stored session of
\* that Keycloak session, whatever logins, logouts and cleanups interleave
\* (session.go, every method that deletes from sessions).
IndexSound ==
  \A s \in Sids : sidIndex[s] # NoId =>
    Stored(sidIndex[s]) /\ sessions[sidIndex[s]].sid = s

\* A stored session the index does not lead to, which backchannel logout
\* cannot destroy, belongs to a Keycloak session that had two KNOX sessions
\* stored at the same time (CreateSession overwrites the entry; removing
\* either session deletes it).
IndexComplete ==
  \A i \in Ids : Stored(i) =>
    sidIndex[sessions[i].sid] = i \/ sessions[i].sid \in shared

\* Backchannel logout of a Keycloak session that never had two KNOX sessions
\* at a time leaves none behind.
LogoutReaches ==
  [][\A s \in Sids : Backchannel(s) /\ s \notin shared => StoredFor(s)' = {}]_vars

\* Keycloak has ended s, and no login of it has its tokens already.
Closed(s) ==
  /\ kc[s] = "ended"
  /\ \A f \in Flows : ~(flow[f].pc = "create" /\ flow[f].sid = s)

\* With what has its tokens already out of the way, the KNOX sessions of an
\* ended Keycloak session only become fewer, whether it was notified or not:
\* no login under way, second tab, code redeemed late or restart adds one.  The
\* race of RevokedStaysOut is the only way back (CallbackHandler, between
\* Exchange and CreateSession).
EndedStaysEnded ==
  [][\A s \in Sids : Closed(s) => Closed(s)' /\ StoredFor(s)' \subseteq StoredFor(s)]_vars

\* A revoked user is out for good in the end, even when the notice was lost,
\* came too early or found no index entry: Keycloak lets nobody log in on an
\* ended session, and what is stored expires and is cleaned up.
RevocationCatchesUp ==
  \A s \in Sids : kc[s] = "ended" ~> [](StoredFor(s) = {})

(***************************************************************************)
(* What documents and comments say, and the code does not do.              *)
(***************************************************************************)
\* b holds the cookie of a session of s that GetSession accepts.
SignedIn(b, s) == cookie[b] # NoId /\ Valid(cookie[b]) /\ sessions[cookie[b]].sid = s

\* docs/keycloak-setup-guide.md: on a backchannel logout request the KNOX
\* session is instantly destroyed; here only when no login is under way.
LogoutSignsOut ==
  [][\A s \in Sids :
       Backchannel(s) /\ (\A f \in Flows : flow[f] = IdleFlow) =>
         \A b \in Browsers : ~SignedIn(b, s)']_vars

\* session.go, DestroyByKeycloakSID: when Keycloak revokes a session, KNOX
\* can instantly invalidate it; so a revoked one does not come (back) to life.
RevokedStaysOut ==
  [][\A s \in revoked : StoredFor(s) = {} => StoredFor(s)' = {}]_vars
================================================================================
