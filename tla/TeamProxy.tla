------------------------------- MODULE TeamProxy -------------------------------
(***************************************************************************)
(* Requests on their way to n8n (knox-proxy/proxy) and the pool of n8n     *)
(* login cookies they share (knox-proxy/cookie).                           *)
(*                                                                         *)
(* All the members of a team use the team's one n8n account and one cached *)
(* cookie.  A regular request that n8n answers with 401 drops the cookie,  *)
(* gets another and is sent once more; a streaming one (WebSocket, server- *)
(* sent events) is not.  The pool's lock is held for a look or an update   *)
(* of the map only, never across a login: requests interleave in between.  *)
(*                                                                         *)
(* n8n is the environment.  A cookie is the generation of the account's    *)
(* logins that it belongs to; n8n accepts the current generation, and a    *)
(* restart with cleared sessions or a new password starts another.         *)
(***************************************************************************)
EXTENDS Naturals

CONSTANTS
  Teams,      \* teams; each has an n8n account of its own
  Requests,   \* requests that can be under way together
  NoTeam, NoCookie,
  TTL,        \* lifetime of a cached cookie
  MaxResets   \* bound: how often n8n forgets an account's logins

ASSUME ProxyAssumption ==
  /\ NoTeam \notin Teams
  /\ TTL \in Nat \ {0}
  /\ MaxResets \in Nat
  /\ NoCookie \notin 0 .. MaxResets
  /\ NoCookie \notin [value : 0 .. MaxResets, left : 0 .. TTL]

VARIABLES
  pool,      \* Pool.cookies: team account -> cached cookie
  current,   \* n8n: the generation of logins it accepts
  req        \* the requests ServeHTTP is working on

vars == <<pool, current, req>>

Generation == 0 .. MaxResets
Cached == [value : Generation, left : 0 .. TTL]

PCs == {"idle", "lookup", "login", "store", "send", "denied", "done"}

\* executed counts how often n8n has carried the request out.  reset and
\* overtaken are history, kept for the properties from Invalidate on.
Request == [pc : PCs, team : Teams \cup {NoTeam}, stream : BOOLEAN,
            attempt : {1, 2}, cookie : Generation \cup {NoCookie},
            executed : 0 .. 2, status : {"none", "ok", "401", "502"},
            reset : BOOLEAN, overtaken : BOOLEAN]

IdleRequest == [pc |-> "idle", team |-> NoTeam, stream |-> FALSE, attempt |-> 1,
                cookie |-> NoCookie, executed |-> 0, status |-> "none",
                reset |-> FALSE, overtaken |-> FALSE]

TypeOK ==
  /\ pool \in [Teams -> Cached \cup {NoCookie}]
  /\ current \in [Teams -> Generation]
  /\ req \in [Requests -> Request]

\* What main's pre-warming leaves in the pool of a process that has just
\* started: a login for each team that n8n let in.
Prewarmed(logins) ==
  {[t \in Teams |-> IF t \in warm THEN [value |-> logins[t], left |-> TTL] ELSE NoCookie] :
     warm \in SUBSET Teams}

Init ==
  /\ current = [t \in Teams |-> 0]
  /\ pool \in Prewarmed(current)
  /\ req = [r \in Requests |-> IdleRequest]

Answered(r, status) ==
  req' = [req EXCEPT ![r].pc = "done", ![r].status = status]

(***************************************************************************)
(* ServeHTTP.                                                              *)
(***************************************************************************)
\* A user with a team and a credential; without, ServeHTTP answers at once.
Serve(r, t, stream) ==
  /\ req[r].pc = "idle"
  /\ req' = [req EXCEPT ![r] = [IdleRequest EXCEPT !.pc = "lookup", !.team = t,
                                                   !.stream = stream]]
  /\ UNCHANGED <<pool, current>>

\* GetCookie finds a cached cookie that has not expired.
Hit(t) == pool[t] # NoCookie /\ pool[t].left > 0

\* Mutated: every use of a cookie renews its time in the pool.
LookupSliding(r) ==
  LET t == req[r].team IN
  /\ req[r].pc = "lookup"
  /\ IF Hit(t)
       THEN /\ req' = [req EXCEPT ![r].pc = "send", ![r].cookie = pool[t].value]
            /\ pool' = [pool EXCEPT ![t].left = TTL]
       ELSE /\ req' = [req EXCEPT ![r].pc = "login"]
            /\ UNCHANGED pool
  /\ UNCHANGED current

\* GetCookie, the read-locked part.
Lookup(r) ==
  LET t == req[r].team IN
  /\ req[r].pc = "lookup"
  /\ req' = IF Hit(t)
              THEN [req EXCEPT ![r].pc = "send", ![r].cookie = pool[t].value]
              ELSE [req EXCEPT ![r].pc = "login"]
  /\ UNCHANGED <<pool, current>>

\* Mutated: a request that has a cookie keeps it.
LoginKeepingCookie(r) ==
  /\ req[r].pc = "login"
  /\ req' = [req EXCEPT ![r].pc = "store",
                        ![r].cookie = IF @ = NoCookie THEN current[req[r].team] ELSE @]
  /\ UNCHANGED <<pool, current>>

\* loginToN8N: n8n issues a cookie of its current generation.
LoginToN8N(r) ==
  /\ req[r].pc = "login"
  /\ req' = [req EXCEPT ![r].pc = "store", ![r].cookie = current[req[r].team]]
  /\ UNCHANGED <<pool, current>>

\* n8n is down, slow or refuses the password.  A retry that gets no cookie
\* passes the first answer on.
LoginFails(r) ==
  /\ req[r].pc = "login"
  /\ Answered(r, IF req[r].attempt = 1 THEN "502" ELSE "401")
  /\ UNCHANGED <<pool, current>>

\* Mutated: the cookie outlives its time in the pool.
StoreLonger(r) ==
  /\ req[r].pc = "store"
  /\ pool' = [pool EXCEPT ![req[r].team] = [value |-> req[r].cookie, left |-> TTL + 1]]
  /\ req' = [req EXCEPT ![r].pc = "send"]
  /\ UNCHANGED current

\* GetCookie, the write-locked part.
Store(r) ==
  /\ req[r].pc = "store"
  /\ pool' = [pool EXCEPT ![req[r].team] = [value |-> req[r].cookie, left |-> TTL]]
  /\ req' = [req EXCEPT ![r].pc = "send"]
  /\ UNCHANGED current

Accepted(r) == req[r].cookie = current[req[r].team]

\* Mutated: a request whose answer is lost is sent again.
SendAgain(r) ==
  /\ req[r].pc = "send"
  /\ Accepted(r)
  /\ \/ req' = [req EXCEPT ![r].pc = "done", ![r].status = "ok", ![r].executed = @ + 1]
     \/ req' = [req EXCEPT ![r].pc = IF req[r].attempt = 1 THEN "denied" ELSE "done",
                           ![r].executed = @ + 1]
  /\ UNCHANGED <<pool, current>>

\* The proxied request is carried out.  Its answer may still get lost.
SendAccepted(r) ==
  /\ req[r].pc = "send"
  /\ Accepted(r)
  /\ \E status \in {"ok", "502"} :
       req' = [req EXCEPT ![r].pc = "done", ![r].status = status,
                          ![r].executed = @ + 1]
  /\ UNCHANGED <<pool, current>>

\* n8n answers 401, to a stale cookie or for a reason of its own.
SendDenied(r) ==
  /\ req[r].pc = "send"
  /\ IF req[r].stream \/ req[r].attempt = 2
       THEN Answered(r, "401")
       ELSE req' = [req EXCEPT ![r].pc = "denied"]
  /\ UNCHANGED <<pool, current>>

\* n8n is not reached at all.
SendFails(r) ==
  /\ req[r].pc = "send"
  /\ Answered(r, "502")
  /\ UNCHANGED <<pool, current>>

\* A login older than n8n's last reset that is about to be cached.
HoldsStale(r, t) == req[r].pc = "store" /\ req[r].team = t /\ ~Accepted(r)

\* Mutated: the stale cookie stays in the pool.
RetryWithoutInvalidate(r) ==
  LET t == req[r].team IN
  /\ req[r].pc = "denied"
  /\ req' = [req EXCEPT ![r].pc = "lookup", ![r].attempt = 2,
                        ![r].overtaken = \E q \in Requests : HoldsStale(q, t)]
  /\ UNCHANGED <<pool, current>>

Invalidate(r) ==
  LET t == req[r].team IN
  /\ req[r].pc = "denied"
  /\ pool' = [pool EXCEPT ![t] = NoCookie]
  /\ req' = [req EXCEPT ![r].pc = "lookup", ![r].attempt = 2,
                        ![r].overtaken = \E q \in Requests : HoldsStale(q, t)]
  /\ UNCHANGED current

Done(r) ==
  /\ req[r].pc = "done"
  /\ req' = [req EXCEPT ![r] = IdleRequest]
  /\ UNCHANGED <<pool, current>>

(***************************************************************************)
(* The environment.                                                        *)
(***************************************************************************)
\* n8n restarts with its sessions cleared, or the password is changed.
Reset(t) ==
  /\ current[t] < MaxResets
  /\ current' = [current EXCEPT ![t] = @ + 1]
  /\ req' = [r \in Requests |->
              IF req[r].team = t /\ req[r].attempt = 2
                THEN [req[r] EXCEPT !.reset = TRUE] ELSE req[r]]
  /\ UNCHANGED pool

Tick ==
  /\ pool' = [t \in Teams |->
               IF Hit(t) THEN [pool[t] EXCEPT !.left = @ - 1] ELSE pool[t]]
  /\ UNCHANGED <<current, req>>

\* KNOX restarts: the pool was in memory, the requests under way are gone.
Crash ==
  /\ pool' \in Prewarmed(current)
  /\ req' = [r \in Requests |-> IdleRequest]
  /\ UNCHANGED current

GetCookie(r) == Lookup(r) \/ LoginToN8N(r) \/ LoginFails(r) \/ Store(r)
Send(r) == SendAccepted(r) \/ SendDenied(r) \/ SendFails(r)
Step(r) == GetCookie(r) \/ Send(r) \/ Invalidate(r) \/ Done(r)

Next ==
  \/ \E r \in Requests :
       \/ \E t \in Teams, stream \in BOOLEAN : Serve(r, t, stream)
       \/ Step(r)
  \/ \E t \in Teams : Reset(t)
  \/ Tick \/ Crash

Spec == Init /\ [][Next]_vars

\* The clock runs, and every wait in ServeHTTP ends.
Fairness == WF_vars(Tick) /\ \A r \in Requests : WF_vars(Step(r))

FairSpec == Spec /\ Fairness

(***************************************************************************)
(* Properties.                                                             *)
(***************************************************************************)
\* n8n carries a request out once at most, although KNOX may send it twice
\* and answers may get lost: only a request that n8n turned away is sent again
\* (handler.go, ServeHTTP).
AtMostOnce == \A r \in Requests : req[r].executed <= 1

\* The second attempt goes out with a cookie that n8n accepts, whatever other
\* requests of the team do with the pool meanwhile, unless n8n is reset once
\* more or a login from before the reset was waiting to be cached when this
\* request dropped the stale cookie (handler.go, ServeHTTP; pool.go).
RetryIsCurrent ==
  \A r \in Requests :
    req[r].pc = "send" /\ req[r].attempt = 2 /\ ~req[r].reset /\ ~req[r].overtaken
      => Accepted(r)

\* What is cached for t, and what requests are about to cache, n8n accepts.
Clean(t) ==
  /\ pool[t] # NoCookie => pool[t].value = current[t]
  /\ \A q \in Requests : ~HoldsStale(q, t)

\* Only n8n spoils the pool: with the stale cookie dropped and no old login left
\* to be cached, nothing that requests, retries, expiries and restarts do in
\* whatever order brings an old cookie back, although the requests under way
\* may still hold one (pool.go, GetCookie; handler.go, ServeHTTP).
OnlyResetsSpoil ==
  [][\A t \in Teams : Clean(t) /\ current'[t] = current[t] => Clean(t)']_vars

\* The pool hands out a cookie that n8n rejects.
Stale(t) == Hit(t) /\ pool[t].value # current[t]

\* It does not do so for ever, even when only streaming requests come, which
\* never drop the cookie: what is cached expires (pool.go, GetCookie).
StaleCookieLeaves == \A t \in Teams : Stale(t) ~> ~Stale(t)
================================================================================
