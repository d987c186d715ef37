---------------------------- MODULE TeamProxyProofs ----------------------------
(***************************************************************************)
(* TeamProxy: type correctness, n8n carries out no request twice, a retry  *)
(* goes out with a cookie n8n accepts, and only n8n makes what is cached   *)
(* stale, for any number of teams and of requests.                         *)
(*                                                                         *)
(* A request that n8n has carried out is done (ExecutedIsDone), so TypeOK  *)
(* holds executed within its bound and a second attempt starts from 0.     *)
(*                                                                         *)
(* A retry that was neither reset nor overtaken is protected (Protected):  *)
(* since it dropped the stale cookie, all that its team has cached, is     *)
(* about to cache, or has handed to it, is current.  That is inductive,    *)
(* because what is cached is what a request at "store" holds, what it      *)
(* holds is what n8n issued, and a reset ends the protection.              *)
(***************************************************************************)
EXTENDS TeamProxy, TLAPS

ExecutedIsDone ==
  \A r \in Requests : /\ req[r].executed = 0 \/ (req[r].pc = "done" /\ req[r].executed = 1)
                      /\ req[r].pc # "idle" => req[r].team \in Teams
                      /\ req[r].pc \in {"send", "store"} => req[r].cookie \in Generation

TypeInv == TypeOK /\ ExecutedIsDone

\* The record of a second attempt that may count on a current cookie.
Counting(n) == n.pc # "idle" /\ n.attempt = 2 /\ ~n.reset /\ ~n.overtaken
Trusting(r) == Counting(req[r])

Protected ==
  \A r \in Requests : Trusting(r) =>
    /\ \A t \in Teams : t = req[r].team => Clean(t)
    /\ req[r].pc \in {"store", "send"} => Accepted(r)

(***************************************************************************)
(* Types.                                                                  *)
(***************************************************************************)
LEMMA IdleType == IdleRequest \in Request
  BY DEF IdleRequest, Request, PCs

LEMMA CachedType ==
  ASSUME NEW g \in Generation
  PROVE  /\ [value |-> g, left |-> TTL] \in Cached
         /\ [value |-> g, left |-> TTL] # NoCookie
  BY ProxyAssumption DEF Cached, Generation

LEMMA PrewarmedType ==
  ASSUME NEW logins \in [Teams -> Generation], NEW p \in Prewarmed(logins)
  PROVE  p \in [Teams -> Cached \cup {NoCookie}]
  <1>1. PICK warm \in SUBSET Teams :
          p = [t \in Teams |-> IF t \in warm THEN [value |-> logins[t], left |-> TTL]
                                             ELSE NoCookie]
    BY DEF Prewarmed
  <1>2. QED
    BY <1>1, CachedType

LEMMA InitType == Init => TypeInv
  <1> SUFFICES ASSUME Init PROVE TypeInv
    OBVIOUS
  <1>1. 0 \in Generation
    BY ProxyAssumption DEF Generation
  <1>2. TypeOK
    BY <1>1, IdleType, PrewarmedType DEF Init, TypeOK
  <1>3. \A r \in Requests : req[r] = IdleRequest
    BY DEF Init
  <1>4. IdleRequest.pc = "idle" /\ IdleRequest.executed = 0
    BY DEF IdleRequest
  <1>5. ExecutedIsDone
    BY <1>3, <1>4 DEF ExecutedIsDone
  <1>6. QED
    BY <1>2, <1>5 DEF TypeInv

LEMMA PoolType ==
  ASSUME TypeOK, NEW t \in Teams, pool[t] # NoCookie
  PROVE  /\ pool[t] \in Cached
         /\ pool[t].value \in Generation
         /\ pool[t].left \in 0 .. TTL
  BY DEF TypeOK, Cached

\* A step of one request replaces its record by one that is well typed.
LEMMA OneRequest ==
  ASSUME TypeInv, NEW r \in Requests, NEW n \in Request,
         req' = [req EXCEPT ![r] = n],
         n.executed = 0 \/ (n.pc = "done" /\ n.executed = 1),
         n.pc # "idle" => n.team \in Teams,
         n.pc \in {"send", "store"} => n.cookie \in Generation
  PROVE  req' \in [Requests -> Request] /\ ExecutedIsDone'
  BY DEF TypeInv, TypeOK, ExecutedIsDone

\* What the records of requests look like after each kind of update.
LEMMA AnsweredType ==
  ASSUME TypeInv, NEW r \in Requests, NEW status \in {"ok", "401", "502"},
         req[r].pc \notin {"idle", "done"}, Answered(r, status)
  PROVE  req' \in [Requests -> Request] /\ ExecutedIsDone'
  <1> DEFINE n == [req[r] EXCEPT !.pc = "done", !.status = status]
  <1>1. req[r] \in Request /\ req[r].executed = 0 /\ req[r].team \in Teams
    BY DEF TypeInv, TypeOK, ExecutedIsDone
  <1>2. n \in Request /\ n.executed = 0 /\ n.team \in Teams /\ n.pc = "done"
    BY <1>1 DEF Request, PCs
  <1>3. req' = [req EXCEPT ![r] = n]
    BY <1>1 DEF Answered, TypeInv, TypeOK, Request
  <1> HIDE DEF n
  <1>4. /\ n.executed = 0 \/ (n.pc = "done" /\ n.executed = 1)
        /\ n.pc # "idle" => n.team \in Teams
        /\ n.pc \in {"send", "store"} => n.cookie \in Generation
    BY <1>2
  <1>5. QED
    BY <1>2, <1>3, <1>4, OneRequest

\* A request moves on inside ServeHTTP, perhaps with another cookie.
LEMMA MovedType ==
  ASSUME TypeInv, NEW r \in Requests, NEW p \in PCs \ {"idle"},
         NEW c \in Generation \cup {NoCookie},
         p \in {"send", "store"} => c \in Generation,
         req[r].pc \notin {"idle", "done"},
         req' = [req EXCEPT ![r] = [req[r] EXCEPT !.pc = p, !.cookie = c]]
  PROVE  req' \in [Requests -> Request] /\ ExecutedIsDone'
  <1> DEFINE n == [req[r] EXCEPT !.pc = p, !.cookie = c]
  <1>1. req[r] \in Request /\ req[r].executed = 0 /\ req[r].team \in Teams
    BY DEF TypeInv, TypeOK, ExecutedIsDone
  <1>2. /\ n \in Request /\ n.executed = 0 /\ n.team \in Teams
        /\ n.pc = p /\ n.cookie = c
    BY <1>1 DEF Request
  <1>3. req' = [req EXCEPT ![r] = n]
    OBVIOUS
  <1> HIDE DEF n
  <1>4. /\ n.executed = 0 \/ (n.pc = "done" /\ n.executed = 1)
        /\ n.pc # "idle" => n.team \in Teams
        /\ n.pc \in {"send", "store"} => n.cookie \in Generation
    BY <1>2
  <1>5. QED
    BY <1>2, <1>3, <1>4, OneRequest

LEMMA StepType == TypeInv /\ [Next]_vars => TypeInv'
  <1> SUFFICES ASSUME TypeInv, [Next]_vars PROVE TypeInv'
    OBVIOUS
  <1> DEFINE ReqOK == req' \in [Requests -> Request] /\ ExecutedIsDone'
  <1>1. ASSUME NEW r \in Requests, NEW t \in Teams, NEW stream \in BOOLEAN,
               Serve(r, t, stream)
        PROVE  TypeInv'
    <2> DEFINE n == [IdleRequest EXCEPT !.pc = "lookup", !.team = t, !.stream = stream]
    <2>1. /\ n \in Request /\ n.executed = 0 /\ n.team \in Teams /\ n.pc = "lookup"
      <3>1. IdleRequest.executed = 0
        BY DEF IdleRequest
      <3>2. QED
        BY <3>1, IdleType DEF Request, PCs
    <2>2. req' = [req EXCEPT ![r] = n]
      BY <1>1 DEF Serve
    <2> HIDE DEF n
    <2>3. ReqOK
      BY <2>1, <2>2, OneRequest
    <2>4. QED
      BY <1>1, <2>3 DEF TypeInv, TypeOK, Serve
  <1>2. ASSUME NEW r \in Requests, Lookup(r) PROVE TypeInv'
    <2>1. req[r] \in Request /\ req[r].team \in Teams /\ req[r].pc = "lookup"
      BY <1>2 DEF TypeInv, TypeOK, ExecutedIsDone, Lookup
    <2>2. CASE Hit(req[r].team)
      <3> DEFINE c == pool[req[r].team].value
      <3>1. c \in Generation
        BY <2>1, <2>2, PoolType DEF Hit, TypeInv
      <3>2. req' = [req EXCEPT ![r] = [req[r] EXCEPT !.pc = "send", !.cookie = c]]
        BY <1>2, <2>1, <2>2 DEF Lookup, TypeInv, TypeOK, Request
      <3> HIDE DEF c
      <3>3. ReqOK
        BY <2>1, <3>1, <3>2, MovedType DEF PCs
      <3>4. QED
        BY <1>2, <3>3 DEF TypeInv, TypeOK, Lookup
    <2>3. CASE ~Hit(req[r].team)
      <3> DEFINE c == req[r].cookie
      <3>1. c \in Generation \cup {NoCookie}
        BY <2>1 DEF Request
      <3>2. req' = [req EXCEPT ![r] = [req[r] EXCEPT !.pc = "login", !.cookie = c]]
        BY <1>2, <2>1, <2>3 DEF Lookup, TypeInv, TypeOK, Request
      <3> HIDE DEF c
      <3>3. "login" \in PCs \ {"idle"} /\ "login" \notin {"send", "store"}
        BY DEF PCs
      <3>4. req[r].pc \notin {"idle", "done"}
        BY <2>1
      <3>5. ReqOK
        BY <3>1, <3>2, <3>3, <3>4, MovedType
      <3>6. QED
        BY <1>2, <3>5 DEF TypeInv, TypeOK, Lookup
    <2>4. QED
      BY <2>2, <2>3
  <1>3. ASSUME NEW r \in Requests, LoginToN8N(r) PROVE TypeInv'
    <2>1. req[r] \in Request /\ req[r].team \in Teams /\ req[r].pc = "login"
      BY <1>3 DEF TypeInv, TypeOK, ExecutedIsDone, LoginToN8N
    <2> DEFINE c == current[req[r].team]
    <2>2. c \in Generation
      BY <2>1 DEF TypeInv, TypeOK
    <2>3. req' = [req EXCEPT ![r] = [req[r] EXCEPT !.pc = "store", !.cookie = c]]
      BY <1>3, <2>1 DEF LoginToN8N, TypeInv, TypeOK, Request
    <2> HIDE DEF c
    <2>4. ReqOK
      BY <2>1, <2>2, <2>3, MovedType DEF PCs
    <2>5. QED
      BY <1>3, <2>4 DEF TypeInv, TypeOK, LoginToN8N
  <1>4. ASSUME NEW r \in Requests, LoginFails(r) PROVE TypeInv'
    <2>1. ReqOK
      BY <1>4, AnsweredType DEF LoginFails
    <2>2. QED
      BY <1>4, <2>1 DEF TypeInv, TypeOK, LoginFails
  <1>5. ASSUME NEW r \in Requests, Store(r) PROVE TypeInv'
    <2>1. /\ req[r] \in Request /\ req[r].team \in Teams
          /\ req[r].pc = "store" /\ req[r].cookie \in Generation
      BY <1>5 DEF TypeInv, TypeOK, ExecutedIsDone, Store
    <2> DEFINE c == req[r].cookie
    <2>2. req' = [req EXCEPT ![r] = [req[r] EXCEPT !.pc = "send", !.cookie = c]]
      BY <1>5, <2>1 DEF Store, TypeInv, TypeOK, Request
    <2>3. pool' \in [Teams -> Cached \cup {NoCookie}]
      BY <1>5, <2>1, CachedType DEF Store, TypeInv, TypeOK
    <2> HIDE DEF c
    <2>4. c \in Generation
      BY <2>1 DEF c
    <2>5. ReqOK
      BY <2>1, <2>2, <2>4, MovedType DEF PCs
    <2>6. QED
      BY <1>5, <2>3, <2>5 DEF TypeInv, TypeOK, Store
  <1>6. ASSUME NEW r \in Requests, SendAccepted(r) PROVE TypeInv'
    <2>1. PICK status \in {"ok", "502"} :
            req' = [req EXCEPT ![r].pc = "done", ![r].status = status,
                               ![r].executed = @ + 1]
      BY <1>6 DEF SendAccepted
    <2>2. /\ req[r] \in Request /\ req[r].team \in Teams
          /\ req[r].executed = 0
      BY <1>6 DEF TypeInv, TypeOK, ExecutedIsDone, SendAccepted
    <2> DEFINE n == [req[r] EXCEPT !.pc = "done", !.status = status, !.executed = 1]
    <2>3. n \in Request /\ n.executed = 1 /\ n.pc = "done" /\ n.team \in Teams
      <3>1. 1 \in 0 .. 2 /\ "done" \in PCs /\ status \in {"none", "ok", "401", "502"}
        BY DEF PCs
      <3>2. QED
        BY <2>2, <3>1 DEF Request
    <2>4. req' = [req EXCEPT ![r] = n]
      BY <2>1, <2>2 DEF TypeInv, TypeOK, Request
    <2> HIDE DEF n
    <2>5. ReqOK
      BY <2>3, <2>4, OneRequest
    <2>6. QED
      BY <1>6, <2>5 DEF TypeInv, TypeOK, SendAccepted
  <1>7. ASSUME NEW r \in Requests, SendDenied(r) PROVE TypeInv'
    <2>1. req[r] \in Request /\ req[r].team \in Teams /\ req[r].pc = "send"
      BY <1>7 DEF TypeInv, TypeOK, ExecutedIsDone, SendDenied
    <2>2. CASE req[r].stream \/ req[r].attempt = 2
      <3>1. ReqOK
        BY <1>7, <2>1, <2>2, AnsweredType DEF SendDenied
      <3>2. QED
        BY <1>7, <3>1 DEF TypeInv, TypeOK, SendDenied
    <2>3. CASE ~(req[r].stream \/ req[r].attempt = 2)
      <3> DEFINE c == req[r].cookie
      <3>1. c \in Generation \cup {NoCookie}
        BY <2>1 DEF Request
      <3>2. req' = [req EXCEPT ![r] = [req[r] EXCEPT !.pc = "denied", !.cookie = c]]
        BY <1>7, <2>1, <2>3 DEF SendDenied, TypeInv, TypeOK, Request
      <3> HIDE DEF c
      <3>3. "denied" \in PCs \ {"idle"} /\ "denied" \notin {"send", "store"}
        BY DEF PCs
      <3>4. req[r].pc \notin {"idle", "done"}
        BY <2>1
      <3>5. ReqOK
        BY <3>1, <3>2, <3>3, <3>4, MovedType
      <3>6. QED
        BY <1>7, <3>5 DEF TypeInv, TypeOK, SendDenied
    <2>4. QED
      BY <2>2, <2>3
  <1>8. ASSUME NEW r \in Requests, SendFails(r) PROVE TypeInv'
    <2>1. ReqOK
      BY <1>8, AnsweredType DEF SendFails
    <2>2. QED
      BY <1>8, <2>1 DEF TypeInv, TypeOK, SendFails
  <1>9. ASSUME NEW r \in Requests, Invalidate(r) PROVE TypeInv'
    <2>1. /\ req[r] \in Request /\ req[r].team \in Teams
          /\ req[r].executed = 0
      BY <1>9 DEF TypeInv, TypeOK, ExecutedIsDone, Invalidate
    <2> DEFINE o == \E q \in Requests : HoldsStale(q, req[r].team)
               n == [req[r] EXCEPT !.pc = "lookup", !.attempt = 2, !.overtaken = o]
    <2>2. o \in BOOLEAN
      OBVIOUS
    <2>3. req' = [req EXCEPT ![r] = n]
      BY <1>9, <2>1 DEF Invalidate, TypeInv, TypeOK, Request
    <2> HIDE DEF o
    <2>4. n \in Request /\ n.executed = 0 /\ n.pc = "lookup" /\ n.team \in Teams
      BY <2>1, <2>2 DEF Request, PCs
    <2> HIDE DEF n
    <2>5. ReqOK
      BY <2>3, <2>4, OneRequest
    <2>6. QED
      BY <1>9, <2>5 DEF TypeInv, TypeOK, Invalidate
  <1>10. ASSUME NEW r \in Requests, Done(r) PROVE TypeInv'
    <2>1. IdleRequest.pc = "idle" /\ IdleRequest.executed = 0
      BY DEF IdleRequest
    <2>2. ReqOK
      BY <1>10, <2>1, IdleType, OneRequest DEF Done
    <2>3. QED
      BY <1>10, <2>2 DEF TypeInv, TypeOK, Done
  <1>11. ASSUME NEW t \in Teams, Reset(t) PROVE TypeInv'
    <2>1. \A r \in Requests :
            /\ req'[r] \in Request
            /\ req'[r].pc = req[r].pc /\ req'[r].team = req[r].team
            /\ req'[r].cookie = req[r].cookie /\ req'[r].executed = req[r].executed
      BY <1>11 DEF Reset, TypeInv, TypeOK, Request
    <2>2. ExecutedIsDone'
      BY <2>1 DEF TypeInv, ExecutedIsDone
    <2>3. current' \in [Teams -> Generation]
      BY <1>11, ProxyAssumption DEF Reset, TypeInv, TypeOK, Generation
    <2>4. req' \in [Requests -> Request]
      BY <1>11, <2>1 DEF Reset
    <2>5. QED
      BY <1>11, <2>2, <2>3, <2>4 DEF TypeInv, TypeOK, Reset
  <1>12. CASE Tick
    <2>1. ASSUME NEW t \in Teams, Hit(t)
          PROVE  [pool[t] EXCEPT !.left = @ - 1] \in Cached
      <3>1. pool[t] \in Cached /\ pool[t].left \in 0 .. TTL /\ pool[t].left > 0
        BY <2>1, PoolType DEF Hit, TypeInv
      <3>2. pool[t].left - 1 \in 0 .. TTL
        BY <3>1, ProxyAssumption
      <3>3. QED
        BY <3>1, <3>2 DEF Cached
    <2>2. QED
      BY <1>12, <2>1 DEF TypeInv, TypeOK, ExecutedIsDone, Tick
  <1>13. CASE Crash
    <2>1. IdleRequest.pc = "idle" /\ IdleRequest.executed = 0
      BY DEF IdleRequest
    <2>2. \A r \in Requests : req'[r] = IdleRequest
      BY <1>13 DEF Crash
    <2>3. ExecutedIsDone'
      BY <2>1, <2>2 DEF ExecutedIsDone
    <2>4. QED
      BY <1>13, <2>3, IdleType, PrewarmedType DEF TypeInv, TypeOK, Crash
  <1>14. CASE UNCHANGED vars
    BY <1>14 DEF TypeInv, TypeOK, ExecutedIsDone, vars
  <1>15. QED
    BY <1>1, <1>2, <1>3, <1>4, <1>5, <1>6, <1>7, <1>8, <1>9, <1>10, <1>11, <1>12,
       <1>13, <1>14 DEF Next, Step, GetCookie, Send

LEMMA TypeInvariant == Spec => []TypeInv
  BY InitType, StepType, PTL DEF Spec

\* Every variable keeps its type, for every number of teams and requests.
THEOREM TypeCorrect == Spec => []TypeOK
  <1>1. TypeInv => TypeOK
    BY DEF TypeInv
  <1>2. QED
    BY <1>1, TypeInvariant, PTL

\* n8n carries out no request twice, although KNOX may send it twice
\* (handler.go, ServeHTTP).
THEOREM NoRequestTwice == Spec => []AtMostOnce
  <1>1. TypeInv => AtMostOnce
    <2> SUFFICES ASSUME TypeInv, NEW r \in Requests PROVE req[r].executed <= 1
      BY DEF AtMostOnce
    <2>1. QED
      BY DEF TypeInv, ExecutedIsDone
  <1>2. QED
    BY <1>1, TypeInvariant, PTL

(***************************************************************************)
(* Retries.                                                                *)
(***************************************************************************)
RetryInv == TypeInv /\ Protected

LEMMA InitRetry == Init => RetryInv
  <1>1. IdleRequest.pc = "idle"
    BY DEF IdleRequest
  <1>2. Init => Protected
    BY <1>1 DEF Init, Protected, Trusting, Counting
  <1>3. QED
    BY <1>2, InitType DEF RetryInv

\* A step of request p that leaves n8n alone: it may cache what it holds, or
\* remove what is cached; if it comes to hold a cookie to be cached, or to be
\* sent by a retry, that cookie is current; and it begins to count on that
\* only after emptying the cache, with no stale login left.
LEMMA OneMoves ==
  ASSUME RetryInv, TypeInv', NEW p \in Requests, NEW n \in Request,
         req' = [req EXCEPT ![p] = n], current' = current,
         \A t \in Teams : pool'[t] # NoCookie =>
           \/ pool'[t] = pool[t]
           \/ /\ t = req[p].team /\ req[p].pc = "store"
              /\ pool'[t].value = req[p].cookie,
         n.pc = "store" => n.cookie = current[n.team],
         Counting(n) /\ n.pc = "send" => n.cookie = current[n.team],
         Counting(n) =>
           \/ Trusting(p) /\ n.team = req[p].team
           \/ pool'[n.team] = NoCookie /\ \A q \in Requests : ~HoldsStale(q, n.team)
  PROVE  Protected'
  <1>1. \A q \in Requests : req'[q] = IF q = p THEN n ELSE req[q]
    BY DEF RetryInv, TypeInv, TypeOK
  <1> SUFFICES ASSUME NEW r \in Requests, Trusting(r)', NEW t \in Teams, t = req'[r].team
               PROVE  Clean(t)' /\ (req'[r].pc \in {"store", "send"} => Accepted(r)')
    <2>1. ASSUME NEW r \in Requests, Trusting(r)' PROVE req'[r].team \in Teams
      BY <2>1 DEF Trusting, Counting, TypeInv, ExecutedIsDone
    <2>2. QED
      BY <2>1 DEF Protected
  <1>2. Counting(req'[r])
    BY DEF Trusting, Counting
  <1>4. \/ Trusting(r) /\ req[r].team = t
        \/ r = p /\ pool'[t] = NoCookie /\ \A q \in Requests : ~HoldsStale(q, t)
    <2>1. CASE r = p
      BY <1>1, <1>2, <2>1
    <2>2. CASE r # p
      BY <1>1, <1>2, <2>2 DEF Trusting
    <2>3. QED
      BY <2>1, <2>2
  <1>5. \A q \in Requests : ~HoldsStale(q, t)
    BY <1>4 DEF RetryInv, Protected, Clean
  <1>6. pool'[t] # NoCookie => pool'[t].value = current'[t]
    <2> SUFFICES ASSUME pool'[t] # NoCookie PROVE pool'[t].value = current[t]
      OBVIOUS
    <2>1. CASE pool'[t] = pool[t]
      BY <1>4, <2>1 DEF RetryInv, Protected, Clean
    <2>2. CASE t = req[p].team /\ req[p].pc = "store" /\ pool'[t].value = req[p].cookie
      BY <1>5, <2>2 DEF HoldsStale, Accepted
    <2>3. QED
      BY <2>1, <2>2
  <1>7. ASSUME NEW q \in Requests PROVE ~HoldsStale(q, t)'
    <2>1. CASE q = p
      BY <1>1, <2>1 DEF HoldsStale, Accepted
    <2>2. CASE q # p
      BY <1>1, <1>5, <2>2 DEF HoldsStale, Accepted
    <2>3. QED
      BY <2>1, <2>2
  <1>8. req'[r].pc \in {"store", "send"} => Accepted(r)'
    <2>1. CASE r = p
      BY <1>1, <1>2, <2>1 DEF Accepted
    <2>2. CASE r # p
      <3>1. Trusting(r) /\ req'[r] = req[r]
        BY <1>1, <1>4, <2>2
      <3>2. QED
        BY <3>1 DEF Accepted, RetryInv, Protected
    <2>3. QED
      BY <2>1, <2>2
  <1>9. QED
    BY <1>6, <1>7, <1>8 DEF Clean

LEMMA StepRetry == RetryInv /\ [Next]_vars => RetryInv'
  <1> SUFFICES ASSUME RetryInv, [Next]_vars PROVE Protected'
    BY StepType DEF RetryInv
  <1>a. TypeInv'
    BY StepType DEF RetryInv
  <1>b. \A r \in Requests : /\ req[r] \in Request /\ req'[r] \in Request
                            /\ req[r].pc # "idle" => req[r].team \in Teams
    BY <1>a DEF RetryInv, TypeInv, TypeOK, ExecutedIsDone
  <1>1. ASSUME NEW r \in Requests, NEW t \in Teams, NEW stream \in BOOLEAN,
               Serve(r, t, stream)
        PROVE  Protected'
    <2> DEFINE n == [IdleRequest EXCEPT !.pc = "lookup", !.team = t, !.stream = stream]
    <2>1. n = req'[r] /\ req' = [req EXCEPT ![r] = n]
      BY <1>1 DEF Serve, RetryInv, TypeInv, TypeOK
    <2>2. n.pc = "lookup" /\ n.attempt = 1
      BY DEF IdleRequest
    <2> HIDE DEF n
    <2>3. n \in Request /\ ~Counting(n)
      BY <1>b, <2>1, <2>2 DEF Counting
    <2>4. QED
      BY <1>1, <1>a, <2>1, <2>2, <2>3, OneMoves DEF Serve
  <1>2. ASSUME NEW r \in Requests, Lookup(r) PROVE Protected'
    <2>1. req[r].team \in Teams
      BY <1>2, <1>b DEF Lookup
    <2> DEFINE t == req[r].team
               n == IF Hit(t) THEN [req[r] EXCEPT !.pc = "send", !.cookie = pool[t].value]
                              ELSE [req[r] EXCEPT !.pc = "login"]
    <2>2. n = req'[r] /\ req' = [req EXCEPT ![r] = n]
      BY <1>2, <1>b DEF Lookup, RetryInv, TypeInv, TypeOK, Request
    <2>3. /\ n.team = t /\ n.pc \in {"send", "login"}
          /\ n.attempt = req[r].attempt /\ n.reset = req[r].reset
          /\ n.overtaken = req[r].overtaken
          /\ n.pc = "send" => Hit(t) /\ n.cookie = pool[t].value
      BY <1>b DEF Request
    <2>4. Counting(n) => Trusting(r)
      BY <1>2, <2>3 DEF Counting, Trusting, Lookup
    <2>5. Counting(n) /\ n.pc = "send" => n.cookie = current[t]
      BY <2>1, <2>3, <2>4 DEF RetryInv, Protected, Clean, Hit
    <2>6. n \in Request
      BY <1>b, <2>2
    <2> HIDE DEF n
    <2>7. pool' = pool /\ current' = current
      BY <1>2 DEF Lookup
    <2>8. n.pc # "store" /\ n.team = req[r].team
      BY <2>3
    <2>9. Counting(n) /\ n.pc = "send" => n.cookie = current[n.team]
      BY <2>5, <2>8
    <2>10. QED
      BY <1>a, <2>2, <2>4, <2>6, <2>7, <2>8, <2>9, OneMoves
  <1>3. ASSUME NEW r \in Requests, LoginToN8N(r) PROVE Protected'
    <2> DEFINE n == [req[r] EXCEPT !.pc = "store", !.cookie = current[req[r].team]]
    <2>1. n = req'[r] /\ req' = [req EXCEPT ![r] = n]
      BY <1>3, <1>b DEF LoginToN8N, RetryInv, TypeInv, TypeOK, Request
    <2>2. /\ n.team = req[r].team /\ n.pc = "store" /\ n.cookie = current[n.team]
          /\ n.attempt = req[r].attempt /\ n.reset = req[r].reset
          /\ n.overtaken = req[r].overtaken
      BY <1>b DEF Request
    <2>3. n \in Request
      BY <1>b, <2>1
    <2> HIDE DEF n
    <2>4. Counting(n) => Trusting(r)
      BY <1>3, <2>2 DEF Counting, Trusting, LoginToN8N
    <2>5. QED
      BY <1>3, <1>a, <2>1, <2>2, <2>3, <2>4, OneMoves DEF LoginToN8N
  <1>4. ASSUME NEW r \in Requests, Store(r) PROVE Protected'
    <2> DEFINE n == [req[r] EXCEPT !.pc = "send"]
    <2>1. n = req'[r] /\ req' = [req EXCEPT ![r] = n]
      BY <1>4, <1>b DEF Store, RetryInv, TypeInv, TypeOK, Request
    <2>2. /\ n.team = req[r].team /\ n.pc = "send" /\ n.cookie = req[r].cookie
          /\ n.attempt = req[r].attempt /\ n.reset = req[r].reset
          /\ n.overtaken = req[r].overtaken
      BY <1>b DEF Request
    <2>3. n \in Request
      BY <1>b, <2>1
    <2> HIDE DEF n
    <2>4. Counting(n) => Trusting(r)
      BY <1>4, <2>2 DEF Counting, Trusting, Store
    <2>5. Counting(n) => n.cookie = current[n.team]
      BY <1>4, <2>2, <2>4 DEF RetryInv, Protected, Accepted, Store
    <2>6. \A t \in Teams : \/ pool'[t] = pool[t]
                           \/ t = req[r].team /\ pool'[t].value = req[r].cookie
      BY <1>4 DEF Store, RetryInv, TypeInv, TypeOK
    <2>7. req[r].pc = "store" /\ current' = current
      BY <1>4 DEF Store
    <2>8. QED
      BY <1>a, <2>1, <2>2, <2>3, <2>4, <2>5, <2>6, <2>7, OneMoves
  \* The steps that end a request, or turn it back from n8n.
  <1>5. ASSUME NEW r \in Requests, LoginFails(r) \/ Send(r) \/ Done(r) PROVE Protected'
    <2> DEFINE n == req'[r]
    <2>1. req' = [req EXCEPT ![r] = n] /\ UNCHANGED <<pool, current>>
      BY <1>5, <1>b DEF LoginFails, Send, SendAccepted, SendDenied, SendFails, Done,
                        Answered, RetryInv, TypeInv, TypeOK
    <2>2. n.pc \in {"idle", "done"} \/ (n.pc = "denied" /\ ~Counting(n))
      <3>1. CASE LoginFails(r)
        BY <1>b, <3>1 DEF LoginFails, Answered, RetryInv, TypeInv, TypeOK, Request
      <3>2. CASE SendAccepted(r)
        BY <1>b, <3>2 DEF SendAccepted, RetryInv, TypeInv, TypeOK, Request
      <3>3. CASE SendDenied(r)
        BY <1>b, <3>3 DEF SendDenied, Answered, Counting, RetryInv, TypeInv, TypeOK, Request
      <3>4. CASE SendFails(r)
        BY <1>b, <3>4 DEF SendFails, Answered, RetryInv, TypeInv, TypeOK, Request
      <3>5. CASE Done(r)
        BY <3>5 DEF Done, IdleRequest, RetryInv, TypeInv, TypeOK
      <3>6. QED
        BY <1>5, <3>1, <3>2, <3>3, <3>4, <3>5 DEF Send
    <2>3. Counting(n) => Trusting(r) /\ n.team = req[r].team
      <3>1. CASE Done(r)
        BY <3>1 DEF Done, IdleRequest, Counting, RetryInv, TypeInv, TypeOK
      <3>2. CASE LoginFails(r) \/ Send(r)
        <4>1. /\ n.team = req[r].team /\ n.attempt = req[r].attempt
              /\ n.reset = req[r].reset /\ n.overtaken = req[r].overtaken
              /\ req[r].pc # "idle"
          BY <1>b, <3>2 DEF LoginFails, Send, SendAccepted, SendDenied, SendFails,
                            Answered, RetryInv, TypeInv, TypeOK, Request
        <4>2. QED
          BY <4>1 DEF Counting, Trusting
      <3>3. QED
        BY <1>5, <3>1, <3>2
    <2>4. n \in Request
      BY <1>b
    <2>5. n.pc \notin {"store", "send"}
      BY <2>2
    <2>6. QED
      BY <1>a, <2>1, <2>3, <2>4, <2>5, OneMoves
  <1>6. ASSUME NEW r \in Requests, Invalidate(r) PROVE Protected'
    <2>1. req[r].team \in Teams
      BY <1>6, <1>b DEF Invalidate
    <2> DEFINE o == \E q \in Requests : HoldsStale(q, req[r].team)
               n == [req[r] EXCEPT !.pc = "lookup", !.attempt = 2, !.overtaken = o]
    <2>2. n = req'[r] /\ req' = [req EXCEPT ![r] = n]
      BY <1>6, <1>b DEF Invalidate, RetryInv, TypeInv, TypeOK, Request
    <2>3. n.team = req[r].team /\ n.pc = "lookup" /\ n.overtaken = o
      BY <1>b DEF Request
    <2>4. n \in Request
      BY <1>b, <2>2
    <2> HIDE DEF n
    <2>5. Counting(n) => \A q \in Requests : ~HoldsStale(q, n.team)
      BY <2>3 DEF Counting
    <2>6. \A t \in Teams : pool'[t] = IF t = req[r].team THEN NoCookie ELSE pool[t]
      BY <1>6 DEF Invalidate, RetryInv, TypeInv, TypeOK
    <2>7. current' = current
      BY <1>6 DEF Invalidate
    <2> HIDE DEF o
    <2>8. QED
      BY <1>a, <2>1, <2>2, <2>3, <2>4, <2>5, <2>6, <2>7, OneMoves
  <1>7. ASSUME NEW t \in Teams, Reset(t) PROVE Protected'
    <2>1. \A r \in Requests :
            /\ req'[r].pc = req[r].pc /\ req'[r].team = req[r].team
            /\ req'[r].cookie = req[r].cookie /\ req'[r].attempt = req[r].attempt
            /\ req'[r].overtaken = req[r].overtaken
            /\ req[r].reset => req'[r].reset
            /\ req[r].team = t /\ req[r].attempt = 2 => req'[r].reset
      BY <1>7, <1>b DEF Reset, Request
    <2>2. \A u \in Teams \ {t} : current'[u] = current[u] /\ pool'[u] = pool[u]
      BY <1>7 DEF Reset, RetryInv, TypeInv, TypeOK
    <2>3. \A r \in Requests : Trusting(r)' => Trusting(r) /\ req[r].team \in Teams \ {t}
      BY <1>b, <2>1 DEF Trusting, Counting
    <2>4. \A u \in Teams \ {t} : Clean(u) => Clean(u)'
      BY <2>1, <2>2 DEF Clean, HoldsStale, Accepted
    <2>5. QED
      BY <2>1, <2>2, <2>3, <2>4 DEF RetryInv, Protected, Accepted
  <1>8. CASE Tick
    <2>1. /\ req' = req /\ current' = current
          /\ \A t \in Teams : pool'[t] # NoCookie =>
               pool[t] # NoCookie /\ pool'[t].value = pool[t].value
      BY <1>8 DEF Tick, Hit, RetryInv, TypeInv, TypeOK, Cached
    <2>2. \A t \in Teams : Clean(t) => Clean(t)'
      BY <2>1 DEF Clean, HoldsStale, Accepted
    <2>3. QED
      BY <2>1, <2>2 DEF RetryInv, Protected, Trusting, Accepted
  <1>9. CASE Crash
    <2>1. \A r \in Requests : req'[r].pc = "idle"
      BY <1>9 DEF Crash, IdleRequest
    <2>2. QED
      BY <2>1 DEF Protected, Trusting, Counting
  <1>10. CASE UNCHANGED vars
    BY <1>10 DEF vars, RetryInv, Protected, Trusting, Clean, HoldsStale, Accepted
  <1>11. QED
    BY <1>1, <1>2, <1>3, <1>4, <1>5, <1>6, <1>7, <1>8, <1>9, <1>10
       DEF Next, Step, GetCookie

LEMMA RetryInvariant == Spec => []RetryInv
  BY InitRetry, StepRetry, PTL DEF Spec

\* A retry goes out with a cookie n8n accepts, whatever the team's other
\* requests do with the pool, unless it was reset or overtaken (handler.go,
\* ServeHTTP; pool.go, GetCookie and Invalidate).
THEOREM RetrySucceeds == Spec => []RetryIsCurrent
  <1>1. RetryInv => RetryIsCurrent
    BY DEF RetryInv, Protected, RetryIsCurrent, Trusting, Counting
  <1>2. QED
    BY <1>1, RetryInvariant, PTL

(***************************************************************************)
(* The pool.                                                               *)
(***************************************************************************)
\* A step of request p that leaves n8n alone keeps t clean, if it caches only
\* what it held to be cached and comes to hold only what is current.
LEMMA OneKeepsClean ==
  ASSUME TypeInv, NEW t \in Teams, Clean(t), NEW p \in Requests, NEW n \in Request,
         req' = [req EXCEPT ![p] = n], current' = current,
         pool'[t] # NoCookie =>
           \/ pool'[t] = pool[t]
           \/ /\ t = req[p].team /\ req[p].pc = "store"
              /\ pool'[t].value = req[p].cookie,
         n.pc = "store" => n.cookie = current[n.team]
  PROVE  Clean(t)'
  <1>1. \A q \in Requests : req'[q] = IF q = p THEN n ELSE req[q]
    BY DEF TypeInv, TypeOK
  <1>2. pool'[t] # NoCookie => pool'[t].value = current'[t]
    BY DEF Clean, HoldsStale, Accepted
  <1>3. ASSUME NEW q \in Requests PROVE ~HoldsStale(q, t)'
    BY <1>1 DEF Clean, HoldsStale, Accepted
  <1>4. QED
    BY <1>2, <1>3 DEF Clean

\* A pool that n8n accepts stays so until n8n is reset, for any number of
\* teams and requests (pool.go, GetCookie: what is stored under the write lock
\* was issued to this very call).
THEOREM PoolStaysCurrent == Spec => OnlyResetsSpoil
  <1>1. ASSUME TypeInv, TypeInv', [Next]_vars, NEW t \in Teams, Clean(t),
               current'[t] = current[t]
        PROVE  Clean(t)'
    <2>1. ASSUME NEW r \in Requests,
                 \/ \E u \in Teams, stream \in BOOLEAN : Serve(r, u, stream)
                 \/ Lookup(r) \/ LoginFails(r) \/ Send(r) \/ Done(r)
          PROVE  Clean(t)'
      <3> DEFINE n == req'[r]
      <3>1. req' = [req EXCEPT ![r] = n] /\ UNCHANGED <<pool, current>> /\ n \in Request
        BY <1>1, <2>1 DEF Serve, Lookup, LoginFails, Send, SendAccepted, SendDenied,
                          SendFails, Done, Answered, TypeInv, TypeOK
      <3>2. n.pc # "store"
        <4>1. CASE \E u \in Teams, stream \in BOOLEAN : Serve(r, u, stream)
          BY <1>1, <4>1 DEF Serve, IdleRequest, TypeInv, TypeOK
        <4>2. CASE Lookup(r) \/ LoginFails(r) \/ Send(r)
          BY <1>1, <4>2 DEF Lookup, LoginFails, Send, SendAccepted, SendDenied, SendFails,
                            Answered, TypeInv, TypeOK, Request
        <4>3. CASE Done(r)
          BY <1>1, <4>3 DEF Done, IdleRequest, TypeInv, TypeOK
        <4>4. QED
          BY <2>1, <4>1, <4>2, <4>3
      <3> HIDE DEF n
      <3>3. QED
        BY <1>1, <3>1, <3>2, OneKeepsClean
    <2>2. ASSUME NEW r \in Requests, LoginToN8N(r) PROVE Clean(t)'
      <3> DEFINE n == [req[r] EXCEPT !.pc = "store", !.cookie = current[req[r].team]]
      <3>1. req' = [req EXCEPT ![r] = n] /\ UNCHANGED <<pool, current>> /\ n = req'[r]
        BY <1>1, <2>2 DEF LoginToN8N, TypeInv, TypeOK, Request
      <3>2. n \in Request /\ n.cookie = current[n.team]
        BY <1>1, <3>1 DEF TypeInv, TypeOK, Request
      <3> HIDE DEF n
      <3>3. QED
        BY <1>1, <3>1, <3>2, OneKeepsClean
    <2>3. ASSUME NEW r \in Requests, Store(r) PROVE Clean(t)'
      <3> DEFINE n == [req[r] EXCEPT !.pc = "send"]
      <3>1. req' = [req EXCEPT ![r] = n] /\ n = req'[r] /\ n.pc = "send" /\ n \in Request
        BY <1>1, <2>3 DEF Store, TypeInv, TypeOK, Request
      <3>2. /\ current' = current /\ req[r].pc = "store"
            /\ pool'[t] = pool[t] \/ (t = req[r].team /\ pool'[t].value = req[r].cookie)
        BY <1>1, <2>3 DEF Store, TypeInv, TypeOK
      <3> HIDE DEF n
      <3>3. QED
        BY <1>1, <3>1, <3>2, OneKeepsClean
    <2>4. ASSUME NEW r \in Requests, Invalidate(r) PROVE Clean(t)'
      <3>1. req' = [req EXCEPT ![r] = req'[r]] /\ req'[r].pc = "lookup" /\ req'[r] \in Request
        BY <1>1, <2>4 DEF Invalidate, TypeInv, TypeOK, Request
      <3>2. current' = current /\ (pool'[t] # NoCookie => pool'[t] = pool[t])
        BY <1>1, <2>4 DEF Invalidate, TypeInv, TypeOK
      <3> DEFINE n == req'[r]
      <3>3. req' = [req EXCEPT ![r] = n] /\ n.pc = "lookup" /\ n \in Request
        BY <3>1
      <3> HIDE DEF n
      <3>4. QED
        BY <1>1, <3>2, <3>3, OneKeepsClean
    <2>5. ASSUME NEW u \in Teams, Reset(u) PROVE Clean(t)'
      <3>1. \A r \in Requests : /\ req'[r].pc = req[r].pc /\ req'[r].team = req[r].team
                                /\ req'[r].cookie = req[r].cookie
        BY <1>1, <2>5 DEF Reset, Request, TypeInv, TypeOK
      <3>2. pool' = pool
        BY <2>5 DEF Reset
      <3>3. QED
        BY <1>1, <3>1, <3>2 DEF Clean, HoldsStale, Accepted
    <2>6. CASE Tick
      <3>1. /\ req' = req /\ current' = current
            /\ pool'[t] # NoCookie => pool[t] # NoCookie /\ pool'[t].value = pool[t].value
        BY <1>1, <2>6 DEF Tick, Hit, TypeInv, TypeOK, Cached
      <3>2. QED
        BY <1>1, <3>1 DEF Clean, HoldsStale, Accepted
    <2>7. CASE Crash
      <3>1. pool'[t] # NoCookie => pool'[t].value = current[t]
        BY <2>7 DEF Crash, Prewarmed
      <3>2. \A r \in Requests : req'[r].pc = "idle"
        BY <2>7 DEF Crash, IdleRequest
      <3>3. QED
        BY <1>1, <3>1, <3>2 DEF Clean, HoldsStale
    <2>8. CASE UNCHANGED vars
      BY <1>1, <2>8 DEF vars, Clean, HoldsStale, Accepted
    <2>9. QED
      BY <1>1, <2>1, <2>2, <2>3, <2>4, <2>5, <2>6, <2>7, <2>8 DEF Next, Step, GetCookie
  <1>2. TypeInv /\ TypeInv' /\ [Next]_vars =>
          [\A t \in Teams : Clean(t) /\ current'[t] = current[t] => Clean(t)']_vars
    BY <1>1
  <1>3. QED
    BY <1>2, TypeInvariant, PTL DEF Spec, OnlyResetsSpoil
================================================================================
