----------------------------- MODULE SessionsProofs ----------------------------
(***************************************************************************)
(* Sign-on: type correctness, and what the reverse index from Keycloak     *)
(* session ids is worth, for any number of browsers, logins and sessions.  *)
(*                                                                         *)
(* The invariant is TypeOK /\ IndexSound /\ IndexComplete.  IndexSound is  *)
(* inductive with TypeOK alone: whatever removes a session removes the     *)
(* entry of its sid too.  IndexComplete needs IndexSound, because removing *)
(* one session deletes the entry of its sid even when the entry leads to   *)
(* another: that other session is then one of two of the same sid, and     *)
(* since an entry leads to one of them only, the sid was already shared.   *)
(***************************************************************************)
EXTENDS Sessions, TLAPS

(***************************************************************************)
(* Types.  TypeOK alone is not inductive: CallbackHandler creates a        *)
(* session for the sid of its flow, so a flow that has been through        *)
(* Keycloak must have one.                                                 *)
(***************************************************************************)
SignedOn ==
  \A f \in Flows :
    /\ flow[f].pc # "idle" => flow[f].browser \in Browsers
    /\ flow[f].pc \in {"code", "exchange", "create", "reply"} => flow[f].sid \in Sids

TypeInv == TypeOK /\ SignedOn

LEMMA StoredType ==
  ASSUME TypeOK, NEW i \in Ids, Stored(i)
  PROVE  /\ sessions[i] \in Session
         /\ sessions[i].sid \in Sids
         /\ sessions[i].left \in 0 .. MaxAge
  BY DEF TypeOK, Stored, Session

LEMMA IdleType == IdleFlow \in Flow
  BY DEF IdleFlow, Flow, FlowPCs

\* A flow that moves on to another place is a flow.
LEMMA MovedFlow ==
  ASSUME NEW r \in Flow, NEW p \in FlowPCs
  PROVE  [r EXCEPT !.pc = p] \in Flow
  BY DEF Flow

LEMMA CreateType ==
  ASSUME TypeOK, NEW i \in Ids, NEW s \in Sids, CreateSession(i, s)
  PROVE  /\ sessions' \in [Ids -> Session \cup {NoSession}]
         /\ sidIndex' \in [Sids -> Ids \cup {NoId}]
         /\ shared' \in SUBSET Sids
  <1>1. [sid |-> s, left |-> MaxAge] \in Session
    BY SessionsAssumption DEF Session
  <1>2. QED
    BY <1>1 DEF TypeOK, CreateSession

LEMMA RemoveType ==
  ASSUME TypeOK, NEW gone, Remove(gone)
  PROVE  /\ sessions' \in [Ids -> Session \cup {NoSession}]
         /\ sidIndex' \in [Sids -> Ids \cup {NoId}]
  BY DEF TypeOK, Remove

LEMMA LessType ==
  ASSUME NEW m \in Nat, NEW n \in 0 .. m
  PROVE  Less(n) \in 0 .. m
  BY DEF Less

LEMMA InitType == Init => TypeInv
  BY IdleType DEF Init, TypeInv, TypeOK, SignedOn, IdleFlow

\* What the steps of a login have in common: they change the record of one
\* flow, which stays well typed.
LEMMA FlowStep ==
  ASSUME TypeInv, NEW f \in Flows, NEW r \in Flow,
         flow' = [flow EXCEPT ![f] = r],
         r.pc # "idle" => r.browser \in Browsers,
         r.pc \in {"code", "exchange", "create", "reply"} => r.sid \in Sids
  PROVE  flow' \in [Flows -> Flow] /\ SignedOn'
  BY DEF TypeInv, TypeOK, SignedOn

LEMMA IdleStep ==
  ASSUME TypeInv, NEW f \in Flows, flow' = [flow EXCEPT ![f] = IdleFlow]
  PROVE  flow' \in [Flows -> Flow] /\ SignedOn'
  BY FlowStep, IdleType DEF IdleFlow

\* A flow that has been through Keycloak moves on.
LEMMA MoveStep ==
  ASSUME TypeInv, NEW f \in Flows, NEW p \in FlowPCs,
         flow[f].pc \in {"code", "exchange", "create", "reply"},
         flow' = [flow EXCEPT ![f] = [flow[f] EXCEPT !.pc = p]]
  PROVE  flow' \in [Flows -> Flow] /\ SignedOn'
  <1>1. flow[f] \in Flow /\ flow[f].browser \in Browsers /\ flow[f].sid \in Sids
    BY DEF TypeInv, TypeOK, SignedOn
  <1>2. [flow[f] EXCEPT !.pc = p] \in Flow
    BY <1>1, MovedFlow
  <1>3. /\ [flow[f] EXCEPT !.pc = p].browser = flow[f].browser
        /\ [flow[f] EXCEPT !.pc = p].sid = flow[f].sid
    BY <1>1 DEF Flow
  <1>4. QED
    BY <1>1, <1>2, <1>3, FlowStep

LEMMA StepType == TypeInv /\ [Next]_vars => TypeInv'
  <1> SUFFICES ASSUME TypeInv, [Next]_vars PROVE TypeInv'
    OBVIOUS
  <1> USE DEF knox, world
  <1>1. ASSUME NEW f \in Flows, NEW b \in Browsers, Login(f, b) PROVE TypeInv'
    <2> DEFINE r == [IdleFlow EXCEPT !.pc = "login", !.browser = b]
    <2>1. r \in Flow /\ r.browser \in Browsers /\ r.pc = "login"
      BY DEF IdleFlow, Flow, FlowPCs
    <2>2. flow' \in [Flows -> Flow] /\ SignedOn'
      BY <1>1, <2>1, FlowStep DEF Login
    <2>3. StateAge \in 0 .. StateAge
      BY SessionsAssumption
    <2>4. QED
      BY <1>1, <2>2, <2>3 DEF TypeInv, TypeOK, Login
  <1>2. ASSUME NEW f \in Flows, Authenticate(f) PROVE TypeInv'
    <2> DEFINE b == flow[f].browser
               own == sso[b] # NoSid /\ kc[sso[b]] = "live"
    <2>1. flow[f] \in Flow /\ b \in Browsers
      BY <1>2 DEF TypeInv, TypeOK, SignedOn, Authenticate
    <2>2. ASSUME NEW s \in Sids,
                 flow' = [flow EXCEPT ![f].pc = "code", ![f].sid = s]
          PROVE  flow' \in [Flows -> Flow] /\ SignedOn'
      <3> DEFINE r == [flow[f] EXCEPT !.pc = "code", !.sid = s]
      <3>1. r \in Flow /\ r.browser = b /\ r.sid = s
        BY <2>1 DEF Flow, FlowPCs
      <3>2. flow' = [flow EXCEPT ![f] = r]
        BY <2>1, <2>2 DEF TypeInv, TypeOK, Flow
      <3> HIDE DEF r
      <3>3. QED
        BY <2>1, <3>1, <3>2, FlowStep
    <2>3. CASE own
      <3>1. sso[b] \in Sids
        BY <2>1, <2>3 DEF TypeInv, TypeOK
      <3>2. flow' = [flow EXCEPT ![f].pc = "code", ![f].sid = sso[b]]
        BY <1>2, <2>3 DEF Authenticate
      <3>3. QED
        BY <1>2, <2>2, <2>3, <3>1, <3>2 DEF TypeInv, TypeOK, Authenticate
    <2>4. CASE ~own
      <3>1. PICK s \in Sids :
              /\ kc' = [kc EXCEPT ![s] = "live"]
              /\ sso' = [sso EXCEPT ![b] = s]
              /\ flow' = [flow EXCEPT ![f].pc = "code", ![f].sid = s]
        BY <1>2, <2>4 DEF Authenticate
      <3>2. flow' \in [Flows -> Flow] /\ SignedOn'
        BY <2>2, <3>1
      <3>3. QED
        BY <1>2, <3>1, <3>2 DEF TypeInv, TypeOK, Authenticate
    <2>5. QED
      BY <2>3, <2>4
  <1>3. ASSUME NEW f \in Flows, Abandon(f) \/ CallbackError(f) PROVE TypeInv'
    BY <1>3, IdleStep DEF TypeInv, TypeOK, Abandon, CallbackError
  <1>4. ASSUME NEW f \in Flows, TakeState(f) PROVE TypeInv'
    <2>1. flow' \in [Flows -> Flow] /\ SignedOn'
      BY <1>4, IdleStep, MoveStep DEF TakeState, FlowPCs
    <2>2. QED
      BY <1>4, <2>1 DEF TypeInv, TypeOK, TakeState
  <1>5. ASSUME NEW f \in Flows, Exchange(f) PROVE TypeInv'
    <2>1. flow' \in [Flows -> Flow] /\ SignedOn'
      BY <1>5, IdleStep, MoveStep DEF Exchange, FlowPCs
    <2>2. QED
      BY <1>5, <2>1 DEF TypeInv, TypeOK, Exchange
  <1>6. ASSUME NEW f \in Flows, ExchangeFails(f) PROVE TypeInv'
    BY <1>6, IdleStep DEF TypeInv, TypeOK, ExchangeFails
  <1>7. ASSUME NEW f \in Flows, Create(f) PROVE TypeInv'
    <2>1. PICK i \in Ids : /\ CreateSession(i, flow[f].sid)
                           /\ flow' = [flow EXCEPT ![f].pc = "reply", ![f].id = i]
      BY <1>7 DEF Create
    <2>2. flow[f] \in Flow /\ flow[f].sid \in Sids /\ flow[f].browser \in Browsers
      BY <1>7 DEF TypeInv, TypeOK, SignedOn, Create
    <2> DEFINE r == [flow[f] EXCEPT !.pc = "reply", !.id = i]
    <2>3. r \in Flow /\ r.browser = flow[f].browser /\ r.sid = flow[f].sid
      BY <2>2 DEF Flow, FlowPCs
    <2>4. flow' = [flow EXCEPT ![f] = r]
      BY <2>1, <2>2 DEF TypeInv, TypeOK, Flow
    <2> HIDE DEF r
    <2>5. flow' \in [Flows -> Flow] /\ SignedOn'
      BY <2>2, <2>3, <2>4, FlowStep
    <2>6. QED
      BY <1>7, <2>1, <2>2, <2>5, CreateType DEF TypeInv, TypeOK, Create
  <1>8. ASSUME NEW f \in Flows, SetSessionCookie(f) PROVE TypeInv'
    <2>1. flow[f].id \in Ids \cup {NoId}
      BY DEF TypeInv, TypeOK, Flow
    <2>2. QED
      BY <1>8, <2>1, IdleStep DEF TypeInv, TypeOK, SetSessionCookie
  <1>9. ASSUME NEW b \in Browsers, Logout(b) PROVE TypeInv'
    <2>1. /\ sessions' \in [Ids -> Session \cup {NoSession}]
          /\ sidIndex' \in [Sids -> Ids \cup {NoId}]
      BY <1>9, RemoveType DEF TypeInv, TypeOK, Logout, DestroySession
    <2>2. QED
      BY <1>9, <2>1 DEF TypeInv, TypeOK, SignedOn, Logout
  <1>10. ASSUME NEW s \in Sids, EndSSO(s) PROVE TypeInv'
    BY <1>10 DEF TypeInv, TypeOK, SignedOn, EndSSO
  <1>11. ASSUME NEW s \in Sids, Backchannel(s) PROVE TypeInv'
    BY <1>11 DEF TypeInv, TypeOK, SignedOn, Backchannel, DestroyByKeycloakSID
  <1>12. ASSUME NEW s \in Sids, LoseNotice(s) PROVE TypeInv'
    BY <1>12 DEF TypeInv, TypeOK, SignedOn, LoseNotice
  <1>13. CASE CleanExpired
    <2>1. /\ sessions' \in [Ids -> Session \cup {NoSession}]
          /\ sidIndex' \in [Sids -> Ids \cup {NoId}]
      BY <1>13, RemoveType DEF TypeInv, CleanExpired
    <2>2. QED
      BY <1>13, <2>1 DEF TypeInv, TypeOK, SignedOn, CleanExpired
  <1>14. CASE CleanStates
    BY <1>14 DEF TypeInv, TypeOK, SignedOn, CleanStates
  <1>15. CASE Tick
    <2>1. ASSUME NEW i \in Ids, Stored(i)
          PROVE  [sessions[i] EXCEPT !.left = Less(@)] \in Session
      <3>1. Less(sessions[i].left) \in 0 .. MaxAge
        BY <2>1, StoredType, LessType, SessionsAssumption DEF TypeInv
      <3>2. QED
        BY <2>1, <3>1, StoredType DEF TypeInv, Session
    <2>2. ASSUME NEW f \in Flows, states[f] # NoState
          PROVE  Less(states[f]) \in 0 .. StateAge
      BY <2>2, LessType, SessionsAssumption DEF TypeInv, TypeOK
    <2>3. QED
      BY <1>15, <2>1, <2>2 DEF TypeInv, TypeOK, SignedOn, Tick
  <1>16. CASE Crash
    <2>1. ASSUME NEW f \in Flows
          PROVE  flow'[f] = IdleFlow \/ flow'[f] = flow[f]
      BY <1>16 DEF Crash
    <2>2. flow' \in [Flows -> Flow]
      BY <1>16, IdleType DEF TypeInv, TypeOK, Crash
    <2>3. SignedOn'
      BY <2>1 DEF TypeInv, SignedOn, IdleFlow
    <2>4. QED
      BY <1>16, <2>2, <2>3 DEF TypeInv, TypeOK, Crash
  <1>17. CASE Restart
    BY <1>17 DEF TypeInv, TypeOK, SignedOn, Restart
  <1>18. CASE UNCHANGED vars
    BY <1>18 DEF TypeInv, TypeOK, SignedOn, vars
  <1>19. QED
    BY <1>1, <1>2, <1>3, <1>4, <1>5, <1>6, <1>7, <1>8, <1>9, <1>10, <1>11,
       <1>12, <1>13, <1>14, <1>15, <1>16, <1>17, <1>18 DEF Next, Callback

LEMMA TypeInvariant == Spec => []TypeInv
  BY InitType, StepType, PTL DEF Spec

\* Every variable keeps its type, for every number of browsers, logins and
\* sessions (session.go, oidc.go, backchannel.go).
THEOREM TypeCorrect == Spec => []TypeOK
  <1>1. TypeInv => TypeOK
    BY DEF TypeInv
  <1>2. QED
    BY <1>1, TypeInvariant, PTL

(***************************************************************************)
(* The reverse index.                                                      *)
(***************************************************************************)
IndexInv == TypeInv /\ IndexSound /\ IndexComplete

\* What CreateSession does to the index.
LEMMA CreateIndex ==
  ASSUME IndexInv, NEW i \in Ids, NEW s \in Sids, CreateSession(i, s)
  PROVE  IndexSound' /\ IndexComplete'
  <1>1. /\ sessions'[i] = [sid |-> s, left |-> MaxAge]
        /\ sessions'[i] # NoSession
        /\ sidIndex'[s] = i
    BY SessionsAssumption DEF IndexInv, TypeInv, TypeOK, CreateSession
  <1>2. \A j \in Ids \ {i} : sessions'[j] = sessions[j]
    BY DEF IndexInv, TypeInv, TypeOK, CreateSession
  <1>3. \A t \in Sids \ {s} : sidIndex'[t] = sidIndex[t] /\ (t \in shared' <=> t \in shared)
    BY DEF IndexInv, TypeInv, TypeOK, CreateSession
  <1>4. shared \subseteq shared'
    BY DEF CreateSession
  <1>5. ~Stored(i)
    BY DEF CreateSession, Fresh
  <1>6. IndexSound'
    <2> SUFFICES ASSUME NEW t \in Sids, sidIndex'[t] # NoId
                 PROVE  Stored(sidIndex[t])' /\ sessions'[sidIndex'[t]].sid = t
      BY DEF IndexSound
    <2>1. CASE t = s
      BY <1>1, <2>1 DEF Stored
    <2>2. CASE t # s
      <3>1. sidIndex'[t] = sidIndex[t] /\ sidIndex[t] \in Ids
        BY <1>3, <2>2 DEF IndexInv, TypeInv, TypeOK
      <3>2. Stored(sidIndex[t]) /\ sessions[sidIndex[t]].sid = t
        BY <3>1 DEF IndexInv, IndexSound
      <3>3. QED
        BY <1>2, <1>5, <3>1, <3>2 DEF Stored
    <2>3. QED
      BY <2>1, <2>2
  <1>7. IndexComplete'
    <2> SUFFICES ASSUME NEW j \in Ids, Stored(j)'
                 PROVE  sidIndex'[sessions'[j].sid] = j \/ sessions'[j].sid \in shared'
      BY DEF IndexComplete
    <2>1. CASE j = i
      BY <1>1, <2>1
    <2>2. CASE j # i
      <3>1. sessions'[j] = sessions[j] /\ Stored(j)
        BY <1>2, <2>2 DEF Stored
      <3>2. sessions[j].sid \in Sids
        BY <3>1, StoredType DEF IndexInv, TypeInv
      <3>3. CASE sessions[j].sid = s
        <4>1. j \in StoredFor(s)
          BY <3>1, <3>3 DEF StoredFor
        <4>2. QED
          BY <3>1, <3>3, <4>1 DEF CreateSession
      <3>4. CASE sessions[j].sid # s
        BY <1>3, <3>1, <3>2, <3>4 DEF IndexInv, IndexComplete
      <3>5. QED
        BY <3>3, <3>4
    <2>3. QED
      BY <2>1, <2>2
  <1>8. QED
    BY <1>6, <1>7

\* What DestroySession and CleanExpired do to it.
LEMMA RemoveIndex ==
  ASSUME IndexInv, NEW gone, gone \subseteq Ids, \A i \in gone : Stored(i),
         Remove(gone), UNCHANGED shared
  PROVE  IndexSound' /\ IndexComplete'
  <1>1. \A i \in Ids : sessions'[i] = IF i \in gone THEN NoSession ELSE sessions[i]
    BY DEF Remove
  <1>2. \A s \in Sids : sidIndex'[s] = IF \E i \in gone : sessions[i].sid = s
                                       THEN NoId ELSE sidIndex[s]
    BY DEF Remove
  <1>3. IndexSound'
    <2> SUFFICES ASSUME NEW s \in Sids, sidIndex'[s] # NoId
                 PROVE  Stored(sidIndex[s])' /\ sessions'[sidIndex'[s]].sid = s
      BY DEF IndexSound
    <2>1. sidIndex'[s] = sidIndex[s] /\ sidIndex[s] \in Ids
      BY <1>2 DEF IndexInv, TypeInv, TypeOK
    <2>2. Stored(sidIndex[s]) /\ sessions[sidIndex[s]].sid = s
      BY <2>1 DEF IndexInv, IndexSound
    <2>3. sidIndex[s] \notin gone
      BY <1>2, <2>2
    <2>4. QED
      BY <1>1, <2>1, <2>2, <2>3 DEF Stored
  <1>4. IndexComplete'
    <2> SUFFICES ASSUME NEW j \in Ids, Stored(j)'
                 PROVE  sidIndex'[sessions'[j].sid] = j \/ sessions'[j].sid \in shared'
      BY DEF IndexComplete
    <2>1. j \notin gone /\ sessions'[j] = sessions[j] /\ Stored(j)
      BY <1>1 DEF Stored
    <2> DEFINE s == sessions[j].sid
    <2>2. s \in Sids
      BY <2>1, StoredType DEF IndexInv, TypeInv
    <2>3. sidIndex[s] = j \/ s \in shared
      BY <2>1 DEF IndexInv, IndexComplete
    \* If j's entry goes, it goes with another session of the same sid.
    <2>4. CASE \E i \in gone : sessions[i].sid = s
      <3>1. PICK i \in gone : sessions[i].sid = s
        BY <2>4
      <3>2. sidIndex[s] = i \/ s \in shared
        BY <3>1 DEF IndexInv, IndexComplete
      <3>3. QED
        BY <2>1, <2>3, <3>2
    <2>5. CASE ~\E i \in gone : sessions[i].sid = s
      BY <1>2, <2>1, <2>2, <2>3, <2>5
    <2>6. QED
      BY <2>4, <2>5
  <1>5. QED
    BY <1>3, <1>4

\* What DestroyByKeycloakSID does to it.
LEMMA RevokeIndex ==
  ASSUME IndexInv, NEW s \in Sids, DestroyByKeycloakSID(s), UNCHANGED shared
  PROVE  IndexSound' /\ IndexComplete'
  <1>1. CASE sidIndex[s] = NoId
    BY <1>1 DEF IndexInv, DestroyByKeycloakSID, IndexSound, IndexComplete, Stored
  <1>2. CASE sidIndex[s] # NoId
    <2> DEFINE i == sidIndex[s]
    <2>1. i \in Ids /\ Stored(i) /\ sessions[i].sid = s
      BY <1>2 DEF IndexInv, IndexSound, TypeInv, TypeOK
    <2>2. /\ sessions' = [sessions EXCEPT ![i] = NoSession]
          /\ sidIndex' = [sidIndex EXCEPT ![s] = NoId]
      BY <1>2 DEF DestroyByKeycloakSID
    <2>3. Remove({i})
      BY <2>1, <2>2 DEF Remove, IndexInv, TypeInv, TypeOK
    <2>4. QED
      BY <2>1, <2>3, RemoveIndex
  <1>3. QED
    BY <1>1, <1>2

LEMMA InitIndex == Init => IndexInv
  BY InitType DEF Init, IndexInv, IndexSound, IndexComplete, Stored

\* The steps that touch neither the sessions nor the index.
LEMMA ElsewhereIndex ==
  ASSUME IndexInv, UNCHANGED <<sessions, sidIndex, shared>>
  PROVE  IndexSound' /\ IndexComplete'
  BY DEF IndexInv, IndexSound, IndexComplete, Stored

LEMMA StepIndex == IndexInv /\ [Next]_vars => IndexInv'
  <1> SUFFICES ASSUME IndexInv, [Next]_vars PROVE IndexSound' /\ IndexComplete'
    BY StepType DEF IndexInv
  <1> USE DEF knox, world
  <1>1. ASSUME NEW f \in Flows, NEW b \in Browsers, Login(f, b)
        PROVE  IndexSound' /\ IndexComplete'
    BY <1>1, ElsewhereIndex DEF Login
  <1>2. ASSUME NEW f \in Flows,
               Authenticate(f) \/ Abandon(f) \/ CallbackError(f) \/ TakeState(f)
                 \/ Exchange(f) \/ ExchangeFails(f) \/ SetSessionCookie(f)
        PROVE  IndexSound' /\ IndexComplete'
    BY <1>2, ElsewhereIndex
       DEF Authenticate, Abandon, CallbackError, TakeState, Exchange, ExchangeFails,
           SetSessionCookie
  <1>3. ASSUME NEW f \in Flows, Create(f) PROVE IndexSound' /\ IndexComplete'
    <2>1. PICK i \in Ids : CreateSession(i, flow[f].sid)
      BY <1>3 DEF Create
    <2>2. flow[f].sid \in Sids
      BY <1>3 DEF IndexInv, TypeInv, SignedOn, Create
    <2>3. QED
      BY <2>1, <2>2, CreateIndex
  <1>4. ASSUME NEW b \in Browsers, Logout(b) PROVE IndexSound' /\ IndexComplete'
    <2>1. cookie[b] \in Ids /\ shared' = shared
      BY <1>4 DEF Logout, IndexInv, TypeInv, TypeOK
    <2>2. CASE Stored(cookie[b])
      BY <1>4, <2>1, <2>2, RemoveIndex DEF Logout, DestroySession
    <2>3. CASE ~Stored(cookie[b])
      BY <1>4, <2>1, <2>3, ElsewhereIndex DEF Logout, DestroySession
    <2>4. QED
      BY <2>2, <2>3
  <1>5. ASSUME NEW s \in Sids, EndSSO(s) \/ LoseNotice(s)
        PROVE  IndexSound' /\ IndexComplete'
    BY <1>5, ElsewhereIndex DEF EndSSO, LoseNotice
  <1>6. ASSUME NEW s \in Sids, Backchannel(s) PROVE IndexSound' /\ IndexComplete'
    BY <1>6, RevokeIndex DEF Backchannel
  <1>7. CASE CleanExpired
    BY <1>7, RemoveIndex DEF CleanExpired
  <1>8. CASE CleanStates \/ Restart
    BY <1>8, ElsewhereIndex DEF CleanStates, Restart
  <1>9. CASE Tick
    <2>1. \A i \in Ids : /\ Stored(i)' <=> Stored(i)
                         /\ Stored(i) => sessions'[i].sid = sessions[i].sid
      <3>1. ASSUME NEW i \in Ids, Stored(i)
            PROVE  sessions'[i] # NoSession /\ sessions'[i].sid = sessions[i].sid
        <4>1. sessions'[i] = [sessions[i] EXCEPT !.left = Less(@)]
          BY <1>9, <3>1 DEF Tick
        <4>2. Less(sessions[i].left) \in 0 .. MaxAge
          BY <3>1, StoredType, LessType, SessionsAssumption DEF IndexInv, TypeInv
        <4>3. sessions'[i] \in Session /\ sessions'[i].sid = sessions[i].sid
          BY <3>1, <4>1, <4>2, StoredType DEF Session, IndexInv, TypeInv
        <4>4. QED
          BY <4>3, SessionsAssumption DEF Session
      <3>2. ASSUME NEW i \in Ids, ~Stored(i) PROVE sessions'[i] = NoSession
        BY <1>9, <3>2 DEF Tick
      <3>3. QED
        BY <3>1, <3>2 DEF Stored
    <2>2. sidIndex' = sidIndex /\ shared' = shared
      BY <1>9 DEF Tick
    <2>3. IndexSound'
      BY <2>1, <2>2 DEF IndexInv, IndexSound, TypeInv, TypeOK
    <2>4. IndexComplete'
      BY <2>1, <2>2 DEF IndexInv, IndexComplete
    <2>5. QED
      BY <2>3, <2>4
  <1>10. CASE Crash
    BY <1>10 DEF Crash, IndexSound, IndexComplete, Stored
  <1>11. CASE UNCHANGED vars
    BY <1>11, ElsewhereIndex DEF vars
  <1>12. QED
    BY <1>1, <1>2, <1>3, <1>4, <1>5, <1>6, <1>7, <1>8, <1>9, <1>10, <1>11
       DEF Next, Callback

LEMMA IndexInvariant == Spec => []IndexInv
  BY InitIndex, StepIndex, PTL DEF Spec

\* An entry of the index leads to a stored session of its own Keycloak
\* session (session.go, the four methods that write sidIndex).
THEOREM IndexNeverDangles == Spec => []IndexSound
  <1>1. IndexInv => IndexSound
    BY DEF IndexInv
  <1>2. QED
    BY <1>1, IndexInvariant, PTL

\* A session that backchannel logout cannot find shares its Keycloak session
\* with another one, now or earlier (session.go, sidIndex).
THEOREM IndexMissesOnlyShared == Spec => []IndexComplete
  <1>1. IndexInv => IndexComplete
    BY DEF IndexInv
  <1>2. QED
    BY <1>1, IndexInvariant, PTL

\* Backchannel logout of a Keycloak session that never had two KNOX sessions
\* at a time leaves none behind (session.go, DestroyByKeycloakSID).
THEOREM LogoutFindsTheSession == Spec => LogoutReaches
  <1>1. ASSUME IndexInv, NEW s \in Sids, Backchannel(s), s \notin shared
        PROVE  StoredFor(s)' = {}
    <2>1. ASSUME NEW i \in Ids, Stored(i)', sessions'[i].sid = s PROVE FALSE
      <3>1. sessions'[i] = sessions[i] /\ Stored(i) /\ sidIndex[s] # i
        <4>1. sessions'[i] # NoSession
          BY <2>1 DEF Stored
        <4>2. CASE sidIndex[s] = NoId
          <5>1. sessions' = sessions
            BY <1>1, <4>2 DEF Backchannel, DestroyByKeycloakSID
          <5>2. NoId # i
            BY SessionsAssumption
          <5>3. QED
            BY <4>1, <4>2, <5>1, <5>2 DEF Stored
        <4>3. CASE sidIndex[s] # NoId
          <5>1. sessions' = [sessions EXCEPT ![sidIndex[s]] = NoSession]
            BY <1>1, <4>3 DEF Backchannel, DestroyByKeycloakSID
          <5>2. sessions \in [Ids -> Session \cup {NoSession}]
            BY <1>1 DEF IndexInv, TypeInv, TypeOK
          <5>3. \A j \in Ids : sessions'[j] = IF j = sidIndex[s] THEN NoSession ELSE sessions[j]
            BY <5>1, <5>2
          <5>4. QED
            BY <4>1, <5>3 DEF Stored
        <4>4. QED
          BY <4>2, <4>3
      <3>2. QED
        BY <1>1, <2>1, <3>1 DEF IndexInv, IndexComplete
    <2>2. QED
      BY <2>1 DEF StoredFor
  <1>2. IndexInv => [\A s \in Sids : Backchannel(s) /\ s \notin shared
                                   => StoredFor(s)' = {}]_vars
    BY <1>1
  <1>3. QED
    BY <1>2, IndexInvariant, PTL DEF LogoutReaches

(***************************************************************************)
(* An ended Keycloak session.                                              *)
(***************************************************************************)
\* A login holds tokens of s.
HoldsTokens(f, s) == flow[f].pc = "create" /\ flow[f].sid = s

\* Keycloak does not take up a session it has ended.
LEMMA EndedForGood ==
  ASSUME TypeInv, [Next]_vars, NEW s \in Sids, kc[s] = "ended"
  PROVE  kc'[s] = "ended"
  <1> USE DEF knox, world
  <1>1. kc \in [Sids -> {"new", "live", "ended"}]
    BY DEF TypeInv, TypeOK
  <1>2. ASSUME NEW f \in Flows, Authenticate(f) PROVE kc'[s] = "ended"
    <2>1. kc' = kc \/ \E z \in Sids : kc[z] = "new" /\ kc' = [kc EXCEPT ![z] = "live"]
      BY <1>2 DEF Authenticate
    <2>2. QED
      BY <1>1, <2>1
  <1>3. ASSUME NEW z \in Sids, EndSSO(z) PROVE kc'[s] = "ended"
    BY <1>1, <1>3 DEF EndSSO
  <1>4. ASSUME NEW f \in Flows,
               (\E b \in Browsers : Login(f, b)) \/ Abandon(f) \/ CallbackError(f)
                 \/ TakeState(f) \/ Callback(f)
        PROVE  kc' = kc
    BY <1>4 DEF Login, Abandon, CallbackError, TakeState, Callback, Exchange, ExchangeFails,
                Create, SetSessionCookie
  <1>5. ASSUME NEW z \in Sids, Backchannel(z) \/ LoseNotice(z) PROVE kc' = kc
    BY <1>5 DEF Backchannel, LoseNotice
  <1>6. ASSUME NEW b \in Browsers, Logout(b) PROVE kc' = kc
    BY <1>6 DEF Logout
  <1>7. CleanExpired \/ CleanStates \/ Tick \/ Crash \/ Restart \/ UNCHANGED vars => kc' = kc
    BY DEF CleanExpired, CleanStates, Tick, Crash, Restart, vars
  <1>8. QED
    BY <1>2, <1>3, <1>4, <1>5, <1>6, <1>7 DEF Next

\* A login comes by tokens of live sessions only.
LEMMA NoNewTokens ==
  ASSUME TypeInv, [Next]_vars, NEW s \in Sids, kc[s] = "ended",
         NEW g \in Flows, HoldsTokens(g, s)'
  PROVE  HoldsTokens(g, s)
  <1> USE DEF knox, world
  <1>1. flow \in [Flows -> Flow]
    BY DEF TypeInv, TypeOK
  <1>2. flow'[g].pc = "create" /\ flow'[g].sid = s
    BY DEF HoldsTokens
  <1>3. IdleFlow.pc # "create"
    BY DEF IdleFlow
  <1>4. ASSUME NEW f \in Flows, NEW b \in Browsers, Login(f, b) PROVE HoldsTokens(g, s)
    <2>1. flow'[f].pc = "login"
      BY <1>1, <1>4 DEF Login, IdleFlow
    <2>2. QED
      BY <1>1, <1>2, <1>4, <2>1 DEF Login, HoldsTokens
  <1>5. ASSUME NEW f \in Flows, Authenticate(f) PROVE HoldsTokens(g, s)
    <2>1. PICK z : flow' = [flow EXCEPT ![f].pc = "code", ![f].sid = z]
      BY <1>5 DEF Authenticate
    <2>2. flow'[f].pc = "code"
      BY <1>1, <2>1 DEF Flow
    <2>3. QED
      BY <1>1, <1>2, <2>1, <2>2 DEF HoldsTokens
  <1>6. ASSUME NEW f \in Flows, flow' = [flow EXCEPT ![f] = IdleFlow]
        PROVE  HoldsTokens(g, s)
    BY <1>1, <1>2, <1>3, <1>6 DEF HoldsTokens
  <1>7. ASSUME NEW f \in Flows, TakeState(f) PROVE HoldsTokens(g, s)
    <2>1. CASE flow' = [flow EXCEPT ![f] = IdleFlow]
      BY <1>6, <2>1
    <2>2. CASE flow' = [flow EXCEPT ![f] = [flow[f] EXCEPT !.pc = "exchange"]]
      <3>1. flow'[f].pc = "exchange"
        BY <1>1, <2>2 DEF Flow
      <3>2. QED
        BY <1>1, <1>2, <2>2, <3>1 DEF HoldsTokens
    <2>3. QED
      BY <1>1, <1>7, <2>1, <2>2 DEF TakeState
  <1>8. ASSUME NEW f \in Flows, Exchange(f) PROVE HoldsTokens(g, s)
    <2>1. CASE kc[flow[f].sid] # "live"
      BY <1>1, <1>6, <1>8, <2>1 DEF Exchange
    <2>2. CASE kc[flow[f].sid] = "live"
      <3>1. flow' = [flow EXCEPT ![f] = [flow[f] EXCEPT !.pc = "create"]]
        BY <1>1, <1>8, <2>2 DEF Exchange
      <3>2. flow'[f].sid = flow[f].sid
        BY <1>1, <3>1 DEF Flow
      <3>3. g # f
        BY <1>2, <2>2, <3>2
      <3>4. QED
        BY <1>1, <1>2, <3>1, <3>3 DEF HoldsTokens
    <2>3. QED
      BY <2>1, <2>2
  <1>9. ASSUME NEW f \in Flows, Create(f) PROVE HoldsTokens(g, s)
    <2>1. PICK i : flow' = [flow EXCEPT ![f].pc = "reply", ![f].id = i]
      BY <1>9 DEF Create
    <2>2. flow'[f].pc = "reply"
      BY <1>1, <2>1 DEF Flow
    <2>3. QED
      BY <1>1, <1>2, <2>1, <2>2 DEF HoldsTokens
  <1>10. ASSUME NEW f \in Flows,
                Abandon(f) \/ CallbackError(f) \/ ExchangeFails(f) \/ SetSessionCookie(f)
         PROVE  HoldsTokens(g, s)
    BY <1>6, <1>10 DEF Abandon, CallbackError, ExchangeFails, SetSessionCookie
  <1>11. CASE flow' = flow
    BY <1>2, <1>11 DEF HoldsTokens
  <1>12. CASE Crash
    <2>1. flow'[g] = flow[g]
      BY <1>1, <1>2, <1>3, <1>12 DEF Crash
    <2>2. QED
      BY <1>2, <2>1 DEF HoldsTokens
  <1>13. ASSUME NEW z \in Sids, EndSSO(z) \/ Backchannel(z) \/ LoseNotice(z) PROVE flow' = flow
    BY <1>13 DEF EndSSO, Backchannel, LoseNotice
  <1>14. ASSUME NEW b \in Browsers, Logout(b) PROVE flow' = flow
    BY <1>14 DEF Logout
  <1>15. CleanExpired \/ CleanStates \/ Tick \/ Restart \/ UNCHANGED vars => flow' = flow
    BY DEF CleanExpired, CleanStates, Tick, Restart, vars
  <1>16. QED
    BY <1>4, <1>5, <1>7, <1>8, <1>9, <1>10, <1>11, <1>12, <1>13, <1>14, <1>15
       DEF Next, Callback

\* A session stored after a step was stored before it, for the same Keycloak
\* session, or has been created by a login that held the tokens for it.
LEMMA StoredBefore ==
  ASSUME TypeInv, [Next]_vars, NEW s \in Sids, \A f \in Flows : ~HoldsTokens(f, s),
         NEW i \in Ids, Stored(i)', sessions'[i].sid = s
  PROVE  Stored(i) /\ sessions[i].sid = s
  <1> USE DEF knox, world
  <1>1. sessions \in [Ids -> Session \cup {NoSession}] /\ sessions'[i] # NoSession
    BY DEF TypeInv, TypeOK, Stored
  <1>2. ASSUME sessions'[i] = sessions[i] PROVE Stored(i) /\ sessions[i].sid = s
    BY <1>1, <1>2 DEF Stored
  <1>3. ASSUME NEW gone, Remove(gone) PROVE sessions'[i] = sessions[i]
    BY <1>1, <1>3 DEF Remove
  <1>4. ASSUME NEW f \in Flows, Create(f) PROVE sessions'[i] = sessions[i]
    <2>1. PICK j \in Ids : sessions' = [sessions EXCEPT ![j] = [sid |-> flow[f].sid, left |-> MaxAge]]
      BY <1>4 DEF Create, CreateSession
    <2>2. flow[f].sid # s
      BY <1>4 DEF Create, HoldsTokens
    <2>3. i # j
      BY <1>1, <2>1, <2>2
    <2>4. QED
      BY <1>1, <2>1, <2>3
  <1>5. ASSUME NEW b \in Browsers, Logout(b) PROVE sessions'[i] = sessions[i]
    BY <1>3, <1>5 DEF Logout, DestroySession
  <1>6. ASSUME NEW z \in Sids, Backchannel(z) PROVE sessions'[i] = sessions[i]
    <2>1. sessions' = sessions \/ sessions' = [sessions EXCEPT ![sidIndex[z]] = NoSession]
      BY <1>6 DEF Backchannel, DestroyByKeycloakSID
    <2>2. QED
      BY <1>1, <2>1
  <1>7. CASE CleanExpired
    BY <1>2, <1>3, <1>7 DEF CleanExpired
  <1>8. CASE Tick
    <2>1. Stored(i) /\ sessions'[i] = [sessions[i] EXCEPT !.left = Less(@)]
      BY <1>1, <1>8 DEF Tick
    <2>2. sessions[i] \in Session
      BY <2>1, StoredType DEF TypeInv
    <2>3. sessions'[i].sid = sessions[i].sid
      BY <2>1, <2>2 DEF Session
    <2>4. QED
      BY <2>1, <2>3
  <1>9. CASE Crash
    BY <1>1, <1>9 DEF Crash
  <1>10. ASSUME NEW f \in Flows,
                (\E b \in Browsers : Login(f, b)) \/ Authenticate(f) \/ Abandon(f)
                  \/ CallbackError(f) \/ TakeState(f) \/ Exchange(f) \/ ExchangeFails(f) \/ SetSessionCookie(f)
         PROVE  sessions' = sessions
    BY <1>10 DEF Login, Authenticate, Abandon, CallbackError, TakeState, Exchange,
                 ExchangeFails, SetSessionCookie
  <1>11. ASSUME NEW z \in Sids, EndSSO(z) \/ LoseNotice(z) PROVE sessions' = sessions
    BY <1>11 DEF EndSSO, LoseNotice
  <1>12. CleanStates \/ Restart \/ UNCHANGED vars => sessions' = sessions
    BY DEF CleanStates, Restart, vars
  <1>13. QED
    BY <1>2, <1>4, <1>5, <1>6, <1>7, <1>8, <1>9, <1>10, <1>11, <1>12 DEF Next, Callback

\* Once Keycloak has ended a session and no login holds tokens of it, nothing
\* brings a KNOX session for it back, for any number of browsers and logins
\* (oidc.go, CallbackHandler: Exchange precedes CreateSession).
THEOREM NoWayBack == Spec => EndedStaysEnded
  <1>1. ASSUME TypeInv, [Next]_vars, NEW s \in Sids, Closed(s)
        PROVE  Closed(s)' /\ StoredFor(s)' \subseteq StoredFor(s)
    <2>1. kc[s] = "ended" /\ \A f \in Flows : ~HoldsTokens(f, s)
      BY <1>1 DEF Closed, HoldsTokens
    <2>2. kc'[s] = "ended"
      BY <1>1, <2>1, EndedForGood
    <2>3. \A f \in Flows : ~HoldsTokens(f, s)'
      BY <1>1, <2>1, NoNewTokens
    <2>4. Closed(s)'
      BY <2>2, <2>3 DEF Closed, HoldsTokens
    <2>5. StoredFor(s)' \subseteq StoredFor(s)
      BY <1>1, <2>1, StoredBefore DEF StoredFor
    <2>6. QED
      BY <2>4, <2>5
  <1>2. TypeInv /\ [Next]_vars =>
          [\A s \in Sids : Closed(s) => Closed(s)' /\ StoredFor(s)' \subseteq StoredFor(s)]_vars
    BY <1>1
  <1>3. QED
    BY <1>2, TypeInvariant, PTL DEF Spec, EndedStaysEnded
================================================================================
