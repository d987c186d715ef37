-------------------------- MODULE VaultProviderProofs --------------------------
(***************************************************************************)
(* The Vault provider: type correctness, that no read is sent with a token *)
(* that runs out on the way, and that the cache only ever moves forward,   *)
(* for every lease, timeout, cache period and number of faults.            *)
(*                                                                         *)
(* The inductive invariant follows a token from Vault through the two      *)
(* shared variables into a request.  What it costs is counted in Timeouts: *)
(* an answer may be one old when it is assigned, and a request may be one  *)
(* old when Vault sees it.  Hence Margin >= 2 * Timeout.                   *)
(***************************************************************************)
EXTENDS VaultProvider, TLAPS

(***************************************************************************)
(* Lemmas about the operators.                                             *)
(***************************************************************************)
LEMMA DurationIsLong ==
  ASSUME lease \in Leases
  PROVE  Duration \in Nat /\ Duration > 2 * Timeout
  BY VaultAssumption DEF VaultAssumption, Duration

LEMMA BelievedIsEarly ==
  ASSUME lease \in Leases
  PROVE  Believed \in Nat /\ (Believed > 0 => Believed = Duration - Margin)
  BY DurationIsLong, VaultAssumption DEF VaultAssumption, Believed

LEMMA NoTokenIsNone == NoToken \notin Token
  BY VaultAssumption DEF VaultAssumption, Token

LEMMA IssuedIsToken ==
  ASSUME lease \in Leases
  PROVE  Issued \in Token /\ Issued # NoToken /\ Issued.left = Duration
  <1>1. Issued \in Token /\ Issued.left = Duration
    BY DurationIsLong DEF Issued, Token
  <1>2. QED
    BY <1>1, NoTokenIsNone

LEMMA LessIsSmall ==
  ASSUME NEW n \in Nat
  PROVE  Less(n) \in Nat /\ Less(n) >= n - 1 /\ (Less(n) > 0 => Less(n) = n - 1)
  BY DEF Less

\* A second costs a token no more than a second.
LEMMA AgedIsToken ==
  ASSUME NEW t \in MaybeToken
  PROVE  /\ Aged(t) \in MaybeToken
         /\ t # NoToken => Aged(t) # NoToken /\ Aged(t).left >= t.left - 1
  <1>1. CASE t = NoToken
    BY <1>1 DEF Aged
  <1>2. CASE t # NoToken
    <2>1. t \in Token /\ t.left \in Nat
      BY <1>2 DEF MaybeToken, Token
    <2>2. Less(t.left) \in Nat /\ Less(t.left) >= t.left - 1
      BY <2>1, LessIsSmall
    <2>3. [t EXCEPT !.left = Less(t.left)] \in Token
      BY <2>1, <2>2 DEF Token
    <2>5. CASE lease = 0
      BY <1>2, <2>1, <2>5 DEF Aged, MaybeToken
    <2>6. CASE lease # 0
      <3>1. Aged(t) = [t EXCEPT !.left = Less(t.left)]
        BY <1>2, <2>6 DEF Aged
      <3>2. Aged(t).left = Less(t.left)
        BY <3>1, <2>1 DEF Token
      <3>3. QED
        BY <3>1, <3>2, <2>2, <2>3, NoTokenIsNone DEF MaybeToken
    <2>7. QED
      BY <2>5, <2>6
  <1>3. QED
    BY <1>1, <1>2

LEMMA RevokedIsToken ==
  ASSUME NEW t \in MaybeToken
  PROVE  /\ Revoke(t) \in MaybeToken
         /\ t # NoToken => Revoke(t) # NoToken /\ Revoke(t).left = t.left
  <1>1. CASE t = NoToken
    BY <1>1 DEF Revoke
  <1>2. CASE t # NoToken
    <2>1. t \in Token
      BY <1>2 DEF MaybeToken
    <2>2. [t EXCEPT !.revoked = TRUE] \in Token /\ [t EXCEPT !.revoked = TRUE].left = t.left
      BY <2>1 DEF Token
    <2>3. QED
      BY NoTokenIsNone, <1>2, <2>2 DEF Revoke, MaybeToken
  <1>3. QED
    BY <1>1, <1>2

(***************************************************************************)
(* Types.                                                                  *)
(***************************************************************************)
LEMMA AsleepType ==
  ASSUME NEW p \in PCs, NEW w \in {"boot", "cache", "key"}
  PROVE  [Asleep EXCEPT !.pc = p, !.want = w] \in Goroutine
  <1>1. Asleep \in Goroutine
    BY VaultAssumption DEF VaultAssumption, Asleep, Goroutine, MaybeToken, PCs
  <1>2. QED
    BY <1>1 DEF Goroutine

LEMMA BootingType == Booting \in [Goroutines -> Goroutine]
  <1>1. [Asleep EXCEPT !.pc = "login", !.want = "boot"] \in Goroutine
    BY AsleepType DEF PCs
  <1>2. Asleep \in Goroutine
    BY VaultAssumption DEF VaultAssumption, Asleep, Goroutine, MaybeToken, PCs
  <1>3. QED
    BY <1>1, <1>2 DEF Booting

TickerType == [left : 0 .. CacheTTL, due : BOOLEAN]

LEMMA NewTickerType == [left |-> CacheTTL, due |-> FALSE] \in TickerType
  BY VaultAssumption DEF VaultAssumption, TickerType

LEMMA InitType == Init => TypeOK
  BY BootingType, NewTickerType, VaultAssumption
  DEF VaultAssumption, Init, TypeOK, TickerType, MaybeToken

\* A step of one goroutine.
LEMMA IsType ==
  ASSUME TypeOK, NEW g \in Goroutines, NEW r \in Goroutine, Is(g, r)
  PROVE  proc' \in [Goroutines -> Goroutine]
  BY DEF TypeOK, Is

LEMMA AtRestType ==
  ASSUME TypeOK, NEW g \in Goroutines
  PROVE  AtRest(g) \in Goroutine
  <1>1. proc[g].want \in {"boot", "cache", "key"}
    BY DEF TypeOK, Goroutine
  <1>2. QED
    BY <1>1, AsleepType DEF AtRest, PCs

\* The record of a goroutine that goes on, whatever changes in it.
LEMMA RecordType ==
  ASSUME TypeOK, NEW g \in Goroutines, NEW p \in PCs
  PROVE  /\ [proc[g] EXCEPT !.pc = p, !.age = 0] \in Goroutine
         /\ [proc[g] EXCEPT !.pc = p, !.want = "cache"] \in Goroutine
         /\ \A t \in MaybeToken :
              /\ [proc[g] EXCEPT !.pc = p, !.held = t] \in Goroutine
              /\ [proc[g] EXCEPT !.pc = p, !.held = t, !.age = 0] \in Goroutine
              /\ [proc[g] EXCEPT !.pc = p, !.held = t, !.read = Received(g)] \in Goroutine
  <1>1. proc[g] \in Goroutine /\ 0 \in 0 .. Timeout /\ Received(g) \in 0 .. MaxRotations
    BY VaultAssumption DEF VaultAssumption, TypeOK, Received, Goroutine
  <1>2. QED
    BY <1>1 DEF Goroutine

LEMMA GotoType ==
  ASSUME TypeOK, NEW g \in Goroutines, NEW p \in PCs, Goto(g, p)
  PROVE  proc' \in [Goroutines -> Goroutine]
  BY RecordType, IsType DEF Goto

LEMMA RestartedType ==
  ASSUME TypeOK, Restarted, faults' \in 0 .. MaxFaults
  PROVE  TypeOK'
  BY BootingType, NewTickerType DEF TypeOK, Restarted, vault, TickerType, MaybeToken

LEMMA GivesUpType ==
  ASSUME TypeOK, NEW g \in Goroutines, GivesUp(g), faults' \in 0 .. MaxFaults
  PROVE  TypeOK'
  <1>1. CASE g = "main" /\ proc[g].want # "key"
    BY <1>1, RestartedType DEF GivesUp
  <1>2. CASE ~(g = "main" /\ proc[g].want # "key")
    BY <1>2, AtRestType, IsType DEF GivesUp, TypeOK, vault, provider
  <1>3. QED
    BY <1>1, <1>2

LEMMA TypeStep == TypeOK /\ [Next]_vars => TypeOK'
  <1>1. SUFFICES ASSUME TypeOK, [Next]_vars PROVE TypeOK'
    OBVIOUS
  <1> USE <1>1
  <1>2. ASSUME NEW g \in Goroutines, Check(g) PROVE TypeOK'
    <2>1. (IF trust = 0 THEN "login" ELSE "build") \in PCs
      BY DEF PCs
    <2>2. QED
      BY <1>2, <2>1, GotoType DEF Check, TypeOK, vault, provider
  <1>3. ASSUME NEW g \in Goroutines, VaultIssues(g) PROVE TypeOK'
    <2>1. Issued \in MaybeToken /\ "issued" \in PCs
      BY IssuedIsToken DEF TypeOK, MaybeToken, PCs
    <2>2. QED
      BY <1>3, <2>1, RecordType, IsType DEF VaultIssues, TypeOK, vault, provider
  <1>4. ASSUME NEW g \in Goroutines, SetToken(g) PROVE TypeOK'
    <2>1. NoToken \in MaybeToken /\ "expiry" \in PCs /\ proc[g].held \in MaybeToken
      BY DEF TypeOK, Goroutine, MaybeToken, PCs
    <2>2. QED
      BY <1>4, <2>1, RecordType, IsType DEF SetToken, TypeOK, vault
  <1>5. ASSUME NEW g \in Goroutines, SetExpiry(g) PROVE TypeOK'
    <2>1. Believed \in Nat /\ "check" \in PCs /\ "build" \in PCs
      BY BelievedIsEarly DEF TypeOK, PCs
    <2>2. proc' \in [Goroutines -> Goroutine]
      BY <1>5, <2>1, RecordType, IsType, GotoType DEF SetExpiry
    <2>3. QED
      BY <1>5, <2>1, <2>2 DEF SetExpiry, TypeOK, vault
  <1>6. ASSUME NEW g \in Goroutines, BuildRequest(g) PROVE TypeOK'
    <2>1. token \in MaybeToken /\ "get" \in PCs
      BY DEF TypeOK, PCs
    <2>2. QED
      BY <1>6, <2>1, RecordType, IsType DEF BuildRequest, TypeOK, vault, provider
  <1>7. ASSUME NEW g \in Goroutines, VaultAnswers(g) PROVE TypeOK'
    <2>1. NoToken \in MaybeToken /\ "answered" \in PCs
      BY DEF MaybeToken, PCs
    <2>2. QED
      BY <1>7, <2>1, RecordType, IsType DEF VaultAnswers, TypeOK, vault, provider
  <1>8. ASSUME NEW g \in Goroutines, VaultRejects(g) PROVE TypeOK'
    BY <1>8, GivesUpType DEF VaultRejects, TypeOK
  <1>9. ASSUME NEW g \in Goroutines, Finish(g) PROVE TypeOK'
    <2>1. cache' \in (0 .. MaxRotations) \cup {NoVersion}
      BY <1>9 DEF Finish, TypeOK, Goroutine
    <2>2. CASE g = "main" /\ proc[g].want = "cache"
      <3>1. PICK pc \in {"check", "idle"} :
              /\ proc' = [main |-> [Asleep EXCEPT !.pc = pc, !.want = "key"],
                          refresher |-> [Asleep EXCEPT !.pc = "idle", !.want = "cache"]]
              /\ ticker' = [left |-> CacheTTL, due |-> FALSE]
        BY <1>9, <2>2 DEF Finish
      <3>2. /\ [Asleep EXCEPT !.pc = pc, !.want = "key"] \in Goroutine
            /\ [Asleep EXCEPT !.pc = "idle", !.want = "cache"] \in Goroutine
        BY AsleepType DEF PCs
      <3>3. proc' \in [Goroutines -> Goroutine]
        BY <3>1, <3>2 DEF Goroutines
      <3>4. QED
        BY <1>9, <2>1, <3>1, <3>3, NewTickerType DEF Finish, TypeOK, TickerType, vault
    <2>3. CASE ~(g = "main" /\ proc[g].want = "cache")
      <3>1. proc' \in [Goroutines -> Goroutine]
        BY <1>9, <2>3, AtRestType, IsType DEF Finish
      <3>2. QED
        BY <1>9, <2>1, <2>3, <3>1 DEF Finish, TypeOK, vault
    <2>4. QED
      BY <2>2, <2>3
  <1>10. ASSUME NEW g \in Goroutines, RequestFails(g) PROVE TypeOK'
    <2>1. faults' \in 0 .. MaxFaults
      BY <1>10, VaultAssumption DEF VaultAssumption, RequestFails, Fault, TypeOK
    <2>2. QED
      BY <1>10, <2>1, GivesUpType DEF RequestFails
  <1>11. CASE Refresh
    <2>1. "check" \in PCs /\ "refresher" \in Goroutines
      BY DEF PCs, Goroutines
    <2>2. proc' \in [Goroutines -> Goroutine]
      BY <1>11, <2>1, GotoType DEF Refresh
    <2>3. ticker' \in TickerType
      BY <1>11 DEF Refresh, TypeOK, TickerType
    <2>4. QED
      BY <1>11, <2>2, <2>3 DEF Refresh, TypeOK, TickerType, vault, provider
  <1>12. CASE Rotate
    BY <1>12, VaultAssumption DEF VaultAssumption, Rotate, TypeOK, provider
  <1>13. CASE Tick
    <2>1. token' \in MaybeToken /\ trust' \in Nat
      BY <1>13, AgedIsToken, LessIsSmall DEF Tick, TypeOK
    <2>2. ASSUME NEW g \in Goroutines PROVE proc'[g] \in Goroutine
      <3>1. proc[g] \in Goroutine
        BY DEF TypeOK
      <3>2. CASE OnItsWay(g)
        <4>1. proc[g].age < Timeout
          BY <1>13, <3>2 DEF Tick, OnItsWay
        <4>2. Aged(proc[g].held) \in MaybeToken
          BY <3>1, AgedIsToken DEF Goroutine
        <4>3. proc'[g] = [proc[g] EXCEPT !.age = @ + 1, !.held = Aged(@)]
          BY <1>13, <3>2 DEF Tick
        <4>4. proc[g].age + 1 \in 0 .. Timeout
          BY <3>1, <4>1, VaultAssumption DEF VaultAssumption, Goroutine
        <4>5. QED
          BY <3>1, <4>2, <4>3, <4>4 DEF Goroutine
      <3>3. CASE ~OnItsWay(g)
        BY <1>13, <3>1, <3>3 DEF Tick
      <3>4. QED
        BY <3>2, <3>3
    <2>3. proc' \in [Goroutines -> Goroutine]
      BY <1>13, <2>2 DEF Tick
    <2>4. ticker' \in TickerType
      <3>1. ticker \in TickerType /\ ticker.left \in 0 .. CacheTTL
        BY DEF TypeOK, TickerType
      <3>2. ticker.left > 1 => ticker.left - 1 \in 0 .. CacheTTL
        BY <3>1, VaultAssumption DEF VaultAssumption
      <3>3. [left |-> CacheTTL, due |-> TRUE] \in TickerType
        BY VaultAssumption DEF VaultAssumption, TickerType
      <3>4. ticker.left > 1 => [ticker EXCEPT !.left = ticker.left - 1] \in TickerType
        BY <3>1, <3>2 DEF TickerType
      <3>5. QED
        BY <1>13, <3>1, <3>3, <3>4 DEF Tick
    <2>5. QED
      BY <1>13, <2>1, <2>3, <2>4 DEF Tick, TypeOK, TickerType, vault
  <1>14. CASE RevokeTokens
    <2>1. token' \in MaybeToken
      BY <1>14, RevokedIsToken DEF RevokeTokens, TypeOK
    <2>2. ASSUME NEW g \in Goroutines PROVE [proc[g] EXCEPT !.held = Revoke(@)] \in Goroutine
      <3>1. proc[g] \in Goroutine /\ proc[g].held \in MaybeToken
        BY DEF TypeOK, Goroutine
      <3>2. Revoke(proc[g].held) \in MaybeToken
        BY <3>1, RevokedIsToken
      <3>3. QED
        BY <3>1, <3>2 DEF Goroutine
    <2>3. faults' \in 0 .. MaxFaults
      BY <1>14, VaultAssumption DEF VaultAssumption, RevokeTokens, Fault, TypeOK
    <2>4. QED
      BY <1>14, <2>1, <2>2, <2>3 DEF RevokeTokens, TypeOK, vault
  <1>15. CASE Crash
    <2>1. faults' \in 0 .. MaxFaults
      BY <1>15, VaultAssumption DEF VaultAssumption, Crash, Fault, TypeOK
    <2>2. QED
      BY <1>15, <2>1, RestartedType DEF Crash
  <1>16. CASE UNCHANGED vars
    BY <1>16 DEF TypeOK, vars, vault, provider
  <1>17. QED
    BY <1>2, <1>3, <1>4, <1>5, <1>6, <1>7, <1>8, <1>9, <1>10, <1>11, <1>12, <1>13,
       <1>14, <1>15, <1>16
    DEF Next, Run

\* Every variable keeps its type (vault_provider.go).
THEOREM TypeCorrect == Spec => []TypeOK
  BY InitType, TypeStep, PTL DEF Spec

(***************************************************************************)
(* Tokens last.                                                            *)
(***************************************************************************)
\* What a goroutine's record says of the tokens, by the place it is at.
Lasting(r) ==
  /\ r.pc = "issued" => r.held # NoToken /\ r.held.left >= Duration - r.age
  /\ r.pc = "expiry" => token # NoToken /\ token.left >= Duration - Timeout
  /\ r.pc = "build" => token # NoToken /\ token.left > Timeout
  /\ r.pc = "get" => r.held # NoToken /\ r.held.left > Timeout - r.age

\* While KNOX believes in its token, the token outlives that belief by the
\* margin, less what the answer took.
BeliefLasting ==
  trust > 0 => /\ token # NoToken /\ token.left >= trust + Margin - Timeout
               /\ trust + Margin =< Duration

TokenInv ==
  /\ TypeOK
  /\ BeliefLasting
  /\ \A g \in Goroutines : Lasting(proc[g])

LEMMA LeftType ==
  ASSUME NEW t \in MaybeToken, t # NoToken
  PROVE  t.left \in Nat
  BY DEF MaybeToken, Token

\* A step of one goroutine that touches neither token nor expiry.
LEMMA LastingStep ==
  ASSUME TokenInv, NEW g \in Goroutines, NEW r, Lasting(r), Is(g, r),
         UNCHANGED <<lease, token, trust>>
  PROVE  BeliefLasting' /\ \A h \in Goroutines : Lasting(proc[h])'
  <1>1. proc'[g] = r /\ \A h \in Goroutines \ {g} : proc'[h] = proc[h]
    BY DEF TokenInv, TypeOK, Is
  <1>2. QED
    BY <1>1 DEF TokenInv, BeliefLasting, Lasting, Duration

\* A goroutine that waits claims nothing.
LEMMA RestLasts ==
  ASSUME NEW r \in Goroutine, r.pc \notin {"issued", "expiry", "build", "get"}
  PROVE  Lasting(r)
  BY DEF Lasting

LEMMA RestartedLasts ==
  ASSUME TokenInv, Restarted
  PROVE  BeliefLasting' /\ \A h \in Goroutines : Lasting(proc[h])'
  <1>1. trust' = 0 /\ \A h \in Goroutines : proc'[h].pc \in {"login", "off"}
    BY DEF Restarted, Booting, Asleep, Goroutines
  <1>2. QED
    BY <1>1 DEF BeliefLasting, Lasting

LEMMA GivesUpLasts ==
  ASSUME TokenInv, NEW g \in Goroutines, GivesUp(g)
  PROVE  BeliefLasting' /\ \A h \in Goroutines : Lasting(proc[h])'
  <1>1. CASE g = "main" /\ proc[g].want # "key"
    BY <1>1, RestartedLasts DEF GivesUp
  <1>2. CASE ~(g = "main" /\ proc[g].want # "key")
    <2>1. AtRest(g) \in Goroutine /\ AtRest(g).pc = "idle"
      BY AtRestType DEF TokenInv, AtRest, Asleep
    <2>2. Lasting(AtRest(g))
      BY <2>1, RestLasts
    <2>3. QED
      BY <1>2, <2>2, LastingStep DEF GivesUp, vault, provider
  <1>3. QED
    BY <1>1, <1>2

LEMMA TokenInit == Init => TokenInv
  <1>1. Init => \A g \in Goroutines : proc[g].pc \in {"login", "off"}
    BY DEF Init, Booting, Asleep, Goroutines
  <1>2. QED
    BY <1>1, InitType DEF Init, TokenInv, BeliefLasting, Lasting

LEMMA TokenStep == TokenInv /\ [Next]_vars => TokenInv'
  <1>1. SUFFICES ASSUME TokenInv, [Next]_vars
                 PROVE  BeliefLasting' /\ \A h \in Goroutines : Lasting(proc[h])'
    BY TypeStep DEF TokenInv
  <1> USE <1>1
  <1>2. /\ TypeOK /\ TypeOK'
        /\ Duration \in Nat /\ Duration > 2 * Timeout
        /\ Timeout \in Nat /\ Margin \in Nat /\ Margin >= 2 * Timeout
    BY TypeStep, DurationIsLong, VaultAssumption DEF VaultAssumption, TokenInv, TypeOK
  <1>3. /\ \A g \in Goroutines : proc[g] \in Goroutine /\ proc[g].held \in MaybeToken
        /\ token \in MaybeToken /\ trust \in Nat
        /\ \A g \in Goroutines : Lasting(proc[g])
    BY <1>2 DEF TokenInv, TypeOK, Goroutine
  <1>4. ASSUME NEW g \in Goroutines, Check(g)
        PROVE  BeliefLasting' /\ \A h \in Goroutines : Lasting(proc[h])'
    <2> DEFINE r == [proc[g] EXCEPT !.pc = IF trust = 0 THEN "login" ELSE "build", !.age = 0]
    <2>1. Is(g, r) /\ UNCHANGED <<lease, token, trust>>
      BY <1>4 DEF Check, Goto, vault, provider
    <2>2. r.pc = IF trust = 0 THEN "login" ELSE "build"
      BY <1>3 DEF Goroutine
    <2>3. trust > 0 => token # NoToken /\ token.left > Timeout
      BY <1>2, <1>3, LeftType DEF TokenInv, BeliefLasting
    <2>4. Lasting(r)
      BY <1>3, <2>2, <2>3 DEF Lasting
    <2> HIDE DEF r
    <2>5. QED
      BY <2>1, <2>4, LastingStep
  <1>5. ASSUME NEW g \in Goroutines, VaultIssues(g)
        PROVE  BeliefLasting' /\ \A h \in Goroutines : Lasting(proc[h])'
    <2> DEFINE r == [proc[g] EXCEPT !.pc = "issued", !.held = Issued]
    <2>1. Is(g, r) /\ UNCHANGED <<lease, token, trust>>
      BY <1>5 DEF VaultIssues, vault, provider
    <2>2. r.pc = "issued" /\ r.held = Issued /\ r.age = proc[g].age /\ r.age \in Nat
      BY <1>2, <1>3 DEF Goroutine
    <2>3. Issued # NoToken /\ Issued.left = Duration
      BY <1>2, IssuedIsToken DEF TypeOK
    <2>4. Lasting(r)
      BY <1>2, <2>2, <2>3 DEF Lasting
    <2> HIDE DEF r
    <2>5. QED
      BY <2>1, <2>4, LastingStep
  <1>6. ASSUME NEW g \in Goroutines, SetToken(g)
        PROVE  BeliefLasting' /\ \A h \in Goroutines : Lasting(proc[h])'
    <2>1. /\ proc[g].held # NoToken /\ proc[g].held.left \in Nat
          /\ proc[g].held.left >= Duration - Timeout
      <3>1. proc[g].held # NoToken /\ proc[g].held.left >= Duration - proc[g].age
        BY <1>3, <1>6 DEF SetToken, Lasting
      <3>2. proc[g].age \in 0 .. Timeout /\ proc[g].held.left \in Nat
        BY <1>3, <3>1, LeftType DEF Goroutine
      <3>3. QED
        BY <1>2, <3>1, <3>2
    <2>2. token' = proc[g].held /\ trust' = trust /\ lease' = lease
      BY <1>6 DEF SetToken, vault
    <2>3. proc'[g].pc = "expiry" /\ \A h \in Goroutines \ {g} : proc'[h] = proc[h]
      <3>1. [proc[g] EXCEPT !.pc = "expiry", !.held = NoToken, !.age = 0].pc = "expiry"
        BY <1>3 DEF Goroutine
      <3>2. QED
        BY <1>2, <1>6, <3>1 DEF SetToken, Is, TypeOK
    <2>4. Duration' = Duration /\ token' # NoToken /\ token'.left > Timeout
      BY <1>2, <2>1, <2>2 DEF Duration
    \* The new token outlives the belief in the old one too.
    <2>5. BeliefLasting'
      BY <1>2, <1>3, <2>1, <2>2, <2>4 DEF TokenInv, BeliefLasting
    <2>6. QED
      BY <1>2, <1>3, <2>1, <2>2, <2>3, <2>4, <2>5 DEF Lasting
  <1>7. ASSUME NEW g \in Goroutines, SetExpiry(g)
        PROVE  BeliefLasting' /\ \A h \in Goroutines : Lasting(proc[h])'
    <2>1. token # NoToken /\ token.left >= Duration - Timeout /\ token.left \in Nat
      BY <1>3, <1>7, LeftType DEF SetExpiry, Lasting
    <2>2. token' = token /\ trust' = Believed /\ lease' = lease /\ Duration' = Duration
      BY <1>7 DEF SetExpiry, vault, Duration
    <2>3. Believed \in Nat /\ (Believed > 0 => Believed = Duration - Margin)
      BY <1>2, BelievedIsEarly DEF TypeOK
    <2>4. BeliefLasting'
      BY <1>2, <2>1, <2>2, <2>3 DEF BeliefLasting
    <2>5. proc'[g].pc \in {"check", "build"} /\ \A h \in Goroutines \ {g} : proc'[h] = proc[h]
      <3>1. /\ [proc[g] EXCEPT !.pc = "check", !.want = "cache"].pc = "check"
            /\ [proc[g] EXCEPT !.pc = "build", !.age = 0].pc = "build"
        BY <1>3 DEF Goroutine
      <3>2. QED
        BY <1>2, <1>7, <3>1 DEF SetExpiry, Goto, Is, TypeOK
    <2>6. QED
      BY <1>2, <1>3, <2>1, <2>2, <2>4, <2>5 DEF Lasting
  <1>8. ASSUME NEW g \in Goroutines, BuildRequest(g)
        PROVE  BeliefLasting' /\ \A h \in Goroutines : Lasting(proc[h])'
    <2> DEFINE r == [proc[g] EXCEPT !.pc = "get", !.held = token, !.age = 0]
    <2>1. Is(g, r) /\ UNCHANGED <<lease, token, trust>>
      BY <1>8 DEF BuildRequest, vault, provider
    <2>2. r.pc = "get" /\ r.held = token /\ r.age = 0
      BY <1>3 DEF Goroutine
    <2>3. token # NoToken /\ token.left > Timeout
      BY <1>3, <1>8 DEF BuildRequest, Lasting
    <2>4. Lasting(r)
      BY <1>2, <2>2, <2>3 DEF Lasting
    <2> HIDE DEF r
    <2>5. QED
      BY <2>1, <2>4, LastingStep
  <1>9. ASSUME NEW g \in Goroutines, VaultAnswers(g)
        PROVE  BeliefLasting' /\ \A h \in Goroutines : Lasting(proc[h])'
    <2> DEFINE r == [proc[g] EXCEPT !.pc = "answered", !.held = NoToken, !.read = Received(g)]
    <2>1. Is(g, r) /\ UNCHANGED <<lease, token, trust>>
      BY <1>9 DEF VaultAnswers, vault, provider
    <2>2. r.pc = "answered"
      BY <1>3 DEF Goroutine
    <2>3. Lasting(r)
      BY <2>2 DEF Lasting
    <2> HIDE DEF r
    <2>4. QED
      BY <2>1, <2>3, LastingStep
  <1>10. ASSUME NEW g \in Goroutines, VaultRejects(g) \/ RequestFails(g)
         PROVE  BeliefLasting' /\ \A h \in Goroutines : Lasting(proc[h])'
    BY <1>10, GivesUpLasts DEF VaultRejects, RequestFails
  <1>11. ASSUME NEW g \in Goroutines, Finish(g)
         PROVE  BeliefLasting' /\ \A h \in Goroutines : Lasting(proc[h])'
    <2>1. UNCHANGED <<lease, token, trust>>
      BY <1>11 DEF Finish, vault
    <2>2. CASE g = "main" /\ proc[g].want = "cache"
      <3>1. PICK pc \in {"check", "idle"} :
              proc' = [main |-> [Asleep EXCEPT !.pc = pc, !.want = "key"],
                       refresher |-> [Asleep EXCEPT !.pc = "idle", !.want = "cache"]]
        BY <1>11, <2>2 DEF Finish
      <3>2. proc'["main"].pc = pc /\ proc'["refresher"].pc = "idle"
        BY <3>1 DEF Asleep
      <3>3. QED
        BY <2>1, <3>2 DEF TokenInv, BeliefLasting, Lasting, Duration, Goroutines
    <2>3. CASE ~(g = "main" /\ proc[g].want = "cache")
      <3>1. AtRest(g) \in Goroutine /\ AtRest(g).pc = "idle"
        BY <1>2, AtRestType DEF AtRest, Asleep
      <3>2. QED
        BY <1>11, <2>1, <2>3, <3>1, RestLasts, LastingStep DEF Finish
    <2>4. QED
      BY <2>2, <2>3
  <1>12. CASE Refresh
    <2> DEFINE r == [proc["refresher"] EXCEPT !.pc = "check", !.age = 0]
    <2>1. Is("refresher", r) /\ UNCHANGED <<lease, token, trust>> /\ "refresher" \in Goroutines
      BY <1>12 DEF Refresh, Goto, vault, provider, Goroutines
    <2>2. r.pc = "check"
      BY <1>3, <2>1 DEF Goroutine
    <2>3. Lasting(r)
      BY <2>2 DEF Lasting
    <2> HIDE DEF r
    <2>4. QED
      BY <2>1, <2>3, LastingStep
  <1>13. CASE Rotate
    BY <1>13 DEF Rotate, provider, TokenInv, BeliefLasting, Lasting, Duration
  <1>14. CASE Tick
    <2>1. lease' = lease /\ Duration' = Duration /\ token' = Aged(token) /\ trust' = Less(trust)
      BY <1>14 DEF Tick, vault, Duration
    <2>2. BeliefLasting'
      <3>1. trust' > 0 => trust' = trust - 1
        BY <1>3, <2>1, LessIsSmall
      <3>2. token # NoToken => token' # NoToken /\ token'.left >= token.left - 1
        BY <1>3, <2>1, AgedIsToken
      <3>3. /\ token # NoToken => token.left \in Nat
            /\ token' # NoToken => token'.left \in Nat
        BY <1>2, <1>3, LeftType DEF TypeOK
      <3>4. QED
        BY <1>2, <1>3, <2>1, <3>1, <3>2, <3>3 DEF TokenInv, BeliefLasting
    <2>3. ASSUME NEW g \in Goroutines PROVE Lasting(proc[g])'
      <3>1. CASE ~OnItsWay(g)
        <4>1. proc'[g] = proc[g] /\ proc[g].pc \in {"off", "idle"}
          BY <1>14, <3>1 DEF Tick
        <4>2. QED
          BY <4>1 DEF Lasting
      <3>2. CASE OnItsWay(g)
        <4>1. proc'[g] = [proc[g] EXCEPT !.age = @ + 1, !.held = Aged(@)]
          BY <1>14, <3>2 DEF Tick
        <4>2. /\ proc'[g].pc = proc[g].pc /\ proc'[g].age = proc[g].age + 1
              /\ proc'[g].held = Aged(proc[g].held) /\ proc[g].age \in 0 .. Timeout
          BY <1>3, <4>1 DEF Goroutine
        <4>3. proc[g].held # NoToken =>
                /\ proc'[g].held # NoToken /\ proc'[g].held.left >= proc[g].held.left - 1
                /\ proc[g].held.left \in Nat /\ proc'[g].held.left \in Nat
          BY <1>3, <4>2, AgedIsToken, LeftType
        <4>4. proc[g].pc \notin {"expiry", "build"}
          BY <3>2 DEF OnItsWay
        <4>5. QED
          BY <1>2, <1>3, <2>1, <4>2, <4>3, <4>4 DEF Lasting
      <3>3. QED
        BY <3>1, <3>2
    <2>4. QED
      BY <2>2, <2>3
  <1>15. CASE RevokeTokens
    <2>1. UNCHANGED <<lease, trust>> /\ token' = Revoke(token) /\ Duration' = Duration
      BY <1>15 DEF RevokeTokens, vault, Duration
    <2>2. token # NoToken => token' # NoToken /\ token'.left = token.left
      BY <1>3, <2>1, RevokedIsToken
    <2>3. ASSUME NEW g \in Goroutines PROVE Lasting(proc[g])'
      <3>1. proc'[g] = [proc[g] EXCEPT !.held = Revoke(@)]
        BY <1>15 DEF RevokeTokens
      <3>2. /\ proc'[g].pc = proc[g].pc /\ proc'[g].age = proc[g].age
            /\ proc'[g].held = Revoke(proc[g].held)
        BY <1>3, <3>1 DEF Goroutine
      <3>3. proc[g].held # NoToken =>
              proc'[g].held # NoToken /\ proc'[g].held.left = proc[g].held.left
        BY <1>3, <3>2, RevokedIsToken
      <3>4. QED
        BY <1>3, <2>1, <2>2, <3>2, <3>3 DEF Lasting
    <2>4. BeliefLasting'
      BY <2>1, <2>2 DEF TokenInv, BeliefLasting
    <2>5. QED
      BY <2>3, <2>4
  <1>16. CASE Crash
    BY <1>16, RestartedLasts DEF Crash
  <1>17. CASE UNCHANGED vars
    BY <1>17 DEF vars, vault, provider, TokenInv, BeliefLasting, Lasting, Duration
  <1>18. QED
    BY <1>4, <1>5, <1>6, <1>7, <1>8, <1>9, <1>10, <1>11, <1>12, <1>13, <1>14, <1>15,
       <1>16, <1>17
    DEF Next, Run

LEMMA TokenInvSuffices == TokenInv => ReadsOutliveNoToken
  <1>1. SUFFICES ASSUME TokenInv, NEW g \in Goroutines, proc[g].pc = "get"
                 PROVE  proc[g].held # NoToken /\ proc[g].held.left > 0
    BY DEF ReadsOutliveNoToken
  <1>2. proc[g] \in Goroutine /\ Lasting(proc[g])
    BY <1>1 DEF TokenInv, TypeOK
  <1>3. proc[g].held # NoToken /\ proc[g].held.left > Timeout - proc[g].age
    BY <1>1, <1>2 DEF Lasting
  <1>4. proc[g].age \in 0 .. Timeout /\ proc[g].held.left \in Nat
    BY <1>2, <1>3, LeftType DEF Goroutine
  <1>5. QED
    BY <1>3, <1>4, VaultAssumption DEF VaultAssumption

\* No read is sent with a token that runs out before Vault has seen it
\* (vault_provider.go, authenticate, refreshCache and ReadSecret).
THEOREM TokensLast == Spec => []ReadsOutliveNoToken
  BY TokenInit, TokenStep, TokenInvSuffices, PTL DEF Spec

(***************************************************************************)
(* The cache moves forward.  One goroutine at a time fills it: main until  *)
(* it starts the refresher, and the refresher from then on.  So nothing    *)
(* newer can have come in between a read and the swap that publishes it.   *)
(***************************************************************************)
\* A record that will fill the cache holds nothing older than the cache.
Newer(r) ==
  r.pc = "answered" /\ r.want = "cache" =>
    r.read =< secret /\ (cache # NoVersion => cache =< r.read)

OneFills ==
  /\ proc["refresher"].want = "cache"
  /\ proc["refresher"].pc # "off" => proc["main"].want = "key"

CacheInv ==
  /\ TypeOK
  /\ OneFills
  /\ cache # NoVersion => cache =< secret
  /\ \A g \in Goroutines : Newer(proc[g])

LEMMA CacheInit == Init => CacheInv
  <1>1. SUFFICES ASSUME Init PROVE CacheInv
    OBVIOUS
  <1>2. /\ proc["refresher"] = Asleep
        /\ proc["main"] = [Asleep EXCEPT !.pc = "login", !.want = "boot"]
    BY <1>1 DEF Init, Booting, Goroutines
  <1>3. /\ proc["refresher"].pc = "off" /\ proc["refresher"].want = "cache"
        /\ proc["main"].pc = "login"
    BY <1>2 DEF Asleep
  <1>4. QED
    BY <1>1, <1>3, InitType DEF Init, CacheInv, OneFills, Newer, Goroutines

\* A step of one goroutine that leaves the cache alone.
LEMMA NewerStep ==
  ASSUME CacheInv, NEW g \in Goroutines, NEW r, Is(g, r), UNCHANGED <<secret, cache>>,
         r.want = proc[g].want \/ (g = "main" /\ r.want = "cache" /\ proc[g].want = "boot"),
         r.pc = "off" <=> proc[g].pc = "off",
         r.pc = "answered" /\ r.want = "cache" => r = proc[g] \/ r.read = secret
  PROVE  /\ OneFills' /\ (cache # NoVersion => cache =< secret)'
         /\ \A h \in Goroutines : Newer(proc[h])'
  <1>1. proc'[g] = r /\ \A h \in Goroutines \ {g} : proc'[h] = proc[h]
    BY DEF CacheInv, TypeOK, Is
  <1>2. OneFills'
    BY <1>1 DEF CacheInv, OneFills, Goroutines
  <1>3. secret \in Nat /\ (cache # NoVersion => cache \in Nat)
    BY DEF CacheInv, TypeOK
  <1>4. Newer(proc[g])'
    BY <1>1, <1>3 DEF CacheInv, Newer
  <1>5. QED
    BY <1>1, <1>2, <1>4 DEF CacheInv, Newer

\* Only a goroutine that wants the cache changes it, and only forward.
LEMMA FinishMovesOn ==
  ASSUME CacheInv, NEW g \in Goroutines, Finish(g)
  PROVE  /\ secret' = secret /\ cache' \in (0 .. secret) \cup {NoVersion}
         /\ cache # NoVersion => cache' # NoVersion /\ cache' >= cache
         /\ cache' # cache => proc[g].want = "cache" /\ cache' = proc[g].read
  <1>1. /\ proc[g].read \in Nat /\ secret \in 0 .. MaxRotations
        /\ cache \in (0 .. MaxRotations) \cup {NoVersion} /\ NoVersion \notin 0 .. MaxRotations
        /\ proc[g].read \in 0 .. MaxRotations
    BY VaultAssumption DEF VaultAssumption, CacheInv, TypeOK, Goroutine
  <1>2. Newer(proc[g]) /\ (cache # NoVersion => cache =< secret)
    BY DEF CacheInv
  <1>3. QED
    BY <1>1, <1>2 DEF Finish, Fills, Newer, vault

LEMMA RestartedNewer ==
  ASSUME CacheInv, Restarted
  PROVE  /\ OneFills' /\ (cache # NoVersion => cache =< secret)'
         /\ \A h \in Goroutines : Newer(proc[h])'
         /\ secret' = secret /\ cache' = NoVersion
  <1>1. /\ proc'["refresher"] = Asleep
        /\ proc'["main"] = [Asleep EXCEPT !.pc = "login", !.want = "boot"]
    BY DEF Restarted, Booting, Goroutines
  <1>2. /\ proc'["refresher"].pc = "off" /\ proc'["refresher"].want = "cache"
        /\ proc'["main"].pc = "login"
    BY <1>1 DEF Asleep
  <1>3. QED
    BY <1>2 DEF Restarted, vault, OneFills, Newer, Goroutines

LEMMA GivesUpNewer ==
  ASSUME CacheInv, NEW g \in Goroutines, GivesUp(g), proc[g].pc # "off"
  PROVE  /\ OneFills' /\ (cache # NoVersion => cache =< secret)'
         /\ \A h \in Goroutines : Newer(proc[h])'
  <1>1. CASE g = "main" /\ proc[g].want # "key"
    BY <1>1, RestartedNewer DEF GivesUp
  <1>2. CASE ~(g = "main" /\ proc[g].want # "key")
    <2>1. AtRest(g).pc = "idle" /\ AtRest(g).want = proc[g].want
      BY DEF AtRest, Asleep
    <2>2. QED
      BY <1>2, <2>1, NewerStep DEF GivesUp, vault, provider
  <1>3. QED
    BY <1>1, <1>2

LEMMA CacheStep == CacheInv /\ [Next]_vars => CacheInv'
  <1>1. SUFFICES ASSUME CacheInv, [Next]_vars
                 PROVE  /\ OneFills' /\ (cache # NoVersion => cache =< secret)'
                        /\ \A h \in Goroutines : Newer(proc[h])'
    BY TypeStep DEF CacheInv
  <1> USE <1>1
  <1> DEFINE Goal == /\ OneFills' /\ (cache # NoVersion => cache =< secret)'
                     /\ \A h \in Goroutines : Newer(proc[h])'
  <1>2. /\ TypeOK /\ secret \in Nat /\ (cache # NoVersion => cache \in Nat)
        /\ \A g \in Goroutines : proc[g] \in Goroutine
    BY DEF CacheInv, TypeOK
  <1>3. ASSUME NEW g \in Goroutines, NEW p \in PCs, p \notin {"off", "answered"},
               proc[g].pc # "off", Goto(g, p), UNCHANGED <<secret, cache>>
        PROVE  Goal
    <2> DEFINE r == [proc[g] EXCEPT !.pc = p, !.age = 0]
    <2>1. Is(g, r)
      BY <1>3 DEF Goto
    <2>2. r.want = proc[g].want /\ r.pc = p
      BY <1>2 DEF Goroutine
    <2> HIDE DEF r
    <2>3. QED
      BY <1>3, <2>1, <2>2, NewerStep
  <1>4. ASSUME NEW g \in Goroutines, Check(g) PROVE Goal
    BY <1>3, <1>4 DEF Check, PCs, vault, provider
  <1>5. ASSUME NEW g \in Goroutines, VaultIssues(g) PROVE Goal
    <2> DEFINE r == [proc[g] EXCEPT !.pc = "issued", !.held = Issued]
    <2>1. Is(g, r) /\ UNCHANGED <<secret, cache>> /\ proc[g].pc = "login"
      BY <1>5 DEF VaultIssues, vault, provider
    <2>2. r.want = proc[g].want /\ r.pc = "issued"
      BY <1>2 DEF Goroutine
    <2> HIDE DEF r
    <2>3. QED
      BY <2>1, <2>2, NewerStep
  <1>6. ASSUME NEW g \in Goroutines, SetToken(g) PROVE Goal
    <2> DEFINE r == [proc[g] EXCEPT !.pc = "expiry", !.held = NoToken, !.age = 0]
    <2>1. Is(g, r) /\ UNCHANGED <<secret, cache>> /\ proc[g].pc = "issued"
      BY <1>6 DEF SetToken, vault
    <2>2. r.want = proc[g].want /\ r.pc = "expiry"
      BY <1>2 DEF Goroutine
    <2> HIDE DEF r
    <2>3. QED
      BY <2>1, <2>2, NewerStep
  <1>7. ASSUME NEW g \in Goroutines, SetExpiry(g) PROVE Goal
    <2>1. UNCHANGED <<secret, cache>> /\ proc[g].pc = "expiry"
      BY <1>7 DEF SetExpiry, vault
    <2>2. CASE proc[g].want = "boot"
      <3> DEFINE r == [proc[g] EXCEPT !.pc = "check", !.want = "cache"]
      <3>1. Is(g, r)
        BY <1>7, <2>2 DEF SetExpiry
      <3>2. r.want = "cache" /\ r.pc = "check"
        BY <1>2 DEF Goroutine
      <3>3. g = "main"
        BY <2>2 DEF CacheInv, OneFills, Goroutines
      <3> HIDE DEF r
      <3>4. QED
        BY <2>1, <2>2, <3>1, <3>2, <3>3, NewerStep
    <2>3. CASE proc[g].want # "boot"
      BY <1>3, <1>7, <2>1, <2>3 DEF SetExpiry, PCs
    <2>4. QED
      BY <2>2, <2>3
  <1>8. ASSUME NEW g \in Goroutines, BuildRequest(g) PROVE Goal
    <2> DEFINE r == [proc[g] EXCEPT !.pc = "get", !.held = token, !.age = 0]
    <2>1. Is(g, r) /\ UNCHANGED <<secret, cache>> /\ proc[g].pc = "build"
      BY <1>8 DEF BuildRequest, vault, provider
    <2>2. r.want = proc[g].want /\ r.pc = "get"
      BY <1>2 DEF Goroutine
    <2> HIDE DEF r
    <2>3. QED
      BY <2>1, <2>2, NewerStep
  <1>9. ASSUME NEW g \in Goroutines, VaultAnswers(g) PROVE Goal
    <2> DEFINE r == [proc[g] EXCEPT !.pc = "answered", !.held = NoToken, !.read = Received(g)]
    <2>1. Is(g, r) /\ UNCHANGED <<secret, cache>> /\ proc[g].pc = "get"
      BY <1>9 DEF VaultAnswers, vault, provider
    <2>2. /\ r.want = proc[g].want /\ r.pc = "answered"
          /\ r.want = "cache" => r.read = secret
      BY <1>2 DEF Goroutine, Received
    <2> HIDE DEF r
    <2>3. QED
      BY <2>1, <2>2, NewerStep
  <1>10. ASSUME NEW g \in Goroutines, VaultRejects(g) \/ RequestFails(g) PROVE Goal
    BY <1>10, GivesUpNewer DEF VaultRejects, RequestFails
  <1>11. ASSUME NEW g \in Goroutines, Finish(g) PROVE Goal
    <2>1. /\ secret' = secret /\ (cache' # NoVersion => cache' =< secret)
          /\ cache' # cache => proc[g].want = "cache"
      BY <1>2, <1>11, FinishMovesOn
    <2>2. CASE g = "main" /\ proc[g].want = "cache"
      <3>1. PICK pc \in {"check", "idle"} :
              proc' = [main |-> [Asleep EXCEPT !.pc = pc, !.want = "key"],
                       refresher |-> [Asleep EXCEPT !.pc = "idle", !.want = "cache"]]
        BY <1>11, <2>2 DEF Finish
      <3>2. /\ proc'["main"].pc = pc /\ proc'["main"].want = "key"
            /\ proc'["refresher"].pc = "idle" /\ proc'["refresher"].want = "cache"
        BY <3>1 DEF Asleep
      <3>3. QED
        BY <2>1, <3>2 DEF OneFills, Newer, Goroutines
    <2>3. CASE ~(g = "main" /\ proc[g].want = "cache")
      <3>1. AtRest(g).pc = "idle" /\ AtRest(g).want = proc[g].want
        BY DEF AtRest, Asleep
      <3>2. /\ proc'[g] = AtRest(g) /\ proc[g].pc = "answered"
            /\ \A h \in Goroutines \ {g} : proc'[h] = proc[h]
        BY <1>2, <1>11, <2>3 DEF Finish, Is, TypeOK
      <3>3. OneFills'
        BY <3>1, <3>2 DEF CacheInv, OneFills, Goroutines
      <3>4. ASSUME NEW h \in Goroutines PROVE Newer(proc[h])'
        <4>1. CASE h = g
          BY <3>1, <3>2, <4>1 DEF Newer
        \* If the cache has changed, the refresher did it and main is past it.
        <4>2. CASE h # g
          <5>1. CASE cache' = cache
            BY <2>1, <3>2, <4>2, <5>1 DEF CacheInv, Newer
          <5>2. CASE cache' # cache
            <6>1. g = "refresher" /\ h = "main"
              BY <2>1, <2>3, <4>2, <5>2 DEF Goroutines
            <6>2. proc'[h].want = "key"
              BY <3>2, <4>2, <6>1 DEF CacheInv, OneFills
            <6>3. QED
              BY <6>2 DEF Newer
          <5>3. QED
            BY <5>1, <5>2
        <4>3. QED
          BY <4>1, <4>2
      <3>5. QED
        BY <2>1, <3>3, <3>4
    <2>4. QED
      BY <2>2, <2>3
  <1>12. CASE Refresh
    BY <1>3, <1>12 DEF Refresh, Goroutines, PCs, vault, provider
  <1>13. CASE Rotate
    BY <1>2, <1>13 DEF Rotate, provider, CacheInv, OneFills, Newer, TypeOK, Goroutine
  <1>14. CASE Tick \/ RevokeTokens
    <2>1. secret' = secret /\ cache' = cache
      BY <1>14 DEF Tick, RevokeTokens, vault
    <2>2. \A g \in Goroutines : /\ proc'[g].pc = proc[g].pc /\ proc'[g].want = proc[g].want
                                /\ proc'[g].read = proc[g].read
      <3>1. CASE Tick
        BY <1>2, <3>1 DEF Tick, Goroutine
      <3>2. CASE RevokeTokens
        BY <1>2, <3>2 DEF RevokeTokens, Goroutine
      <3>3. QED
        BY <1>14, <3>1, <3>2
    <2>3. QED
      BY <2>1, <2>2 DEF CacheInv, OneFills, Newer, Goroutines
  <1>15. CASE Crash
    BY <1>15, RestartedNewer DEF Crash
  <1>16. CASE UNCHANGED vars
    BY <1>16 DEF vars, vault, provider, CacheInv, OneFills, Newer
  <1>17. QED
    BY <1>4, <1>5, <1>6, <1>7, <1>8, <1>9, <1>10, <1>11, <1>12, <1>13, <1>14, <1>15, <1>16
    DEF Next, Run

(***************************************************************************)
(* The refinement.                                                         *)
(***************************************************************************)
LEMMA ShowsInit == Init => Cache!CacheInit
  BY DEF Init, Cache!CacheInit

LEMMA ShowsStep ==
  ASSUME CacheInv, [Next]_vars
  PROVE  [Cache!Rotated \/ Cache!Refreshed \/ Cache!Forgotten]_(Cache!svars)
  <1> DEFINE Still == UNCHANGED <<secret, cache>>
  <1>1. Still => [Cache!Rotated \/ Cache!Refreshed \/ Cache!Forgotten]_(Cache!svars)
    BY DEF Cache!svars
  <1>2. Restarted => Cache!Forgotten
    BY RestartedNewer DEF Cache!Forgotten
  <1>3. ASSUME NEW g \in Goroutines, GivesUp(g) PROVE Still \/ Cache!Forgotten
    BY <1>2, <1>3 DEF GivesUp, vault, provider
  <1>4. ASSUME NEW g \in Goroutines, Finish(g) PROVE Still \/ Cache!Refreshed
    <2>1. /\ secret' = secret /\ cache' \in (0 .. secret) \cup {NoVersion}
          /\ cache # NoVersion => cache' # NoVersion /\ cache' >= cache
      BY <1>4, FinishMovesOn
    <2>2. cache' # NoVersion => Cache!Refreshed
      BY <2>1 DEF Cache!Refreshed
    <2>3. cache' = NoVersion => Still
      BY <2>1
    <2>4. QED
      BY <2>2, <2>3
  <1>5. Rotate => Cache!Rotated
    BY DEF Rotate, provider, Cache!Rotated
  <1>6. ASSUME NEW g \in Goroutines, Run(g), ~Finish(g) PROVE Still \/ Cache!Forgotten
    BY <1>3, <1>6
    DEF Run, Check, VaultIssues, SetToken, SetExpiry, BuildRequest, VaultAnswers, VaultRejects,
        vault, provider
  <1>7. Refresh \/ Tick \/ RevokeTokens \/ UNCHANGED vars => Still
    BY DEF Refresh, Tick, RevokeTokens, vars, vault, provider
  <1>8. QED
    BY <1>1, <1>2, <1>3, <1>4, <1>5, <1>6, <1>7 DEF Next, RequestFails, Crash

\* The provider implements CachedSecret: what it shows is a version of the
\* secret, and while it runs never an older one than it has shown.
THEOREM ShowsOnlyVersions == Spec => ShowsVersions
  <1>1. CacheInv /\ [Next]_vars => [Cache!Rotated \/ Cache!Refreshed \/ Cache!Forgotten]_(Cache!svars)
    BY ShowsStep
  <1>2. QED
    BY CacheInit, CacheStep, ShowsInit, <1>1, PTL DEF Spec, ShowsVersions, Cache!CacheSpec
================================================================================
