----------------------------- MODULE VaultProvider -----------------------------
(***************************************************************************)
(* The team credentials KNOX takes from HashiCorp Vault (knox-proxy/       *)
(* credential/vault_provider.go): login with AppRole, the token and what   *)
(* KNOX believes of its lifetime, the cache of the secret, its refresh in  *)
(* the background, and main's one ReadSecret beside it.                    *)
(*                                                                         *)
(* Two goroutines run this code.  Only the cache is behind the mutex; the  *)
(* token and its expiry are two shared variables that both goroutines read *)
(* and write as they please.  A token is torn no further than that: Go     *)
(* copies a string of one length, so either token is read whole.           *)
(*                                                                         *)
(* Vault and the network are the environment.  Time passes while a request *)
(* is on its way, at most Timeout of it, and while a goroutine waits; the  *)
(* statements in between take none.  A lifetime is kept as the time left.  *)
(***************************************************************************)
EXTENDS Integers

CONSTANTS
  Leases,        \* lease_duration Vault may be configured with, 0: unlimited
  DefaultLease,  \* what an unlimited lease counts as (one hour)
  Margin,        \* how much earlier KNOX takes a token to be expired (30 s)
  Timeout,       \* of the HTTP client (10 s)
  CacheTTL,      \* VAULT_CACHE_TTL; time.NewTicker panics on zero
  MaxRotations,  \* bound: how often the secret is changed
  MaxFaults,     \* bound: requests that fail, tokens that are revoked, crashes
  NoVersion, NoToken

ASSUME VaultAssumption ==
  /\ Leases \subseteq Nat /\ DefaultLease \in Nat
  /\ Margin \in Nat /\ Timeout \in Nat
  /\ Margin >= 2 * Timeout
  /\ DefaultLease > 2 * Timeout
  /\ \A l \in Leases : l = 0 \/ l > 2 * Timeout
  /\ CacheTTL \in Nat \ {0}
  /\ MaxRotations \in Nat /\ MaxFaults \in Nat
  /\ NoVersion \notin 0 .. MaxRotations
  /\ NoToken \notin [left : Nat, revoked : BOOLEAN]

VARIABLES
  lease,    \* Vault: the role's token lifetime
  secret,   \* Vault: the version of the secret
  cache,    \* VaultProvider.cache: the version it was filled from
  token,    \* VaultProvider.vaultToken
  trust,    \* VaultProvider.tokenExpiry, 0 once it has passed
  proc,     \* the goroutines
  ticker,   \* backgroundRefresh's time.Ticker
  faults    \* counter for the bound

vault == <<lease, secret>>
provider == <<cache, token, trust>>
vars == <<vault, provider, proc, ticker, faults>>

Goroutines == {"main", "refresher"}

\* With an unlimited lease, left does not shrink.
Token == [left : Nat, revoked : BOOLEAN]
MaybeToken == Token \cup {NoToken}

\* check: is tokenExpiry past?  login: POST on its way.  issued: its answer
\* on its way.  expiry: between the two assignments of authenticate.  build:
\* the request gets its header.  get: GET on its way.  answered: its answer is.
PCs == {"off", "idle", "check", "login", "issued", "expiry", "build", "get", "answered"}

\* boot: the authentication of NewVaultProvider.  cache: refreshCache.
\* key: ReadSecret.  held: the token a goroutine has received or has sent.
Goroutine == [pc : PCs, want : {"boot", "cache", "key"}, held : MaybeToken,
              read : 0 .. MaxRotations, age : 0 .. Timeout]

Asleep == [pc |-> "off", want |-> "cache", held |-> NoToken, read |-> 0, age |-> 0]

TypeOK ==
  /\ lease \in Leases
  /\ secret \in 0 .. MaxRotations
  /\ cache \in (0 .. MaxRotations) \cup {NoVersion}
  /\ token \in MaybeToken
  /\ trust \in Nat
  /\ proc \in [Goroutines -> Goroutine]
  /\ ticker \in [left : 0 .. CacheTTL, due : BOOLEAN]
  /\ faults \in 0 .. MaxFaults

Booting == [g \in Goroutines |->
             IF g = "main" THEN [Asleep EXCEPT !.pc = "login", !.want = "boot"] ELSE Asleep]

Init ==
  /\ lease \in Leases
  /\ secret = 0
  /\ cache = NoVersion /\ token = NoToken /\ trust = 0
  /\ proc = Booting
  /\ ticker = [left |-> CacheTTL, due |-> FALSE]
  /\ faults = 0

(***************************************************************************)
(* Tokens.                                                                 *)
(***************************************************************************)
Duration == IF lease = 0 THEN DefaultLease ELSE lease
Issued == [left |-> Duration, revoked |-> FALSE]
Accepted(t) == t # NoToken /\ ~t.revoked /\ t.left > 0

Less(n) == IF n > 0 THEN n - 1 ELSE 0

\* Mutated: the token is used until its last second; an expiry that lies in
\* the past at once is not recognised.
BelievedToTheEnd == Duration
BelievedShortToo == Duration - Margin

\* tokenExpiry, from the lease_duration of the answer.
Believed == IF Duration > Margin THEN Duration - Margin ELSE 0

(***************************************************************************)
(* authenticate, refreshCache, ReadSecret.                                 *)
(***************************************************************************)
Is(g, r) == proc' = [proc EXCEPT ![g] = r]
AtRest(g) == [Asleep EXCEPT !.pc = "idle", !.want = proc[g].want]
Goto(g, pc) == Is(g, [proc[g] EXCEPT !.pc = pc, !.age = 0])
Fault == faults < MaxFaults /\ faults' = faults + 1

\* Mutated: the token of the start has to do.
CheckNothing(g) ==
  /\ proc[g].pc = "check"
  /\ Goto(g, "build")
  /\ UNCHANGED <<vault, provider, ticker, faults>>

Check(g) ==
  /\ proc[g].pc = "check"
  /\ Goto(g, IF trust = 0 THEN "login" ELSE "build")
  /\ UNCHANGED <<vault, provider, ticker, faults>>

\* Vault issues a token; the answer has still to arrive.
VaultIssues(g) ==
  /\ proc[g].pc = "login"
  /\ Is(g, [proc[g] EXCEPT !.pc = "issued", !.held = Issued])
  /\ UNCHANGED <<vault, provider, ticker, faults>>

\* The answer has arrived: vp.vaultToken is assigned ...
SetToken(g) ==
  /\ proc[g].pc = "issued"
  /\ token' = proc[g].held
  /\ Is(g, [proc[g] EXCEPT !.pc = "expiry", !.held = NoToken, !.age = 0])
  /\ UNCHANGED <<vault, cache, trust, ticker, faults>>

\* ... and vp.tokenExpiry.  NewVaultProvider goes on to refreshCache.
SetExpiry(g) ==
  /\ proc[g].pc = "expiry"
  /\ trust' = Believed
  /\ IF proc[g].want = "boot"
       THEN Is(g, [proc[g] EXCEPT !.pc = "check", !.want = "cache"])
       ELSE Goto(g, "build")
  /\ UNCHANGED <<vault, cache, token, ticker, faults>>

BuildRequest(g) ==
  /\ proc[g].pc = "build"
  /\ Is(g, [proc[g] EXCEPT !.pc = "get", !.held = token, !.age = 0])
  /\ UNCHANGED <<vault, provider, ticker, faults>>

\* refreshCache asks for the secret of the teams, ReadSecret for another one
\* (KnoxAPIKeyVaultPath), which has none of its versions.
Received(g) == IF proc[g].want = "cache" THEN secret ELSE proc[g].read

VaultAnswers(g) ==
  /\ proc[g].pc = "get"
  /\ Accepted(proc[g].held)
  /\ Is(g, [proc[g] EXCEPT !.pc = "answered", !.held = NoToken, !.read = Received(g)])
  /\ UNCHANGED <<vault, provider, ticker, faults>>

\* Mutated: ReadSecret leaves what it has read in the cache as well.
FillsAlways(g) == TRUE

Fills(g) == proc[g].want = "cache"

\* refreshCache swaps the map.  NewVaultProvider then starts the refresher,
\* and main may read the API key; ReadSecret changes nothing of the provider.
Finish(g) ==
  /\ proc[g].pc = "answered"
  /\ cache' = IF Fills(g) THEN proc[g].read ELSE cache
  /\ IF g = "main" /\ proc[g].want = "cache"
       THEN \E pc \in {"check", "idle"} :
              /\ proc' = [main |-> [Asleep EXCEPT !.pc = pc, !.want = "key"],
                          refresher |-> [Asleep EXCEPT !.pc = "idle", !.want = "cache"]]
              /\ ticker' = [left |-> CacheTTL, due |-> FALSE]
       ELSE /\ Is(g, AtRest(g))
            /\ UNCHANGED ticker
  /\ UNCHANGED <<vault, token, trust, faults>>

\* main leaves the program with an error; the container starts again.
Restarted ==
  /\ cache' = NoVersion /\ token' = NoToken /\ trust' = 0
  /\ proc' = Booting
  /\ ticker' = [left |-> CacheTTL, due |-> FALSE]
  /\ UNCHANGED vault

\* An error is fatal in NewVaultProvider and is logged elsewhere: main
\* serves without an API key, the refresher waits for its next turn.
GivesUp(g) ==
  IF g = "main" /\ proc[g].want # "key"
    THEN Restarted
    ELSE /\ Is(g, AtRest(g))
         /\ UNCHANGED <<vault, provider, ticker>>

\* Vault is down or slow, or an answer is lost.
RequestFails(g) ==
  /\ proc[g].pc \in {"login", "issued", "get", "answered"}
  /\ Fault
  /\ GivesUp(g)

\* Vault does not know the token (any more): 403.
VaultRejects(g) ==
  /\ proc[g].pc = "get"
  /\ ~Accepted(proc[g].held)
  /\ GivesUp(g)
  /\ UNCHANGED faults

\* backgroundRefresh takes a tick of its ticker.
Refresh ==
  /\ proc["refresher"].pc = "idle" /\ ticker.due
  /\ ticker' = [ticker EXCEPT !.due = FALSE]
  /\ Goto("refresher", "check")
  /\ UNCHANGED <<vault, provider, faults>>

Run(g) ==
  \/ Check(g) \/ VaultIssues(g) \/ SetToken(g) \/ SetExpiry(g)
  \/ BuildRequest(g) \/ VaultAnswers(g) \/ VaultRejects(g) \/ Finish(g)

(***************************************************************************)
(* The environment.                                                        *)
(***************************************************************************)
Rotate ==
  /\ secret < MaxRotations
  /\ secret' = secret + 1
  /\ UNCHANGED <<lease, provider, proc, ticker, faults>>

Aged(t) == IF t = NoToken \/ lease = 0 THEN t ELSE [t EXCEPT !.left = Less(@)]

OnItsWay(g) == proc[g].pc \in {"login", "issued", "get", "answered"}

\* Nobody is between two statements, and no request is older than the
\* client allows.  A tick the refresher has not taken yet is not sent twice.
Tick ==
  /\ \A g \in Goroutines : \/ proc[g].pc \in {"off", "idle"}
                           \/ OnItsWay(g) /\ proc[g].age < Timeout
  /\ token' = Aged(token)
  /\ trust' = Less(trust)
  /\ proc' = [g \in Goroutines |->
               IF OnItsWay(g) THEN [proc[g] EXCEPT !.age = @ + 1, !.held = Aged(@)] ELSE proc[g]]
  /\ ticker' = IF proc["refresher"].pc = "off" THEN ticker
               ELSE IF ticker.left > 1 THEN [ticker EXCEPT !.left = @ - 1]
               ELSE [left |-> CacheTTL, due |-> TRUE]
  /\ UNCHANGED <<vault, cache, faults>>

Revoke(t) == IF t = NoToken THEN t ELSE [t EXCEPT !.revoked = TRUE]

\* Vault loses its tokens, or an operator revokes them.
RevokeTokens ==
  /\ Fault
  /\ token' = Revoke(token)
  /\ proc' = [g \in Goroutines |-> [proc[g] EXCEPT !.held = Revoke(@)]]
  /\ UNCHANGED <<vault, cache, trust, ticker>>

Crash == Fault /\ Restarted

Next ==
  \/ \E g \in Goroutines : Run(g) \/ RequestFails(g)
  \/ Refresh
  \/ Rotate \/ Tick \/ RevokeTokens \/ Crash

Spec == Init /\ [][Next]_vars

\* The clock runs and goroutines are scheduled.  That a request is answered
\* is not assumed but counted: it fails MaxFaults times at most.
Fairness ==
  /\ WF_vars(Tick)
  /\ WF_vars(Refresh)
  /\ \A g \in Goroutines : WF_vars(Run(g))

FairSpec == Spec /\ Fairness

(***************************************************************************)
(* Properties.                                                             *)
(***************************************************************************)
\* Vault turns down no read because its token has run out: what
\* refreshCache and ReadSecret find in tokenExpiry, although they write token
\* and expiry without a lock and around one another, is early enough for the
\* whole request (vault_provider.go, authenticate and both readers).
ReadsOutliveNoToken ==
  \A g \in Goroutines :
    proc[g].pc = "get" => proc[g].held # NoToken /\ proc[g].held.left > 0

\* The cache shows a version of the secret that Vault has had, and none
\* older than the one before it, whatever overlaps (refreshCache).
Cache == INSTANCE CachedSecret WITH None <- NoVersion, current <- secret, shown <- cache
ShowsVersions == Cache!CacheSpec

\* A rotated secret arrives in the cache in the end: through failing
\* requests, restarts, tokens that run out and tokens Vault has forgotten
\* while KNOX still believes in them (backgroundRefresh).
RotationArrives ==
  \A v \in 1 .. MaxRotations : secret = v ~> (cache # NoVersion /\ cache >= v)
================================================================================
