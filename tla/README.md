# KNOX proxy: a TLA+ model

KNOX (`src/knox-proxy`, Go) stands between browsers and an n8n server. It signs
users on with Keycloak, lets them change or run a workflow only if they hold the
role for it, sends their requests to n8n under one shared account per team, and
keeps the tickets with which users ask for roles for a limited time.

This directory models the parts of it that hold state or decide something:
what its goroutines may do to one another, and what a crash, a failing statement
or a message out of order leaves behind.

## The system

| part | code | state | operations | talks to |
|---|---|---|---|---|
| JIT tickets | `jit/` | table `jit_tickets` (PostgreSQL); `Scheduler.timers`, one `time.Timer` per ticket in memory | create, cancel, admin update, timer fires, `InitFromDB` | users, administrators, the approval workflow (webhook) |
| sign-on | `auth/` | `sessions`, `sidIndex` (Keycloak session → session), OIDC `states`; in memory | login, callback, logout, backchannel logout, two cleanups | browsers, Keycloak |
| middleware, policy | `middleware/`, `policy/` | none; reads the session | `Auth`, `Policy`, `Evaluate`, `SanitizeWorkflowBody` | sign-on, proxy |
| reverse proxy, cookie pool | `proxy/`, `cookie/` | `cookies`: team account → n8n cookie, with expiry | `ServeHTTP`, `GetCookie`, `Invalidate`, pre-warming | n8n, credentials |
| approval workflow | `docs/n8n-jit-workflow-v2.json`, `Handler.FireWebhook` | executions under way; roles in Keycloak | hear a webhook, assign or remove a role, end the user's sessions | KNOX, Keycloak |
| credentials | `credential/` | Vault token and its believed expiry, cached team accounts | log in, refresh, read | Vault, proxy |
| the rest | `config`, `audit`, `main`, `nginx/` | none | start, stop, static pages | |

A request goes Logging → Auth → Policy → proxy → n8n (`main.go`, routes). A
ticket's way is: the user asks; a webhook tells the approval workflow (itself an
n8n workflow); an administrator or that workflow PATCHes the ticket; the
scheduler activates it at the start of its period and expires it at the end, each
time with a webhook; the workflow assigns or removes the Keycloak role and ends
the user's Keycloak session; Keycloak tells KNOX by backchannel logout; the next
login brings the new roles.

What is hard here:

* handlers and timer goroutines share tickets and no lock spans an SQL statement;
  a status is read in one statement and written in another; `Timer.Stop` comes
  too late for a timer that has fired;
* everything but the tickets is lost in a crash, and the timers must be rebuilt;
* a session is in two maps, one key of which several sessions can share, and
  three independent paths remove it;
* logout notices arrive at any time, or not at all;
* members of a team share a cookie that n8n may forget at any time, and a request
  may be sent twice;
* roles are copied at login, and sessions change while a request is on its way;
* webhooks are sent once, in no order, and what they cause in Keycloak happens in
  two steps of which the second may fail;
* the Vault token and its expiry are shared by two goroutines without a lock.

`PROJECT.json` lists these one by one under `hazards`, each at its line.

## The modules

| module | models | proofs |
|---|---|---|
| `JITModels` | statuses, the transition table, accepted periods (`models.go`, `validateCreateRequest`) | |
| `TicketPromise` | abstract: what may be relied on about a ticket row | |
| `JITTickets` | repository, scheduler and handlers of `jit/` | `JITTicketsProofs`, `JITSchedulerProofs` |
| `AccessLease` | abstract: what tickets, roles and sessions may be relied on for together; extends `TicketPromise` | |
| `JITGrants` | `JITTickets` with its webhooks, the workflow, the Keycloak roles and the sessions that carry them | `JITGrantsProofs`, `JITRolesProofs` |
| `Sessions` | `auth/` with browsers and Keycloak as environment | `SessionsProofs` |
| `AccessPolicy` | policy engine, sanitizer, the helpers that look at a request; next to them the documented meaning of the roles | |
| `AccessPipeline` | Auth, Policy and the entry of the proxy, with sessions and roles changing | `AccessPipelineProofs` |
| `TeamProxy` | the rest of `ServeHTTP`, the cookie pool; n8n as environment | `TeamProxyProofs` |
| `CachedSecret` | abstract: what a cache of somebody else's secret promises | |
| `VaultProvider` | `credential/vault_provider.go` and its start by `main`; Vault as environment | `VaultProviderProofs` |

`MC*` modules give constants their values for TLC. `map` in `PROJECT.json` names
the lines each definition stands for. A definition whose comment begins with
"Mutated" is not part of the model: it is a plausible bug with which a run was
repeated to see that its property notices.

### JITTickets

One action per SQL statement and one per critical section of `Scheduler.mu`.
`row` is the table; `timers` the map; a member of `timer` is a `time.Timer`, then
the goroutine it becomes (`armed → fired → update → reread → notify → stop →
arm`, the path through `executeTransition` and the `Schedule` it may call); a
member of `req` is a handler (`read → write → reread → stop → arm` or `cancel →
respond`). `Schedule` is the two actions `...Stop` and `...Arm`, because it locks
twice. The `...Fails` actions are statements that return an error, before or after
taking effect. `Crash` clears the memory; `Restart` is `InitFromDB`;
`RestartUnscheduled` is `InitFromDB` failing, which is logged and ignored. Time
is a small range of instants; `ZeroTime` is Go's zero time.

`been` and `disturbed` are history. `been` holds the statuses a row has had. A
ticket is disturbed when two operations overlapped on it, or one was cut short by
an error, since the last restart; the properties that the races really break are
stated for the others, which is still every ticket a single client handles
sequentially, through all crashes.

Requests KNOX refuses, read-only handlers and `ListTickets` change nothing and
are not actions. Webhooks are sent from the steps `respond` and `notify`; what
becomes of them is in `JITGrants`.

### JITGrants

A step of `JITTickets`, and with it the webhook that step sends (`Knox`): a
webhook is a ticket and the status that was read again after the UPDATE. Webhooks
on their way are a set, from which the workflow takes any (`hooks`), since each is
sent by a goroutine of its own and n8n runs each execution by itself. Of the
branches of "Switch by JIT Status" only "active" and "expired" reach Keycloak; the
others keep iTop tickets, whose outcome comes back as a PATCH, which `JITTickets`
lets arrive at any time. `AssignRole` and `RevokeRole` are one node each, and
`LogoutUser` is a later one of the same execution (`ending`). `WebhookFails` loses
the one or the other. `access` is what the user's KNOX sessions carry together:
`SignOn` copies the roles, `LogoutUser` may end every session or leave any, as
`Sessions` shows that it can, and `SessionEnds` is the end of the last with a role.

`excused` is history: the roles a webhook of which was lost, cut off or met
another one on its way, or whose ticket was disturbed. Nothing is excused from
`AccessIsEarned`, nor from `AccessLease`, whose five steps this module implements
with every variable mapped to the one of its name: a role is given (`Give`) and
taken away (`Take`) only under a ticket that justifies it. `AccessLease` does not
promise that either happens; that they do when nothing went wrong is what
`RolesMatchTickets` adds, and that they do in the end, `AccessEnds`.

`RolesMatchTickets` is stated for any number of tickets of one role. The tickets
that stand (`Holding`) are those that are active, or were when they were revoked.
A role without one is not held. With one it is held, unless another ticket for it
has expired: the workflow then removes the role from both, also when that other
ticket was never approved, as nobody cancels the timer of an undecided request.

### Sessions

`sessions` and `sidIndex` are the two maps of the `SessionManager`, updated by
exactly its methods; a session's `left` is the time it has. A login is a `flow`:
the redirect (`Login`), the user at Keycloak (`Authenticate`, `Abandon`), and the
callback, with an error (`CallbackError`) or in four steps (`TakeState`, `Exchange`, `Create`, `SetSessionCookie`),
between which anything can happen. Keycloak keeps a single sign-on session per
browser, so that a second login has the same `sid`; `EndSSO` ends one and puts a
notice on its way, which `Backchannel` processes or `LoseNotice` loses. `Logout`
is one step from the browser's request to its cleared cookie. Signatures, tokens
and discovery are taken to work.

### AccessPolicy and AccessPipeline

A path is a sequence of segments, of any length (behind Go's `ServeMux` it is clean),
a method is a verb and whether it came in capitals, a body is what the code reads
from it. The policy engine and the sanitizer are operators under the names of the
code. `Permitted` says what README and `docs/keycloak-setup-guide.md` grant, by the
effect a request has in n8n (`Runs`, `Edits`, `Handles`), independently of how the
engine takes paths apart: whoever runs a workflow, by its path, by the body or by
retrying an execution of it, needs the role to run that workflow. Which workflow an
execution is of (`WorkflowOf`) is known to n8n only. The code does not keep to
`Permitted`; where it is more generous is `Tolerated`, which has two parts and is part
of the property, not of the documentation:

* `AnyRoleWillDo`: whoever holds any role may do anything to any execution, retry it
  too (`policy/engine.go:129-138`; README.md:99 and 113 ask for the role to run that
  workflow, or one "for the target resource");
* `JudgedAsRest`: a path below `/api` is judged by its second segment, as if it were
  below `/rest`, and without its body (`policy/engine.go:104`, `middleware/chain.go:203`).

Both are needed: with either alone TLC finds a request that is sent without being
permitted. `AccessPipeline` moves a request through
`Arrive`, `Auth`, `Policy`, `ResolveTeam` and `BufferBody`, with sign-on, sign-off,
`Grant` and `Revoke` between any two. It keeps one session per user and leaves the
rest to `Sessions`. `seen` is history: the logins that were good since the request
arrived.

### TeamProxy

A request is in `lookup`, `login`, `store` (the three parts of `GetCookie`: read
lock, no lock, write lock), `send`, `denied` or `done`. A cookie is the generation
of logins it belongs to; n8n accepts only the current one and `Reset` starts
another. `SendFails` loses an answer, whether or not n8n carried the request out.
A request that n8n answers with 401 is taken not to have been carried out. Each
team has an n8n account of its own, as the documentation asks.

### VaultProvider and CachedSecret

The goroutines are `main`, which logs in, fills the cache and may read the API
key, and the `refresher` it starts between the second and the third. Both run
`check → login → issued → expiry → build → get → answered`: is the expiry past, the
two requests with the arrival of their answers, and the two assignments of
`authenticate`, which no lock holds together. A token and what KNOX believes of it
are two variables; both are kept as the time left. Requests take time, up to the
client's `Timeout`; the statements between them take none. Vault issues tokens of
any lease (an unlimited lease is 0 to it and an hour to KNOX), revokes them,
rotates the secret, fails. A lease, once chosen, stays: that the role's lifetime is
reconfigured while KNOX runs is not modelled. An error at start-up ends the process, which starts
again; later it is logged.

`CachedSecret` is the promise: what is shown is a version the secret has had, and
the process never goes back to an older one. The secret is one version for all
teams, because it is read and swapped in as a whole.

## The runs

All runs are small instances; state counts are of distinct states.

| run | shows | bounds |
|---|---|---|
| `JITRaces` (1.4 M) | two handlers and three timer goroutines on one ticket: map and timers agree, a quiet pending ticket has exactly the right timer, an undisturbed ticket follows its lifecycle, `TicketPromise` is implemented | two periods (now, later), no faults |
| `JITFaults` (0.4 M) | the same under crashes and failing statements, and every pending ticket moves on in the end | one handler, two timers, two crashes, two errors; every kind of accepted period, without a start or an end too |
| `JITRestart` (1.1 M) | two tickets in one map, rebuilt by one restart | one handler, three timers, one crash |
| `Grants` (0.4 M) | a role and a session with it are there only because a ticket was approved and its period had begun, and go only because one has expired (`AccessLease` is implemented); with nothing under way roles and tickets agree; the access ends after the ticket | one ticket, one handler, two timers, one crash, one failing statement, one lost webhook or execution |
| `SessionsTabs` (0.5 M) | two tabs of a browser: the index never dangles, misses only sessions that shared their Keycloak session, logout leaves none of the others behind, and after a Keycloak session has ended its KNOX sessions do not stay, even if the notice was lost, nor does another appear but from a login that had its tokens already | two Keycloak sessions, two session ids, a life of one tick |
| `AccessRaces` (3.9 M) | what reaches n8n is permitted to one login of its user, or tolerated as above, and goes to that login's team; nothing permitted is refused to a method KNOX knows; a dangerous definition is saved only by a method not in capitals, or by another verb | 38 requests on two workflows and an execution, in both spellings; three roles, four lists of groups, two logins |
| `ProxyRaces` (60 k) | no request is carried out twice; a retry has a cookie n8n accepts; a stale cookie leaves the pool; only a reset brings one in, or a login from before it | a team (teams share nothing), two requests, a cookie for two ticks, two resets |
| `VaultRefresh` (75 k) | no read is turned down because its token ran out; the cache shows versions of the secret, going forward; a rotation arrives | a tick is five seconds, so margin 30 s and timeout 10 s are exact; leases of 25 s, 45 s and without limit; two rotations, two faults |

Two of everything is enough for what the code does pairwise (a lock, an
overwritten entry, a late timer); a third timer is there because a ticket can have
one armed, one under way and one that nobody can reach. Where the proofs below
cover a property it holds without any bound. `Grants` has one ticket; what several
tickets of one role do to one another is proved (`RolesMatch`, `LeaseKept`), as an
instance with two has more than 20 M states. Deadlock is checked in all of these
but `JITFaults`, whose clock and counters run out (`JITRaces` and `JITRestart`
allow a behaviour to stop only with nothing under way, `MCSpec`) and `Grants`,
which inherits that clock.

`SessionsTabs` checks liveness, for which TLC's `SYMMETRY` is unsound, so its
specification numbers names by hand: `LeastNames` lets a step take only the least
session id, Keycloak session or login that nothing holds. Names nothing holds are
interchangeable, and a name that is held keeps its place, so every behaviour of
`Spec` is one of `NumberedSpec` up to renaming of the fresh names.

Four runs are expected to fail: each checks a sentence of the documentation or of
a comment which the code does not keep.

| run | the sentence | what happens |
|---|---|---|
| `JITTerminal` | nothing leaves revoked, rejected, canceled, expired (`api-reference.md:146-149`) | a timer that has fired before the revocation writes after it, without looking |
| `GrantsTemporary` | client roles grant temporary access (`keycloak-setup-guide.md:122`) | a revocation cancels the timer that would have ended the role, and the workflow has no branch for "revoked" |
| `SessionsLogout` | backchannel logout destroys the session instantly (`keycloak-setup-guide.md:193`) | `CleanExpired` removed the index entry that by then led to a newer session of the same Keycloak session |
| `SessionsRace` | a revoked Keycloak session can be invalidated by lookup (`session.go:100`) | the notice comes between token exchange and `CreateSession` |

Also met on the way, and visible in the model, but not given a run:

* two requests that read one status can both write, although `repository.go:220`
  says that an invalid transition is an error (`ReadStatus`, `WriteStatus`);
* an approved ticket can lose its timer for good when `Schedule` and `Cancel` of two
  requests interleave or an error follows the UPDATE (this is why
  `QuietTicketsScheduled` speaks of undisturbed tickets);
* a period that starts at the year-1 instant is not measured against the maximum
  (`PeriodAccepted`);
* a request nobody decided expires with its period, and the workflow then takes away
  the role, even if another ticket for the same workflow gave it;
* any role is enough to stop, delete or retry any execution (`AnyRoleWillDo`), so a
  holder of `edit:w1` can have `w2` run again;
* a path below `/api` needs the role the same path below `/rest` would need
  (`JudgedAsRest`), though n8n's API there has other paths;
* `Evaluate` takes the method in capitals, `isMutationMethod` as it came
  (`engine.go:58`, `chain.go:291`): a `patch` is allowed to the holder of the role for
  it and forwarded with its body unread and unsanitized, and a `post` that names its
  workflow in the body is refused. The same goes for verbs neither of them lists.
  Whether n8n takes such a method is not modelled; `SavesAreClean` and
  `RefusedForALogin` except them by name;
* a ticket for both kinds of access has the access type `edit,run`
  (`jit/handler.go:132-133`; `jit/models.go:47` and `api-reference.md` say `run,edit`),
  and the workflow names its role `edit,run:<id>` after it, by which the engine grants
  neither to edit nor to run: such a ticket gives access to executions only. `Role`
  has this name;
* the sanitizer looks at the `nodes` at the top level of a body only;
* a role granted to a user who is signed on does not work until the next login
  (`Auth`), while `keycloak-setup-guide.md:269` promises it after a refresh;
* a slow login can put a stale cookie back under a retry (`overtaken` in
  `RetryIsCurrent`), and the retry uses the password read when the request began;
* a body over 32 MB is cut off and sent, though the comment at `proxy/handler.go:22`
  says it is proxied directly;
* a token revoked at Vault is used until it would have run out: every refresh fails
  until then, and the cache keeps what it has.

### Fairness

The safety runs assume none. For `PendingMovesOn`: the clock runs, goroutines get
scheduled, a due timer fires, and a dead process is restarted
(`docker-compose.yaml`, `restart: always`). For `RevocationCatchesUp`: the clock,
the two cleanup tickers, handlers, restarts; users and Keycloak may stop at any
time. For `StaleCookieLeaves`: the clock, and every wait in `ServeHTTP` ends: a
failing login or send is one of the ways it ends. For `RotationArrives`: the
clock, the refresher's ticker and both goroutines; that requests succeed is not
assumed, but no more than `MaxFaults` of them fail, as a rotation could not arrive
from a Vault that never answers. For `AccessEnds`: what `PendingMovesOn` needs, that
n8n goes on with an execution it has begun, and that a session ends (its maximum
age). Weak fairness is enough
everywhere, as no step is enabled and disabled again and again by others.

## The proofs

Each proof holds for any number of tickets, timers, handlers, browsers, sessions,
users, teams and requests; assumptions are the named `ASSUME`s of the modules only
(distinct null values, natural bounds, that an execution is of some workflow, and for
Vault that the margin is at least two client timeouts and a limited lease longer than
two: it is 30 s against 10 s in the code).

* `JITTicketsProofs`. `TypeCorrect`: `TypeOK` with the fact that slots in use hold
  a ticket. `Implements`: `Spec => KeepsPromise`. It needs an invariant on what is
  under way: a handler past its read, or a timer from its arming on, can only be
  there because the row has been in the status that justifies it, and a fired
  timer because the instant has come (`ReqJustified`, `TimerJustified`); rows and
  history only grow, so this survives the steps of others, although the status
  itself may have been overwritten.
* `JITSchedulerProofs`. `MapMatches`, `QuietScheduled`, `LifecycleKept`: what a quiet
  ticket looks like is not inductive, because it says nothing of how a ticket gets
  there. `SchedulerInv` says of every undisturbed ticket that at most one handler or
  goroutine works on it (`AloneOn`), and what its row and its timers are at each
  point of that one's program (`ReqStage`, `TimerStage`); a step of another ticket
  changes none of it (`OtherTickets`), a step that would let two work on it disturbs
  it, and a crash leaves nothing that a restart does not arm again from the table.
* `JITGrantsProofs`. `TicketsAreIndependent`: `GSpec => Spec`, so that every theorem
  about tickets holds of the composition. `AccessEarned` follows the role back: to
  its webhook, to the status the slot had read, which has been in the table
  (`SeenInv`), and from there to approval and period by `TicketPromise`. The same
  chain followed from an expiry gives `LeaseKept`: `GSpec => KeepsLease`, by
  `Implements` for the steps of tickets and step by step for the rest.
* `JITRolesProofs`. `RolesMatch`. While something is under way roles and tickets are
  far from agreeing: a status is written long before Keycloak hears of it. So
  `RolesInv` says of every ticket what is left to happen: a goroutine past its UPDATE
  has yet to tell it (`Owed`), a webhook is on its way (`OnItsWay`), or the role is as
  the status asks (`Granted`, `AccountedFor`); nothing is told twice, and an expiry not
  before the activation it ends (`Queued`). It needs `SchedulerInv`, as only a
  goroutine that is alone on its ticket finds the status it wrote, and that no webhook
  of the role met another (`excused`), since otherwise the last one heard decides;
  an expired ticket of the same role (`Unchallenged`) is the one other thing that can
  take the role away. With nothing under way the debts are empty and what is left is
  `RolesMatchTickets`.
* `SessionsProofs`. `IndexNeverDangles` and `IndexMissesOnlyShared` together are
  inductive with the types (`IndexInv`): removing a session removes the entry of
  its `sid`, which is sound for any entry, and makes the index miss another session
  only if there were two. `LogoutFindsTheSession` follows: without sharing, the
  entry leads to the only session. `NoWayBack` is the safety half of
  `RevocationCatchesUp`: Keycloak takes up no session it has ended (`EndedForGood`), a
  login gets tokens of live sessions only (`NoNewTokens`), and only a login with
  tokens stores a session (`StoredBefore`); the race of `SessionsRace` is therefore
  the only way back.
* `TeamProxyProofs`. `NoRequestTwice`: a request carried out is done.
  `RetrySucceeds`: since a request dropped the stale cookie, what is cached for its
  team, what is about to be cached, and what it was handed, is all current, until
  a reset (`Protected`). `PoolStaysCurrent` says the same of the pool by itself: what
  is stored was issued to the very call that stores it, so that a pool without stale
  cookies and without old logins about to be stored (`Clean`) stays so until a reset.
* `AccessPipelineProofs`. `AllowsWhatIsPermittedOrTolerated`: on the body that is read
  for it, the engine allows only what the documentation permits or `Tolerated` names,
  and of a known method all that is permitted; for paths of any length, by the first
  four segments of a path (`RunsBy`, `EditsBy`, `HandlesBy`, `RestDecided`), and because
  a body that is not read is one that names nothing (`ReadingIsEnough`).
  `RequestsAreEntitled`, `RefusalsAreRight`, `DangerousSavesAreCaught`: from
  `DecisionInv`, by which user, decision and team of a request come from one login it
  has seen.
* `VaultProviderProofs`. `TokensLast`: while KNOX believes in its token, the token
  lasts longer by the margin, less the time its answer took (`BeliefLasting`); with
  the two assignments of two goroutines mixed this stays true because every token
  that is assigned is at most a timeout old and every lease is the same. What a goroutine has passed on the way
  bounds the token it uses (`Lasting`). `ShowsOnlyVersions`: only one goroutine at a
  time fills the cache (`OneFills`), so nothing newer comes between its read and its
  swap.

Every invariant, action property and refinement the passing runs check is proved.
Only model-checked: the liveness properties (`PendingMovesOn`, `AccessEnds`,
`RevocationCatchesUp`, `StaleCookieLeaves`, `RotationArrives`) and everything about
fairness, which the prover cannot do; and the four violations, which are
counterexamples.

## Not modelled

* the database connection, configuration, audit log, logging: I/O without state
  a property is about;
* in `proxy/`: header rewriting, response buffering, lengths of bodies;
* paths that `ServeMux` does not clean (it leaves those of `CONNECT` alone) and
  segments that merely begin with `workflows` or `executions`: their bodies are read
  too, and the engine denies them like any other;
* an ID token without `sid`, whose session stays out of the index (`session.go:67`):
  Keycloak always sends one;
* what `ReadSecret` reads: it is another secret than that of the teams, and only its
  use of the token matters to them;
* the same OIDC state presented twice: looking it up and deleting it is one critical
  section (`TakeState`), so a second callback finds what an unknown state finds;
* the iTop branches of the workflow, which keep tickets of another system;
* `Pool.InvalidateAll`, which nothing calls;
* the scripts and styles that nginx adds to the n8n pages.

## Plan

1. `Access`: `JITGrants`, `Sessions` and `AccessPipeline` in one, from the end of a
   ticket to the last request it let through; `AccessPipeline`'s login per user and
   `JITGrants`' `access` refined by `Sessions`.
2. A team's changed password on its way from `VaultProvider` into `TeamProxy`.
3. Proofs: `AccessEnds` and `PendingMovesOn` without their fairness, as what each
   step of a ticket's way brings it nearer to; that every behaviour of `Sessions` is
   one `access` of `JITGrants` allows for.
