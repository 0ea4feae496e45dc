# maxgame-admin-guard: specifications

TLA+ modules, TLC configurations and TLAPS proofs for the admin guard: the Rust
crate `maxion-admin-guard` (`rust/`), the npm package of the same contract
(`js/`) and the service template (`template/`).  The contract both
implementations answer to is `contract/README.md` (rules 1 to 8) with the shared
cases of `contract/cases.json`.

Line numbers in the comments of the modules refer to the files under `rust/src`,
`js/src`, `template/src` and `contract/`.  `PROJECT.json` maps every definition to the lines it
stands for.

## 1. The system

An HTTP request to a back-office service carries an access token minted by an
identity provider (the IdP).  The guard decides whether it is *authorized* (200),
*unauthorized* (401), *forbidden* (403) or *cannot be decided* (503).

    request --> authorize --> verify token --> resolve_key --> JWKS endpoint
                   |                              (cache, single flight, floor,
                   |                               grace, circuit breaker)
                   +--> check claims
                   +--> introspect (writes only) --> introspect endpoint
                   |                                 (circuit breaker)
                   +--> check the verdict's access

| Component | State it keeps | Operations | What is hard |
|---|---|---|---|
| Circuit breaker, Rust (`circuit_breaker.rs`) | `consecutive_failures`, `opened_at`, `probe_in_flight`, permits in the hands of callers | `allow_request`, `record_success`, `record_failure`, `Drop` of a permit | threads; a report is two unsynchronised halves; futures cancelled while they hold the probe |
| JWKS client (`jwks.rs`) | the cached key set, last attempt, `fetch_in_flight`, `Notify`, its own breaker | `resolve_key`, `answer_from_cache`, `fetch`, `Drop` of `FetchLease` | a read-write lock, a single flight with joiners, lost wake-ups, cancellation of the leader, several clocks (lifetime, grace, floor, window) |
| Token verifier (`token.rs`, `jwt-verifier.ts`) | none | `verify` | `exp` is compared after an await |
| Introspect client (`introspect_client.rs`, `introspect-client.ts`) | its breaker | `introspect` | timeouts, late or malformed answers |
| Guard (`guard.rs`, `authorize.ts`) | configuration only | `authorize` / `verifyAdminAuth` | order of checks; access that changes while a write is decided |
| Access model (`access.rs`, `access.ts`) | none | normalisation of `siteAccess`, feature checks | two JSON shapes, two languages |
| Circuit breaker, npm (`circuit-breaker.ts`) | `state`, `consecutiveFailures`, `openedAt` | `canAttempt`, `recordSuccess`, `recordFailure` | calls that overlap across awaits |
| NestJS guards, Node middleware (`js/src/nest`, `js/src/middleware`) | admin context on the request | `canActivate` | the requirement is checked by a second guard, after introspection |
| Axum integration (`axum_ext.rs`) | request extensions | `require_admin` | the handler's future is dropped when the client leaves |
| Step-up (`step_up.rs`) | none; the auth server holds the account's elevation and the single-use tokens | `introspect_with_step_up` and `require_step_up` (session mode), `require_single_use_step_up` and `consume` (single use) | several requests with one token; a reply lost after the token was spent; a call that arrives after its caller was answered; a retry |
| Template, example routes (`inbound/example.rs`, `adapters/example_repo.rs`) | a Postgres table | create, admin list with page and meta, public list | page and count in two statements; commits out of the order of `created_at`; ties; `i64` offsets |
| Template, configuration (`config.rs`, `inbound/mod.rs`) | none after boot | `Config::load`, `validate`, the guard built from it | a guardrail that looks at the wrong value or the wrong environment |
| Template, processes (`main.rs`, `postgres.rs`, `server.rs`, `health.rs`) | the schema, the migrator's advisory lock, requests in flight, the probes' view | boot, migrate, serve, probe, drain, crash | several pods of several versions on one schema; an outage or a signal between two steps of a boot |

Interaction is by call, except for what is shared between tasks of one process:
each client's breaker (atomics and a mutex), the key-set cache (an async
`RwLock`), `fetch_in_flight` and `fetch_settled`.  The JWKS client and the
introspect client have a breaker each and share nothing else.

What makes each part correct:

- **breaker**: half-open is one probe, which always comes back; it opens after a run
  of failures and for no other reason; it recovers;
- **JWKS client**: one fetch at a time, nobody stranded behind it, fetches keep
  a floor's distance, a rotated-out key dies within a bound, and the status says
  what is known (401 the kid is not there, 503 we cannot tell);
- **guard**: a revocation bites on the next write and within a token's life on
  reads; nothing its claims refuse is introspected;
- **the pair of implementations**: they decide alike;
- **step-up**: one action per single-use token, and only the one it was issued
  for; a token is wasted by a fault only; a refusal says truly whether to confirm
  or to try again; a cleared session was elevated;
- **template**: a walk over the pages loses no row that was there; a page agrees with its
  meta; a process that serves is configured safely and has its schema, does not
  end under its requests, and comes back after an outage.

`PROJECT.json` lists the hazards, each at its line, with the properties that
are about it.

## 2. The modules

| Module | Models | Correspondence |
|---|---|---|
| `BreakerOps` | the breaker's memory and its atomic sections (Rust) | a record `[failures, open, age, probe]`; one operator per section (`AfterAllow`, `ResetRun`, `CloseGate`, `CountFailure`, `OpenGate`, `ReturnProbe`) |
| `Lease` | abstract: a loan of one | what probe and fetch lease both promise |
| `CircuitBreaker` | concurrent callers with permits | `permit[c]` is where caller c stands in taking, reporting and dropping; the two halves of a report are two actions |
| `JsCircuitBreaker` | the npm breaker and the calls in flight | one action per callback; `call[c]` says whether c's call is a trial |
| `AdminJwksClient` | `resolve_key` for concurrent calls | `req[c].stage` is the await or the point between two awaits c stands at; one action per branch of a section under the lock |
| `JwksEnvironment` | the same with an IdP that rotates keys | adds `published`, the answer on its way (`onWire`, `flight`) and history (`gone`, `spacing`, `heard`) |
| `AdminGuard` | `authorize` and `fetch` of the introspect client, concurrent requests, an IdP that grants, revokes and mints | uses `CircuitBreaker` through INSTANCE: each report is that module's action |
| `GuardParity` | one request decided by the Rust guard, the npm core and the two NestJS guards | pure operators over credentials and JSON shapes, one step; each package verifies in its own way (`VerifyToken`; `JwtVerify`, which is `ClassifyVerifyError` over the error `jose` raises) |
| `OneTimeGrant` | abstract: a grant taken once and used once, for its purpose | what a single-use step-up token promises |
| `StepUp` | requests for critical actions in both modes, the consume client, an auth server behind a network that loses, delays and garbles | `req[c].stage` is the await c stands at; one action per return of `consume` and `require_single_use_step_up` |
| `ExampleItems` | creates, the paginated admin list, the public list | each SQL statement is an action; `List` is the SELECT with its ties |
| `TemplateConfig` | `Config::load`, `validate`, the guard's configuration, the routes | pure functions of the environment |
| `Pods` | the pods of one deployment of the template, through releases, outages and crashes | `pod[p].phase` is the step of `main` p has reached; uses `TemplateConfig` for what it boots with |
| `MCCircuitBreaker`, `MCJwks`, `MCAdminGuard`, `MCStepUp`, `MCExampleItems`, `MCPods` | instances for TLC | |
| `BreakerOps_proofs`, `CircuitBreaker_proofs`, `AdminJwksClient_proofs`, `AdminGuard_proofs`, `StepUp_proofs`, `ExampleItems_proofs`, `Pods_proofs` | theorems about the module each is named for; `AdminJwksClient_proofs` holds those of `JwksEnvironment` too | section 5 |
| `NpmPackage_proofs` | theorems about `GuardParity` and `JsCircuitBreaker` | section 5 |

**Time.**  The code asks of an instant only how long ago it was, against a
bound.  Every instant is kept as an age that stops at the largest bound it is
compared with, which loses nothing; `Tick` ages all of them.  `failures` stops at
the threshold for the same reason.

**Steps.**  In Rust a section under a lock without an await is one step.  Reports to the
breaker of the introspect client are made outside any lock, so `CircuitBreaker`
splits them; the JWKS client reports under its write lock, so `AdminJwksClient`
does not.  A joiner holds the write lock over three steps (`JoinFetch`,
`Register`, `Recheck`), because the lease it races with is dropped outside the
lock.  In JavaScript a callback runs alone.

**Cancellation.**  A Rust future may be dropped at every await.  What its
destructors do is modelled in their order: `FetchLease` clears the flag, then
notifies, then the permit returns the probe; other tasks run in between.

**Prompt.**  With `Prompt = TRUE` no tick passes while a task could run: ticks
(seconds) are coarser than scheduling delays.  Bounds in ticks hold only then.  With
`Prompt = FALSE` any task may be delayed for any time; the structural
invariants, `UnavailableMeansNoKey`, `StaleOnlyInOutage`, `FloorHolds` and
`JoinerHears` are proved without the assumption, `UnauthorizedMeansAbsent` and
`RevocationBound` with it (section 5).

**Data.**  A key is its kid; signatures are an outcome (`KeyUnusable`).  In
`AdminGuard` a role with its `siteAccess` is what `check_access` makes of it; the
shapes are `GuardParity`'s subject.  There a credential is a cause, not an outcome: what
its offline verification meets, when the key set is fetched for it (no connection, a timeout,
a status, a body that is not JSON or JSON that is no key set, a kid nobody has, one of two keys of
one kid).  Which error `jose` raises on each is external.  Fallback TTL and `max-age` are both members of
`AdvertisedTtls`.  A fetch that answers may bring any set of keys in
`AdminJwksClient`; `JwksEnvironment` restricts it to what the IdP put on the wire: the set it
published at some moment of the fetch (`IdpAnswers`), which may be rotated out before the
answer arrives.  A fetch lasts no longer than `HttpTimeout`, the timeout of the whole request.

**Step-up.**  A purpose stands for the admin, the action and the resource of a consume
call.  `strays` are the calls whose caller hears no more of them, because it has left or was
answered in their place (a timeout, a gateway's error), and which may still arrive.
`req[c].spent`, `faulty`, `held` and the variables `acted` and `cut` are history:
no guard reads them.  The breaker of the introspect client is `AdminGuard`'s subject;
here an open breaker is one of the ways of `IntrospectFails`.

**Rows.**  `created_at` is the start of the INSERT, a tick of a clock that rows may
share; a row is visible when it commits, which may be in another order.  `i64` is scaled to
`IntMax`, and the offset wraps as it does in a release build.

**Configuration.**  A value of a variable is the class of strings that `load`,
`validate` and the guard tell apart: a URL is its scheme and host, with or without a trailing
slash, a path is how it begins, a key is long enough or not.  The environment maps each variable to
a class.  The introspection URL is the sequence of pieces `join_url` puts together, and `Host`
says where a request to it goes: a host's name ends at a slash, so a join that forgets the slash goes to
another host.

**Pods.**  Version v of the binary carries migrations 1 to v.  `ready` is what the
load balancer believes, `live` whether a liveness probe has ever succeeded.  The
probes and the rollout are the platform's and external.  `load` is the requests in hand: axum takes
any number of them, `MaxLoad` is a bound of the model only, and `MaxConnections`, the pool's size,
matters only where the readiness probe waits for a connection.  `Kill` stands for every end of a
process that is not its drain: a crash, a bind that fails, an error of `serve`.

## 3. The runs

| Run | Instance | Shows |
|---|---|---|
| `MCCircuitBreaker` | 3 callers, threshold 2, window 2 | probe is a lease of one that comes back; stragglers do not prolong an outage; a healthy IdP never trips it; it recovers |
| `MCBreakerRace` (violation) | 3 callers, threshold 2 | a full run of failures can be left with the gate closed |
| `MCJsCircuitBreaker` | 4 callers, threshold 2, window 2 | gate and run agree at every await; half-open is never left undecided; it recovers |
| `MCJwksLiveness` | 2 calls, 1 kid, max-age 3 clamped to 2, grace 1, floor 1, threshold 1, not prompt | 503 only when no key in hand serves; stale keys only in an outage; every call ends; an IdP that is back is found to be back |
| `MCJwksRotation` | 3 calls, floor 2, lifetime 2, grace 1, HTTP timeout 2, prompt, rotation | one fetch, one probe; whoever waits has a leader that will notify; the breaker is open exactly at the threshold; 401 never for a kid the last set has; a rotated-out key dies within `max_ttl + stale_grace + http_timeout`; the floor holds; a joiner hears what its leader committed unless the next attempt has begun; the fetch lease implements `Lease` |
| `MCJwksShortTtl` (violation) | max-age 1 below floor 2 | 401 for a kid the last set has |
| `MCAdminGuard` | 2 requests, threshold 2, window 1, token life 2 | the guard's properties, end to end, and that it uses the breaker as `CircuitBreaker` says |
| `MCGuardParity` | 2 sites, 2 features, 12 kinds of credential, every shape, every kind of route | the three decisions agree where the contract says so, but for the two kinds of key set of section 4 |
| `MCStepUp` | 2 requests, 1 token, 2 purposes | the token implements `OneTimeGrant`; it is lost only by a fault; 403 and 503 say what is true; a cleared session was elevated |
| `MCExampleItems` | 1 reader, 3 rows, pages of up to 3, public limit 2, `IntMax` 7, 3 ticks | a walk misses only rows tied with another; a page lies within its own meta; the public list is the newest public rows |
| `MCPods` | 2 pods, versions 1 and 2, 2 releases, 1 kill, 1 connection, up to 2 requests in hand, 28 distinct configurations | what serves is sound; it ends only drained; the deployment recovers |
| `MCPodsMigrate` (violation) | same | a new pod changes the schema under an old one that serves |

**Why the bounds are enough.**  Three callers are the least with which a probe's
holder, a straggler and a bystander are distinct, and a leader, a joiner and the
next leader.  Threshold 2 separates "a failure" from "the last failure".  Window,
grace, floor and lifetime of one or two ticks each have a before, an exactly-at
and an after; `max-age` 3 above `MaxTtl` 2 exercises the clamp.  Two sites and
two features separate "has some site", "has this site" and "has this feature";
each value holds at most one feature, as features are looked up one at a time.
Step-up tokens do not interact (a request carries one), so one token is enough; two
requests make every race for it, the third party being a stray call.  Two purposes
separate the right one from a wrong one.  Three rows with pages of one, two and three
make a first, a middle and a last page; `IntMax` 7 lets an offset wrap to a negative one
and to another page.  `MCPods` takes every environment one variable away from a sound one,
exposed (`uat`) or on a laptop (`local`): each rule of `validate` is broken alone.  Two
releases are a release and a rollback; one connection and two requests in hand
separate an idle pool, a saturated one and one with a request waiting.

Only `MCAdminGuard` and `MCExampleItems` use symmetry, and neither has a temporal
property under fairness.  Deadlock is checked except where the system may stop: `MCGuardParity`
makes one step; in `MCStepUp`, `MCExampleItems`, `MCPods` and `MCPodsMigrate` nothing
obliges anyone to go on (tokens are spent, rows are created, a refused configuration is
refused for good).

**Fairness.**  Threads and tasks that can run do (`tokio` and the lock are
fair; no section under a lock lasts).  The HTTP timeout ends every call, which
makes `DropPermit` and `FetchEnds` weakly fair.  The clock runs.  For recovery
only, requests keep coming and (for the breaker) not every call that could be
answered is cancelled first; nobody is obliged to be answered or cancelled.  In
`AdminJwksClient` the steps under the lock are strongly fair, as the lock's queue is
fair: other tasks disable them again and again while they wait.  Recovery of the
JWKS client is stated for behaviours in which fetch failures and cancellations
stop for good (`BackForGood`): a service whose every caller leaves early learns
nothing of the IdP.  In `Pods` the kubelet restarts what has ended and the rollout replaces
pods of another version; a process that can take its next step does; requests
end; and the advisory lock goes to its waiters in turn, hence strong fairness of
`TakeMigrationLock`.  Nothing is assumed of the probes, of crashes or of the
database, and `Recovers` is stated for a configuration that is accepted, a database
that is back for good and no rollback behind the schema.  `StepUp` and `ExampleItems` state
no fairness: they promise nothing will happen.

## 4. Divergences found while modelling

With a run (`findings` in `PROJECT.json`):

- `MCBreakerRace`: `record_success` stores 0 and takes the gate's lock later; two
  failures in between are counted and open the gate, the success's second half closes it,
  and the breaker is closed with its run at the threshold (rule 7).  The opposite order,
  failures counted before the 0 is stored and the gate opened after the success closed it,
  leaves the gate open with a run of 0; it passes within the window and is not the run's
  property.  In the key-set client neither can happen (`GateTellsRun`); in the introspect
  client, whose reports are made outside any lock, both can.
- `MCJwksShortTtl`: a key set with `max-age` below the floor is answered 401
  between its expiry and the floor, for kids it has (rule 5).
- `MCPodsMigrate`: `main` migrates the shared schema at every boot (`main.rs:38`), while
  pods of the old release serve; `contract/PLATFORM.md:770-779` says no service does,
  and `template/README.md:4-5` calls the template conformant with it.

Without a run of their own:

- The npm breaker lets every request out while it is half-open, until one is
  answered (`js/src/core/circuit-breaker.ts:30`); rule 7 says one trial.
  `JsCircuitBreaker` models what the code does.
- A failure that arrives while the npm breaker is open restarts its window
  (`js/src/core/circuit-breaker.ts:54-60`); in Rust only the probe's does
  (`OnlyProbeRestartsWindow`).
- On a write the Rust guard takes `admin_id` from the verdict, the npm core from
  the token (`guard.rs:264`; `contract/cases.json:341` "set from the token's sub").
- `rust/src/token.rs:95-97` says every rejection is `Unauthorized`, a key-set outage
  included; it is passed on as 503, as rule 5 wants.
- The floor counts from the start of an attempt (`jwks.rs:466`), so after a fetch slower than
  the floor the next leader may start before a joiner of the first has read the cache; the
  joiner reads that leader's pessimistic mark and answers 503 (`jwks.rs:271-294`).
  `JoinerHears` holds up to that point and no further.
- A key set ages from its commit (`jwks.rs:488`), not from the moment the IdP read it.  What
  bounds the life of a rotated-out key is therefore not the lifetime and the grace alone
  (`jwks.rs:246-250`) but these and the time the answer was under way, up to `http_timeout`;
  `RevocationBound` states that sum.
- The npm client takes any 2xx JSON for a verdict (`introspect-client.ts:138`): a
  string or a number is answered 401, `null` is a TypeError (500); rule 5 and the Rust client
  say 503 (`contract/README.md:42-44`).  `GuardParity` keeps the malformed body out of
  `CoresAgree` for this.
- A key set endpoint that answers 200 with JSON that is no key set: Rust says 503
  (`jwks.rs:324-327`); `jose` raises `JWKSInvalid`, for which `classifyVerifyError` has no branch
  (`jwt-verifier.ts:143`), and the npm package says 401, against rule 5
  (`contract/README.md:42-46`).  `CoresAgree` leaves the case out (`Disputed`), `StatusTellsCause`
  leaves it out for npm only.
- The first NestJS guard introspects any token with some access and puts
  the verdict's access on the request (`admin-auth.guard.ts:43`), the second checks the requirement
  against that alone.  A grant added after the token was minted is used by the next write;
  `admin-auth.guard.ts:18-19` says it waits for a refresh.  `NestAgrees` says what is left: nothing
  is let in that the live verdict does not grant.
- Two keys of one kid: Rust verifies with the last of the document, npm answers 401
  (`JWKSMultipleMatchingKeys`).  The contract records it as a known gap
  (`contract/README.md:122-136`), so it is a credential of `GuardParity` that `CoresAgree` leaves
  out (`Disputed`) and no finding.
- An entry of the key set with a field of the wrong type (a number for `crv`) fails the whole
  parse in Rust (`jwks.rs:146-160`, every token 503), where `jose` passes the entry by; the comment at
  `jwks.rs:343` wants one malformed key not to poison the set.
- `connect_lazy` "keeps boot from depending on the database being up"
  (`postgres.rs:16-18`), but `main` migrates next and exits when the database is down.
- A binary rolled back behind the schema refuses to boot (`sqlx` finds a migration it does
  not know), so a rollback after a migration leaves no pod that can start.
- `(page - 1) * take` wraps for a page near `i64::MAX` (`example.rs:62`): a negative offset
  is answered 500, which `domain/error.rs:35` keeps for what "the caller cannot
  fix", and one that wraps back to a non-negative offset is answered with another page's rows.
- Refusals of `require_admin` and of step-up are written by their own `into_response`, not in the
  envelope that `template/src/inbound/error.rs:1-8` says every failure has.
- `SystemEnv::get` keeps the white space around a value, the map the tests
  load from trims it (`config.rs:114-126`).  The classes of `TemplateConfig` are those of trimmed
  values.
- `server.rs:3-4` names `tests/server.rs`, which the template does not have.

## 5. What is proved

Every invariant and every action property that a passing run checks is a theorem
about the same module: the run shows it on a small instance, the theorem for any
callers, pods, rows, tokens, kids, versions and sites, and any values of the
constants that satisfy the assumptions below.  The type invariants of `CircuitBreaker`,
`AdminJwksClient`, `StepUp` and `Pods` are theorems only.  `PROJECT.json` lists each theorem
with the property it states.

Each module's proof has the same parts: lemmas about its operators, one lemma per
action (or per kind of action) that keeps the inductive invariant, and a theorem that
draws the property from it.

### The breaker (`BreakerOps_proofs`, `CircuitBreaker_proofs`)

`BreakerOps_proofs` says what each section of the breaker keeps and changes; the proofs of
both breakers' users cite it.  `TypeCorrect`, `OneProbe` and `ImplementsLease` follow from
`TypeOK /\ FlagHasHolder /\ OneHolder /\ NoneIsEmpty`.  Custody alone is not
inductive: a caller between two permits must not keep the probe bit of the last,
which `NoneIsEmpty` says.  `CustodyKept` carries every step that neither begins
nor ends a permit.  `StragglersHarmless` follows from the same invariant, by what
each section does to `open` and `age`.  `DenialsNeverTrip` needs `Calm`: while the IdP has
answered everything, the breaker is closed and no report of a failure is half made.

### The key-set client (`AdminJwksClient_proofs`)

- `TypeCorrect`, `OneFetch`, `OneProbe`, `ImplementsLease`: `TypeOK` and the custody of
  fetch lease and probe.  Flag and lease are taken in one step and dropped in
  one, and the decision to fetch is made with the flag clear.  The gap between the drop of
  the lease and the drop of the permit is covered: a new leader may start there and
  is not given the probe.
- `NobodyStranded`: `NoneStranded` is inductive beside `Inv`.  A joiner goes to wait only
  if the flag is still set after it has registered, so there is a leader (`FlagHasLeader`);
  the leader clears the flag and then notifies, and everyone registered by then is woken.
  No `Prompt` here: the proof covers any delay of any task.
- `GateTellsRun` (assuming a threshold above zero): rule 7 holds of this client although
  `MCBreakerRace` refutes it of the breaker alone.  The strengthening is `ProbeFits`: while
  the probe's holder fetches, the gate is open.  With it a failed probe never opens the gate below the
  threshold; it holds because one task fetches at a time, so nobody else reports
  in between.  `MustDecide_NoFlag` (a second leader) breaks it in `MCJwksRotation`.
- `RefusesOnlyWithoutKey`: `AnswerInv` adds what the cache says of itself.  A task that
  fetches found no fresh key for its kid, and its own attempt has not succeeded yet
  (`LeaderFits`); the breaker is open only after an attempt that failed (`GateFits`); a set
  that arrived is no older than the last attempt, as far as the floor can tell (`AttemptFits`).
- `ServesStaleOnlyInOutage` assumes `PositiveTtls`: no lifetime is zero.  The code takes a
  `max-age` of zero for an absent one (`jwks.rs:512-525`), and with a configured
  lifetime of zero no key is ever fresh.
- `RefusesOnlyAbsentKids` assumes `Prompt`, `PositiveTtls` and `LongLived`: no lifetime
  is below the floor.  `MCJwksShortTtl` shows the property violated without the last.
  `JoinInv` adds to `NoneStranded` where joiners stand: whoever follows a fetch that
  succeeded sees the set just committed (`JoinerFits`).
- With the rotating IdP (`EnvSpec`): `FloorSpacesFetches`, as `spacing` is always what
  `last_attempt_at` says; `JoinersHearTheirLeader`, from `HeardFits`: who heard of a success
  and has not read it yet finds it still the latest outcome; and `RotatedKeysDie` (assuming
  `Prompt` and a `Horizon` above zero), from `RevocationInv`: a kid in the cache has been
  gone for no longer than its set is old and its answer may have been under way; a kid on
  the wire or in a response in hand, for no longer than the fetch has lasted.
  `HoldsWithRotation`, `GateTellsRunWithRotation` and `RefusesOnlyAbsentKidsWithRotation`: every step of the
  environment is a step of the client, so the client's results hold there.

### The guard (`AdminGuard_proofs`)

`GuardDrivesBreaker`: each step is a step of `CircuitBreaker` or leaves it alone.
`GuardKeepsCustody` therefore takes the breaker's theorems over from
`CircuitBreaker_proofs`, by INSTANCE and without proving them again.
`GuardConsistent`, `GuardMissesNoVerdict`, `GuardRevocationBites` and `GuardReadsLag`
follow from `GuardInv`: a permit is out exactly at the stages after `allow_request`
(`PermitFits`); past the claims, a request is a write whose claims grant (`DeservingFits`); a
verdict "granted" was true at some moment since the request came (`GoodFits`); the token of a
read is no younger than the admin's last grant (`LagFits`, `IdpFits`); and before the first
outage nothing has opened the breaker (`NoTrip`).

### The pair of implementations and the npm breaker (`NpmPackage_proofs`)

The module extends `GuardParity` and `JsCircuitBreaker`, the two halves of the package, which
is why the former names its specification `DecisionSpec`.  Both cores follow one `Procedure`
(the outcome of verification, which each computes for itself, the checks on the claims, then its
`Ruling` on a verdict) and differ in what they read from the credential, the claims and the
verdict.  The lemmas show that the two verify alike, credential by credential, but for the two of
`Disputed` (`Verdicts`), that the two readings of access grant the same (`GrantsAgree`) and that a
legacy shape reads as its modern one (`ModernGrants`).  `TwoCoresOneDecision`,
`TwoGuardsOneDecision`, `OutageIsSaid` and `ShapeIsNoMatter` follow for any sites, features, roles
and shapes.  `OutageIsSaid` makes one exception, for the npm package and a body that is no key
set.  `NoBreakerLatches`: `Consistent` is inductive as it stands, for
any threshold above zero (`JsBreakerAssumption`); with a threshold of zero the gate would be
closed on a run that is at its threshold from the start.

### Step-up (`StepUp_proofs`)

`TypeCorrect`, `NoTokenWasted`, `ClearedSessions`, `RefusalsAreTrue` and the refinement
`EveryTokenIsAGrant` (each token, seen through `GrantState`, is a `OneTimeGrant`).  The
invariant has two halves.  `RequestInv`: a request that has not asked for the token has
spent nothing and seen no fault (`Untouched`), its mode fits its stage, the reply it holds
tells whether it spent the token (`ReplyTellsSpent`), and an answer that calls the session
elevated was given while it was (`SeenIsHeld`).  `TokenInv`: a token has at most one holder,
and none before it is spent or after it was used (`HolderOfSpent`, `OneHolder`); an action was
done only with a spent token; a token whose call its caller has left is marked cut; and
`LostOnlyByFault` itself.  The refinement needs both halves: with two holders of one token a
grant could be used twice, and a holder of another purpose could use it for the wrong one.

### The template (`ExampleItems_proofs`, `Pods_proofs`)

- `PageAgreesWithMeta`, `WalkIsComplete`, `PublicIsNewest`.  The heart is the lemma `Rank`: in
  any order of the table, however it breaks ties, a row that shares its stamp with none
  stands right after the rows newer than it.  A row
  the walk still owes is therefore `Ahead`: it is tied, or there are at least as
  many newer rows as the walk has passed places; and since rows are never deleted it stays so (`AheadStays`).
  `OffsetFits` covers the wrap: an offset of a walk begun at page 1 stays within
  `IntMax`, because every page before it was full of rows that are still there.
- `TypeCorrect`, `OneMigrates`, `ServesOnlySound`, `EndsDrained`.  The lock names exactly the
  pod that migrates (`LockFits`); a pod past its boot has a configuration that `Load`
  accepted and a schema at least its own (`PodFits`), which no later release or rollback
  takes away, as the schema never shrinks.  `LoadAccepts` says of the configuration
  what every accepted one has; that its introspection URL stays on the IdP's host rests on
  `JoinedAtBase`.  `TypeCorrect` of `Pods` is only what the others stand on.

### Assumptions

`BreakerAssumption`, `BreakerUseAssumption`, `JsBreakerAssumption`, `JwksAssumption`,
`HttpTimeoutAssumption`, `TokenLifeAssumption`, both `BoundsAssumption`s: naturals where the code has durations,
counters, limits and capacities (above zero where the code divides by them or would serve nothing).  `CallersAssumption`, `NoTokenAssumption`, `NoPodAssumption`:
the value that means "nobody" is not somebody.  `IssuedForAssumption`,
`PurposesAssumption`: every token was issued for a purpose, and there is one.
`RouteAssumption`, `VersionsAssumption`, `EnvsAssumption`: a route names sites and features that exist,
migrations are numbered from 1, an environment gives each variable one of its classes.
`RowsAssumption`: the table has no more rows than `COUNT` (a `bigint`) can say.  TLC
evaluates all of them.  `Prompt`, `PositiveTtls`, `LongLived`, `Horizon > 0` and `FailureThreshold > 0`
are hypotheses of the theorems named above only; `MCJwksRotation` satisfies all five.

### What only TLC checks

`Recovers` of `CircuitBreaker`, `JsCircuitBreaker`, `AdminJwksClient` and `Pods`, and
`EveryCallEnds`: liveness under fairness, which needs ENABLED, out of the prover's
reach.  The three runs that expect a violation (of the breaker, the key-set client and the
deployment) are counterexamples and need no proof.

## 6. What is not modelled

- Parsing: JWT segments, base64, Ed25519, JWKS JSON and `Cache-Control`.  Pure
  computations on one input; their outcomes are modelled.
- Configuration builders, header splitting, extractors, logging, dependency
  injection of the NestJS module, writing of HTTP responses.
- In `GuardParity`: the middleware's optional `require` (without it no scope is
  checked at all), tokens without `exp` or with `nbf` or `crit`, tokens without `sub` (which
  Rust refuses and the npm core does not ask for), a published key that cannot be decoded.
- In the template: CORS headers, tracing and the shape of error bodies; the host
  and port it binds; `ExampleRepo::get`, which no route calls; connections refused
  between the close of the listener and the load balancer's next probe; the probes'
  thresholds and periods.
- The auth server and the database beyond what their callers rely on.

## 7. Plan

Every component with state of its own has a module, and every safety and action property
a theorem.  What may still be added:

1. That the key-set client's use of its breaker is a use of `CircuitBreaker` (as
   `AdminGuard` has it): its reports are one step there and two here, so the mapping
   goes through a `CircuitBreaker` without the split.
2. The properties that would hold if a divergence of section 4 were closed
   (a floor that yields to an expired set; a breaker whose report is one section is
   `GateTellsRun` already),
   stated as theorems with that as their hypothesis.
3. Liveness stays with TLC.

## 8. Running

    tlc -config MCJwksRotation.cfg JwksEnvironment.tla
    tlapm StepUp_proofs.tla
