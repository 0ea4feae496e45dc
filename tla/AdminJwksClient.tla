--------------------------- MODULE AdminJwksClient --------------------------
(***************************************************************************)
(* The Rust key-set client (rust/src/jwks.rs): concurrent resolve_key calls*)
(* over one cache behind a RwLock, a single flight with joiners, a refetch *)
(* floor, a grace window for stale keys and a circuit breaker.             *)
(*                                                                         *)
(* A section under the lock has no await in it and is one step; the joiner *)
(* is the exception, because the lease it races with is dropped outside the*)
(* lock.  Every report to the breaker is made under the write lock, so both*)
(* its halves are one step here.  Instants are kept as ages that stop where*)
(* nothing reads them any more.                                            *)
(***************************************************************************)
EXTENDS BreakerOps

CONSTANTS
  Callers,
  NoOne,             \* no caller, no kid
  Kids,
  AdvertisedTtls,    \* max-age values the IdP may send; holds default_ttl
  MaxTtl,            \* max_ttl
  StaleGrace,        \* stale_grace
  MinRefetch,        \* min_refetch_interval
  Prompt             \* no tick passes while a task could run

ASSUME JwksAssumption ==
  /\ NoOne \notin Callers \union Kids
  /\ AdvertisedTtls \subseteq Nat
  /\ MaxTtl \in Nat
  /\ StaleGrace \in Nat
  /\ MinRefetch \in Nat
  /\ Prompt \in BOOLEAN

VARIABLES
  cache,      \* the JwksCache
  breaker,    \* the CircuitBreaker
  fetching,   \* fetch_in_flight
  waiters,    \* callers registered with fetch_settled, not yet notified
  writer,     \* the joiner that holds the write lock across steps, or NoOne
  req         \* req[c]: the resolve_key call of c

vars == <<cache, breaker, fetching, waiters, writer, req>>

Horizon == MaxTtl + StaleGrace

Caches ==
  [keys   : SUBSET Kids,      \* keys
   ttl    : 0..MaxTtl,        \* ttl
   age    : 0..Horizon,       \* time since fetched_at
   since  : 0..MinRefetch,    \* time since last_attempt_at
   failed : BOOLEAN]          \* last_attempt_failed

(* JwksCache::default(): no key set, nothing attempted. *)
NewCache ==
  [keys |-> {}, ttl |-> 0, age |-> Horizon, since |-> MinRefetch,
   failed |-> FALSE]

Stages ==
  {"idle",
   "asked",       \* awaits the read lock of the fast path
   "wanting",     \* awaits the write lock
   "joining",     \* saw a fetch in flight; holds the write lock
   "registered",  \* registered with fetch_settled; holds the write lock
   "waiting",     \* awaits fetch_settled
   "reading",     \* awaits the read lock in answer_from_cache
   "fetching",    \* leads: awaits the HTTP response
   "fetched",     \* leads: has the response, awaits the write lock
   "releasing",   \* leads: about to drop the lease
   "notifying",   \* inside FetchLease::drop, flag cleared
   "returning"}   \* lease dropped, permit still held

Answers == {"none", "key", "unauthorized", "unavailable"}

Responses == [ok : BOOLEAN, keys : SUBSET Kids, ttl : 0..MaxTtl]

NoResponse == [ok |-> FALSE, keys |-> {}, ttl |-> 0]

Requests ==
  [stage : Stages, kid : Kids \union {NoOne}, probe : BOOLEAN, got : Responses,
   answer : Answers]

Request(stage, kid, probe, got, answer) ==
  [stage |-> stage, kid |-> kid, probe |-> probe, got |-> got,
   answer |-> answer]

(* No call running; the last one, if any, was answered so. *)
Idle(answer) == Request("idle", NoOne, FALSE, NoResponse, answer)

Init ==
  /\ cache = NewCache
  /\ breaker = NewBreaker
  /\ fetching = FALSE
  /\ waiters = {}
  /\ writer = NoOne
  /\ req = [c \in Callers |-> Idle("none")]

----------------------------------------------------------------------------
(* The cache's two questions, and stale_key. *)

Fresh_GraceToo(kid) ==
  kid \in cache.keys /\ cache.age < cache.ttl + StaleGrace

Fresh(kid) == kid \in cache.keys /\ cache.age < cache.ttl

WithinGrace(kid) == kid \in cache.keys /\ cache.age < cache.ttl + StaleGrace

StaleKey(kid) == StaleGrace > 0 /\ WithinGrace(kid)

FloorActive == cache.since < MinRefetch

KeyOr_NoGrace(kid, refusal) == refusal

KeyOr(kid, refusal) == IF StaleKey(kid) THEN "key" ELSE refusal

----------------------------------------------------------------------------
At(c, stage) == req[c].stage = stage

Goto(c, stage) == req' = [req EXCEPT ![c].stage = stage]

Become(c, request) == req' = [req EXCEPT ![c] = request]

Answer(c, answer) == Become(c, Idle(answer))

LockFree == writer = NoOne

Ask(c, kid) ==
  /\ At(c, "idle")
  /\ Become(c, Request("asked", kid, FALSE, NoResponse, "none"))
  /\ UNCHANGED <<cache, breaker, fetching, waiters, writer>>

FastPath(c) ==
  /\ At(c, "asked")
  /\ LockFree
  /\ IF Fresh(req[c].kid) THEN Answer(c, "key") ELSE Goto(c, "wanting")
  /\ UNCHANGED <<cache, breaker, fetching, waiters, writer>>

(* The branches of the section under the write lock, in the code's order.  *)
RefreshedMeanwhile(c) ==
  /\ At(c, "wanting")
  /\ LockFree
  /\ Fresh(req[c].kid)
  /\ Answer(c, "key")
  /\ UNCHANGED <<cache, breaker, fetching, waiters, writer>>

JoinFetch(c) ==
  /\ At(c, "wanting")
  /\ LockFree
  /\ ~Fresh(req[c].kid)
  /\ fetching
  /\ Goto(c, "joining")
  /\ writer' = c
  /\ UNCHANGED <<cache, breaker, fetching, waiters>>

MustDecide_NoFlag(c) ==
  /\ At(c, "wanting")
  /\ LockFree
  /\ ~Fresh(req[c].kid)

MustDecide(c) ==
  /\ At(c, "wanting")
  /\ LockFree
  /\ ~Fresh(req[c].kid)
  /\ ~fetching

HeldByFloor(c) ==
  /\ MustDecide(c)
  /\ FloorActive
  /\ Answer(c, IF cache.failed THEN KeyOr(req[c].kid, "unavailable")
               ELSE "unauthorized")
  /\ UNCHANGED <<cache, breaker, fetching, waiters, writer>>

HeldByBreaker(c) ==
  /\ MustDecide(c)
  /\ ~FloorActive
  /\ ~Allows(breaker)
  /\ Answer(c, KeyOr(req[c].kid, "unavailable"))
  /\ UNCHANGED <<cache, breaker, fetching, waiters, writer>>

(* Pessimistic: an attempt counts as failed until it proves otherwise. *)
StampAttempt_Optimistic(old) == [[old EXCEPT !.since = 0] EXCEPT !.failed = FALSE]

StampAttempt_NoFloor(old) == [old EXCEPT !.failed = TRUE]

StampAttempt(old) == [[old EXCEPT !.since = 0] EXCEPT !.failed = TRUE]

StartFetch(c) ==
  /\ MustDecide(c)
  /\ ~FloorActive
  /\ Allows(breaker)
  /\ Become(c, Request("fetching", req[c].kid, LendsProbe(breaker),
                       NoResponse, "none"))
  /\ breaker' = AfterAllow(breaker)
  /\ cache' = StampAttempt(cache)
  /\ fetching' = TRUE
  /\ UNCHANGED <<waiters, writer>>

----------------------------------------------------------------------------
(* The joiner: register, re-read the flag, let the lock go. *)
Register(c) ==
  /\ At(c, "joining")
  /\ Goto(c, "registered")
  /\ waiters' = waiters \union {c}
  /\ UNCHANGED <<cache, breaker, fetching, writer>>

StillFetching_NotReread == TRUE

StillFetching == fetching

Recheck(c) ==
  /\ At(c, "registered")
  /\ writer' = NoOne
  /\ IF StillFetching
     THEN Goto(c, "waiting") /\ UNCHANGED waiters
     ELSE Goto(c, "reading") /\ waiters' = waiters \ {c}
  /\ UNCHANGED <<cache, breaker, fetching>>

Woken(c) ==
  /\ At(c, "waiting")
  /\ c \notin waiters
  /\ Goto(c, "reading")
  /\ UNCHANGED <<cache, breaker, fetching, waiters, writer>>

AnswerFromCache(c) ==
  /\ At(c, "reading")
  /\ LockFree
  /\ Answer(c, IF Fresh(req[c].kid) THEN "key"
               ELSE IF ~cache.failed THEN "unauthorized"
               ELSE KeyOr(req[c].kid, "unavailable"))
  /\ UNCHANGED <<cache, breaker, fetching, waiters, writer>>

----------------------------------------------------------------------------
(* The leader: fetch, commit, drop the lease, drop the permit.             *)

(* std's min; ttl.min(max_ttl). *)
AtMost(n, bound) == IF n < bound THEN n ELSE bound

Lifetime(ttl) == AtMost(ttl, MaxTtl)

(* The response arrives, with any set of usable keys and any max-age: which*)
(* of the sets the IdP published while the fetch was under way it carries  *)
(* is JwksEnvironment's to say.                                            *)
FetchAnswers(c) ==
  /\ At(c, "fetching")
  /\ \E keys \in SUBSET Kids, ttl \in AdvertisedTtls :
       Become(c, Request("fetched", req[c].kid, req[c].probe,
                         [ok |-> TRUE, keys |-> keys, ttl |-> Lifetime(ttl)],
                         "none"))
  /\ UNCHANGED <<cache, breaker, fetching, waiters, writer>>

(* Unreachable, non-2xx or unparseable. *)
FetchFails(c) ==
  /\ At(c, "fetching")
  /\ Goto(c, "fetched")
  /\ UNCHANGED <<cache, breaker, fetching, waiters, writer>>

(* record_success and record_failure, whole. *)
Recovered(b) == CloseGate(ResetRun(b))

Failed(b, wasProbe) ==
  IF MustOpen(b, wasProbe) THEN OpenGate(CountFailure(b), wasProbe)
  ELSE CountFailure(b)

Replaced_Merged(old, got) ==
  [keys |-> old.keys \union got.keys, ttl |-> got.ttl, age |-> 0,
   since |-> old.since, failed |-> FALSE]

Replaced_OutcomeKept(old, got) ==
  [keys |-> got.keys, ttl |-> got.ttl, age |-> 0,
   since |-> old.since, failed |-> old.failed]

Replaced(old, got) ==
  [keys |-> got.keys, ttl |-> got.ttl, age |-> 0,
   since |-> old.since, failed |-> FALSE]

(* The leader knows its answer and goes on to drop the lease. *)
Release(c, answer) ==
  Become(c, Request("releasing", req[c].kid, req[c].probe, NoResponse, answer))

CommitKeys(c) ==
  /\ At(c, "fetched")
  /\ LockFree
  /\ req[c].got.ok
  /\ breaker' = Recovered(breaker)
  /\ cache' = Replaced(cache, req[c].got)
  /\ Release(c, IF req[c].kid \in req[c].got.keys
                THEN "key" ELSE "unauthorized")
  /\ UNCHANGED <<fetching, waiters, writer>>

CommitFailure(c) ==
  /\ At(c, "fetched")
  /\ LockFree
  /\ ~req[c].got.ok
  /\ breaker' = Failed(breaker, req[c].probe)
  /\ Release(c, KeyOr(req[c].kid, "unavailable"))
  /\ UNCHANGED <<cache, fetching, waiters, writer>>

ClearFlag(c) ==
  /\ At(c, "releasing")
  /\ fetching' = FALSE
  /\ Goto(c, "notifying")
  /\ UNCHANGED <<cache, breaker, waiters, writer>>

NotifyWaiters(c) ==
  /\ At(c, "notifying")
  /\ waiters' = {}
  /\ Goto(c, "returning")
  /\ UNCHANGED <<cache, breaker, fetching, writer>>

DropPermit(c) ==
  /\ At(c, "returning")
  /\ breaker' = IF req[c].probe THEN ReturnProbe(breaker) ELSE breaker
  /\ Answer(c, req[c].answer)
  /\ UNCHANGED <<cache, fetching, waiters, writer>>

----------------------------------------------------------------------------
(* The future is dropped at an await.  A follower is gone at once; a leader*)
(* still runs its destructors, the lease's first and then the permit's.    *)
CancelFollower(c) ==
  /\ req[c].stage \in {"asked", "wanting", "waiting", "reading"}
  /\ Answer(c, "none")
  /\ waiters' = waiters \ {c}
  /\ UNCHANGED <<cache, breaker, fetching, writer>>

CancelLeader_Leak(c) ==
  /\ req[c].stage \in {"fetching", "fetched"}
  /\ Answer(c, "none")
  /\ UNCHANGED <<cache, breaker, fetching, waiters, writer>>

CancelLeader(c) ==
  /\ req[c].stage \in {"fetching", "fetched"}
  /\ Release(c, "none")
  /\ UNCHANGED <<cache, breaker, fetching, waiters, writer>>

----------------------------------------------------------------------------
(* c has nothing to run: no call, a response or a notification to come. *)
Resting(c) ==
  \/ req[c].stage \in {"idle", "fetching"}
  \/ At(c, "waiting") /\ c \in waiters

Older(n, bound) == AtMost(n + 1, bound)

Tick ==
  /\ Prompt => \A c \in Callers : Resting(c)
  /\ cache' = [[cache EXCEPT !.age = Older(@, Horizon)]
                      EXCEPT !.since = Older(@, MinRefetch)]
  /\ breaker' = Elapse(breaker)
  /\ UNCHANGED <<fetching, waiters, writer, req>>

(* The steps of a task that only the scheduler can delay. *)
Run(c) ==
  \/ FastPath(c)
  \/ RefreshedMeanwhile(c)
  \/ JoinFetch(c)
  \/ HeldByFloor(c)
  \/ HeldByBreaker(c)
  \/ StartFetch(c)
  \/ Register(c)
  \/ Recheck(c)
  \/ Woken(c)
  \/ AnswerFromCache(c)
  \/ CommitKeys(c)
  \/ CommitFailure(c)
  \/ ClearFlag(c)
  \/ NotifyWaiters(c)
  \/ DropPermit(c)

FetchEnds(c) == FetchAnswers(c) \/ FetchFails(c)

Cancel(c) == CancelFollower(c) \/ CancelLeader(c)

Next ==
  \/ \E c \in Callers :
       \/ \E kid \in Kids : Ask(c, kid)
       \/ Run(c)
       \/ FetchEnds(c)
       \/ Cancel(c)
  \/ Tick

Spec == Init /\ [][Next]_vars

(* A task that can run does, every fetch ends within http_timeout, the     *)
(* clock runs.  The RwLock is fair, and no section under it lasts.         *)
Progress ==
  /\ \A c \in Callers : SF_vars(Run(c)) /\ WF_vars(FetchEnds(c))
  /\ WF_vars(Tick)

FairSpec == Spec /\ Progress

(* For recovery: requests for every kid keep coming. *)
BusySpec ==
  /\ FairSpec
  /\ \A c \in Callers, kid \in Kids : SF_vars(Ask(c, kid))

----------------------------------------------------------------------------
TypeOK ==
  /\ cache \in Caches
  /\ breaker \in BreakerStates
  /\ fetching \in BOOLEAN
  /\ waiters \subseteq Callers
  /\ writer \in Callers \union {NoOne}
  /\ req \in [Callers -> Requests]

LeaseStages == {"fetching", "fetched", "releasing"}

HoldsLease(c) == req[c].stage \in LeaseStages

(* One fetch at a time, and the flag says so: it is set exactly while one  *)
(* task leads, whatever is cancelled when (jwks.rs:209-211, 351-363).      *)
SingleFlight ==
  /\ fetching <=> \E c \in Callers : HoldsLease(c)
  /\ \A c, d \in Callers : HoldsLease(c) /\ HoldsLease(d) => c = d

(* The lease implements Lease. *)
Leader ==
  IF \E c \in Callers : HoldsLease(c)
  THEN CHOOSE c \in Callers : HoldsLease(c) ELSE NoOne

Flight == INSTANCE Lease WITH Holders <- Callers, holder <- Leader

FlightIsLease == Flight!Spec

(* The breaker's probe is out exactly while one call carries it, through   *)
(* the gap between the drop of the lease and the drop of the permit        *)
(* (jwks.rs:452-459).                                                      *)
HoldsProbe(c) == req[c].probe

ProbeCustody ==
  /\ breaker.probe <=> \E c \in Callers : HoldsProbe(c)
  /\ \A c, d \in Callers : HoldsProbe(c) /\ HoldsProbe(d) => c = d

(* Rule 7, "5 consecutive transport failures open it": the gate is open    *)
(* exactly when the run of failures has reached the threshold.  The breaker*)
(* alone does not promise it; one fetch at a time, and reports made under  *)
(* the write lock, do (jwks.rs:460-508).                                   *)
GateMatchesRun == breaker.open <=> breaker.failures >= FailureThreshold

(* "Register first and then re-read the flag" (jwks.rs:400-410): whoever   *)
(* awaits a notification has a leader that is still to send it, whatever is*)
(* cancelled and however late a joiner registers.                          *)
WillNotify(c) == HoldsLease(c) \/ At(c, "notifying")

NoneStranded ==
  \A c \in waiters : At(c, "waiting") => \E d \in Callers : WillNotify(d)

Answered(c, answer) == req[c].answer = "none" /\ req'[c].answer = answer

(* 503 is for a request no key in hand can serve: on every path that gives *)
(* it the kid is neither fresh nor within its grace (jwks.rs:241-251).     *)
UnavailableMeansNoKey ==
  [][ \A c \in Callers :
        Answered(c, "unavailable")
          => ~Fresh(req[c].kid) /\ ~StaleKey(req[c].kid) ]_vars

(* Rule 5, "a key set that arrives fine and simply lacks the token's kid is*)
(* a bad credential (401)": 401 is never the answer for a kid the last key *)
(* set has.                                                                *)
UnauthorizedMeansAbsent ==
  [][ \A c \in Callers :
        Answered(c, "unauthorized") => req[c].kid \notin cache'.keys ]_vars

(* A key is served past its lifetime only when the latest attempt to       *)
(* replace the set did not succeed (jwks.rs:245-249).                      *)
StaleOnlyInOutage ==
  [][ \A c \in Callers :
        Answered(c, "key")
          => cache'.failed \/ cache'.age < cache'.ttl ]_vars

(* Nobody is stranded behind a leader that is gone or a notification that  *)
(* was sent before it was awaited (jwks.rs:353-363, 400-410).              *)
EveryCallEnds == \A c \in Callers : ~At(c, "idle") ~> At(c, "idle")

(* An IdP that is back is found to be back, once calls are no longer       *)
(* cancelled: the cache does not go on saying "we do not know what is in   *)
(* the key set" (jwks.rs:485-487).                                         *)
BackForGood == <>[][ \A c \in Callers : ~FetchFails(c) /\ ~Cancel(c) ]_vars

Recovers == BackForGood => []<>~cache.failed
=============================================================================
