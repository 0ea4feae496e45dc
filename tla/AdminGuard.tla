----------------------------- MODULE AdminGuard -----------------------------
(***************************************************************************)
(* AdminGuard::authorize and the introspect client it calls                *)
(* (rust/src/guard.rs, rust/src/introspect_client.rs), for concurrent      *)
(* requests of one admin whose access the IdP changes at any moment.       *)
(*                                                                         *)
(* A role with its siteAccess is kept as what check_access makes of it:    *)
(* "granted" or "lacking".  The key set is AdminJwksClient's; here it      *)
(* resolves a key, does not have it, or is unavailable.                    *)
(***************************************************************************)
EXTENDS Naturals

CONSTANTS
  Callers,
  NoOne,
  FailureThreshold,  \* breaker_failure_threshold
  ResetAfter,        \* breaker_open
  TokenLife          \* ticks from the mint of a token to its exp

ASSUME TokenLifeAssumption == TokenLife \in Nat

ASSUME BreakerUseAssumption ==
  /\ FailureThreshold \in Nat
  /\ ResetAfter \in Nat
  /\ NoOne \notin Callers

VARIABLES
  breaker, permit, healthy,  \* those of CircuitBreaker
  req,        \* req[c]: the request of c
  live,       \* the admin's access as the IdP knows it, or "inactive"
  minted,     \* minted[a]: age of the latest token minted with access a
  sinceGood,  \* time since live was last "granted", up to TokenLife
  outage      \* whether the IdP has ever failed to answer

breakerVars == <<breaker, permit, healthy>>
idp == <<live, minted, sinceGood, outage>>
vars == <<breakerVars, req, idp>>

Breaker == INSTANCE CircuitBreaker

Access == {"granted", "lacking"}

Verdicts == Access \union {"inactive"}

Stages ==
  {"idle",
   "verifying",      \* awaits the key for its token
   "checked",        \* a write the claims allow; no permit yet
   "introspecting",  \* has a permit; the IdP has not judged
   "judged",         \* the IdP has judged; the reply is on its way
   "failing",        \* no verdict came
   "received",       \* has the verdict
   "deciding"}       \* the permit dropped; the verdict is read

Answers == {"none", "authorized", "unauthorized", "forbidden", "unavailable"}

Requests ==
  [stage : Stages, write : BOOLEAN, claims : Access, age : 0..TokenLife,
   verdict : Verdicts \union {"none"},
   good : BOOLEAN,     \* live was "granted" at some moment since the arrival
   answer : Answers]

Idle(answer) ==
  [stage |-> "idle", write |-> FALSE, claims |-> "lacking", age |-> 0,
   verdict |-> "none", good |-> FALSE, answer |-> answer]

Init ==
  /\ Breaker!Init
  /\ req = [c \in Callers |-> Idle("none")]
  /\ live \in Verdicts
  /\ minted = [a \in Access |-> TokenLife]
  /\ sinceGood = IF live = "granted" THEN 0 ELSE TokenLife
  /\ outage = ~healthy

At(c, stage) == req[c].stage = stage

Goto(c, stage) == req' = [req EXCEPT ![c].stage = stage]

Answer(c, answer) == req' = [req EXCEPT ![c] = Idle(answer)]

Local == UNCHANGED <<breakerVars, idp>>

----------------------------------------------------------------------------
(* A request with any token minted so far, its exp passed or not. *)
Arrive(c) ==
  /\ At(c, "idle")
  /\ \E write \in BOOLEAN, a \in Access :
       req' = [req EXCEPT ![c] =
                 [stage |-> "verifying", write |-> write, claims |-> a,
                  age |-> minted[a], verdict |-> "none",
                  good |-> live = "granted", answer |-> "none"]]
  /\ Local

(* Not a JWT, the wrong alg, no kid or one the key set lacks, a bad        *)
(* signature, a type or issuer that is not expected.                       *)
KeyUnusable(c) == At(c, "verifying") /\ Answer(c, "unauthorized") /\ Local

KeySetUnavailable(c) == At(c, "verifying") /\ Answer(c, "unavailable") /\ Local

(* exp is compared once the key has been awaited. *)
Expired_Unread(c) == FALSE

Expired(c) == req[c].age >= TokenLife

TokenExpired(c) ==
  At(c, "verifying") /\ Expired(c) /\ Answer(c, "unauthorized") /\ Local

Verified(c) == At(c, "verifying") /\ ~Expired(c)

CheckAccess(access) == access = "granted"

ClaimsRefused(c) ==
  /\ Verified(c)
  /\ ~CheckAccess(req[c].claims)
  /\ Answer(c, "forbidden")
  /\ Local

ReadAuthorized(c) ==
  /\ Verified(c)
  /\ CheckAccess(req[c].claims)
  /\ ~req[c].write
  /\ Answer(c, "authorized")
  /\ Local

MayIntrospect_ClaimsUnread(c) == Verified(c) /\ req[c].write

MayIntrospect(c) == Verified(c) /\ CheckAccess(req[c].claims) /\ req[c].write

ClaimsAllow(c) ==
  /\ MayIntrospect(c)
  /\ req' = [req EXCEPT ![c] = [@ EXCEPT !.stage = "checked", !.age = 0]]
  /\ Local

----------------------------------------------------------------------------
(* AdminIntrospectClient::fetch. *)
CircuitOpen(c) ==
  /\ At(c, "checked")
  /\ ~Breaker!Allows(breaker)
  /\ Answer(c, "unavailable")
  /\ Local

Introspect(c) ==
  /\ At(c, "checked")
  /\ Breaker!AllowRequest(c)
  /\ Goto(c, "introspecting")
  /\ UNCHANGED idp

(* The IdP judges by what it knows when the call reaches it. *)
IdpJudges(c) ==
  /\ At(c, "introspecting")
  /\ req' = [req EXCEPT ![c] =
               [@ EXCEPT !.stage = "judged", !.verdict = live]]
  /\ Local

(* A 2xx, whatever its verdict. *)
ReceiveVerdict_ActiveOnly(c) ==
  /\ At(c, "judged")
  /\ Breaker!Advance(c, "out", "closing")
  /\ breaker' = IF req[c].verdict # "inactive" THEN Breaker!ResetRun(breaker)
                ELSE IF Breaker!MustOpen(breaker, permit[c].probe)
                THEN Breaker!OpenGate(Breaker!CountFailure(breaker),
                                      permit[c].probe)
                ELSE Breaker!CountFailure(breaker)
  /\ Goto(c, "received")
  /\ UNCHANGED idp

ReceiveVerdict(c) ==
  /\ At(c, "judged")
  /\ Breaker!RecordSuccess(c)
  /\ Goto(c, "received")
  /\ UNCHANGED idp

(* Unreachable, timed out, non-2xx or malformed; judged or not. *)
ReceiveFailure(c) ==
  /\ req[c].stage \in {"introspecting", "judged"}
  /\ Breaker!RecordFailure(c)
  /\ Goto(c, "failing")
  /\ UNCHANGED idp

FinishReport(c) ==
  /\ Breaker!FinishSuccess(c) \/ Breaker!FinishFailure(c)
  /\ UNCHANGED <<req, idp>>

(* fetch returns: the permit is dropped with its frame. *)
FetchFailed(c) ==
  /\ At(c, "failing")
  /\ permit[c].stage = "settled"
  /\ Breaker!DropPermit(c)
  /\ Answer(c, "unavailable")
  /\ UNCHANGED idp

FetchReturned(c) ==
  /\ At(c, "received")
  /\ permit[c].stage = "settled"
  /\ Breaker!DropPermit(c)
  /\ Goto(c, "deciding")
  /\ UNCHANGED idp

(* An active verdict's access replaces the claims and is checked again. *)
Ruling_ClaimsKept(verdict) ==
  IF verdict = "inactive" THEN "unauthorized" ELSE "authorized"

Ruling(verdict) ==
  IF verdict = "inactive" THEN "unauthorized"
  ELSE IF CheckAccess(verdict) THEN "authorized" ELSE "forbidden"

Decide(c) ==
  At(c, "deciding") /\ Answer(c, Ruling(req[c].verdict)) /\ Local

(* The client goes away at an await. *)
CancelVerify(c) == At(c, "verifying") /\ Answer(c, "none") /\ Local

CancelIntrospect_PermitLeaked(c) ==
  /\ req[c].stage \in {"introspecting", "judged"}
  /\ permit' = [permit EXCEPT ![c] = Breaker!NoPermit]
  /\ Answer(c, "none")
  /\ UNCHANGED <<breaker, healthy, idp>>

CancelIntrospect(c) ==
  /\ req[c].stage \in {"introspecting", "judged"}
  /\ Breaker!DropPermit(c)
  /\ Answer(c, "none")
  /\ UNCHANGED idp

----------------------------------------------------------------------------
(* The IdP: a grant or a role changes, the account is closed or reopened.  *)
AccessChanges ==
  /\ live' \in Verdicts \ {live}
  /\ sinceGood' = IF live' = "granted" THEN 0 ELSE sinceGood
  /\ req' = [c \in Callers |->
               IF live' = "granted" /\ ~At(c, "idle")
               THEN [req[c] EXCEPT !.good = TRUE] ELSE req[c]]
  /\ UNCHANGED <<breakerVars, minted, outage>>

(* A login or a refresh. *)
Mint ==
  /\ live # "inactive"
  /\ minted' = [minted EXCEPT ![live] = 0]
  /\ UNCHANGED <<breakerVars, req, live, sinceGood, outage>>

Older(n) == IF n < TokenLife THEN n + 1 ELSE n

Tick ==
  /\ Breaker!Tick
  /\ req' = [c \in Callers |->
               IF At(c, "verifying")
               THEN [req[c] EXCEPT !.age = Older(@)] ELSE req[c]]
  /\ minted' = [a \in Access |-> Older(minted[a])]
  /\ sinceGood' = IF live = "granted" THEN 0 ELSE Older(sinceGood)
  /\ UNCHANGED <<live, outage>>

IdpChanges ==
  /\ Breaker!IdpChanges
  /\ outage' = TRUE
  /\ UNCHANGED <<req, live, minted, sinceGood>>

Next ==
  \/ \E c \in Callers :
       \/ Arrive(c)
       \/ KeyUnusable(c)
       \/ KeySetUnavailable(c)
       \/ TokenExpired(c)
       \/ ClaimsRefused(c)
       \/ ReadAuthorized(c)
       \/ ClaimsAllow(c)
       \/ CircuitOpen(c)
       \/ Introspect(c)
       \/ IdpJudges(c)
       \/ ReceiveVerdict(c)
       \/ ReceiveFailure(c)
       \/ FinishReport(c)
       \/ FetchFailed(c)
       \/ FetchReturned(c)
       \/ Decide(c)
       \/ CancelVerify(c)
       \/ CancelIntrospect(c)
  \/ AccessChanges
  \/ Mint
  \/ Tick
  \/ IdpChanges

Spec == Init /\ [][Next]_vars

----------------------------------------------------------------------------
TypeOK ==
  /\ Breaker!TypeOK
  /\ req \in [Callers -> Requests]
  /\ live \in Verdicts
  /\ minted \in [Access -> 0..TokenLife]
  /\ sinceGood \in 0..TokenLife
  /\ outage \in BOOLEAN

Answered(c, answer) == req[c].answer = "none" /\ req'[c].answer = answer

(* Rule 4, "a revocation or a removed grant takes effect on the next write"*)
(* (contract/README.md): a write is authorized only if, at some moment     *)
(* between its arrival and its answer, the IdP held the admin active and   *)
(* granted; a revocation before the request arrives always bites           *)
(* (guard.rs:253-276).                                                     *)
RevocationBites ==
  [][ \A c \in Callers :
        req[c].write /\ Answered(c, "authorized") => req[c].good ]_vars

(* The same section, "up to one access-token lifetime, the same as on      *)
(* reads": a read is authorized only if the admin deserved access less than*)
(* a token's life ago, however long the key was awaited (token.rs:146-155).*)
ReadsLagOneTokenLife ==
  [][ \A c \in Callers :
        ~req[c].write /\ Answered(c, "authorized")
          => sinceGood < TokenLife ]_vars

(* "A request refused here is never introspected": no permit is out for a  *)
(* request that its claims refuse, nor for a read (guard.rs:244-254).      *)
OnlyDeservingIntrospected ==
  \A c \in Callers :
    permit[c].stage # "none" => req[c].write /\ CheckAccess(req[c].claims)

(* The state is well formed, and the two tasks' permits are out only for   *)
(* requests that deserve a verdict.                                        *)
Consistent == TypeOK /\ OnlyDeservingIntrospected

(* Rule 7, "a stream of legitimately revoked tokens must never open it",   *)
(* end to end: before the IdP first fails to answer, no write that its     *)
(* claims allow is turned away by the breaker, whatever the verdicts and   *)
(* whoever is cancelled (introspect_client.rs:170-173).                    *)
NoVerdictMissed ==
  ~outage => \A c \in Callers : At(c, "checked") => Breaker!Allows(breaker)

(* The guard uses the breaker as CircuitBreaker says its callers do, so all*)
(* that is checked and proved of that module holds of the guard's breaker. *)
DrivesBreaker == Breaker!Spec
=============================================================================
