-------------------------- MODULE JsCircuitBreaker --------------------------
(***************************************************************************)
(* The npm package's circuit breaker as its introspect client drives it    *)
(* (js/src/core/circuit-breaker.ts, js/src/core/introspect-client.ts).     *)
(* JavaScript runs one callback at a time, so each report is one step; what*)
(* interleaves is the calls, between canAttempt and the answer.  A call    *)
(* always ends: the transport's AbortController bounds it and nothing      *)
(* cancels it from outside.                                                *)
(***************************************************************************)
EXTENDS Naturals

CONSTANTS
  Callers,
  FailureThreshold,  \* failureThreshold
  ResetTimeout       \* resetTimeoutMs, in ticks

ASSUME JsBreakerAssumption ==
  /\ FailureThreshold \in Nat \ {0}
  /\ ResetTimeout \in Nat

VARIABLES
  state,      \* state
  failures,   \* consecutiveFailures, stopping at the threshold
  age,        \* time since openedAt, stopping at ResetTimeout; 0 when closed
  call,       \* call[c]: the introspect call of c, awaiting its transport
  healthy     \* whether the IdP answers every call

breaker == <<state, failures, age>>
vars == <<state, failures, age, call, healthy>>

(* trial: let through to decide a half-open breaker that is still waiting  *)
(* for the answer; plain: any other call.                                  *)
Calls == {"idle", "plain", "trial"}

Init ==
  /\ state = "closed"
  /\ failures = 0
  /\ age = 0
  /\ call = [c \in Callers |-> "idle"]
  /\ healthy \in BOOLEAN

InFlight(c) == call[c] # "idle"

(* The call of c is over and so is the trial, if there was one. *)
Report(c) ==
  /\ InFlight(c)
  /\ call' = [d \in Callers |->
                IF d = c \/ ~InFlight(d) THEN "idle" ELSE "plain"]

WindowElapsed == age >= ResetTimeout

(* canAttempt returns true for c, which goes out on its call. *)
CanAttempt(c) ==
  /\ ~InFlight(c)
  /\ state # "open" \/ WindowElapsed
  /\ state' = IF state = "open" THEN "half_open" ELSE state
  /\ call' = [call EXCEPT ![c] = IF state = "closed" THEN "plain" ELSE "trial"]
  /\ UNCHANGED <<failures, age, healthy>>

(* A 2xx with a JSON body. *)
RecordSuccess_GateKept(c) ==
  /\ Report(c)
  /\ failures' = 0
  /\ UNCHANGED <<state, age, healthy>>

RecordSuccess(c) ==
  /\ Report(c)
  /\ failures' = 0
  /\ state' = "closed"
  /\ age' = 0
  /\ UNCHANGED healthy

Trips_ClosedOnly == state = "closed" /\ failures + 1 >= FailureThreshold

Trips == state = "half_open" \/ failures + 1 >= FailureThreshold

Counted(n) == IF n < FailureThreshold THEN n + 1 ELSE n

(* The transport threw (timeout, network, body not JSON) or answered       *)
(* non-2xx.                                                                *)
RecordFailure(c) ==
  /\ ~healthy
  /\ Report(c)
  /\ failures' = Counted(failures)
  /\ IF Trips THEN state' = "open" /\ age' = 0 ELSE UNCHANGED <<state, age>>
  /\ UNCHANGED healthy

Tick ==
  /\ age' = IF state # "closed" /\ age < ResetTimeout THEN age + 1 ELSE age
  /\ UNCHANGED <<state, failures, call, healthy>>

IdpChanges ==
  /\ healthy' = ~healthy
  /\ UNCHANGED <<state, failures, age, call>>

Next ==
  \/ \E c \in Callers : CanAttempt(c) \/ RecordSuccess(c) \/ RecordFailure(c)
  \/ Tick
  \/ IdpChanges

Spec == Init /\ [][Next]_vars

(* Requests keep coming, every call ends within its timeout, the clock     *)
(* runs.                                                                   *)
FairSpec ==
  /\ Spec
  /\ WF_vars(Tick)
  /\ \A c \in Callers :
       /\ WF_vars(CanAttempt(c))
       /\ WF_vars(RecordSuccess(c) \/ RecordFailure(c))

----------------------------------------------------------------------------
TypeOK ==
  /\ state \in {"closed", "open", "half_open"}
  /\ failures \in 0..FailureThreshold
  /\ age \in 0..ResetTimeout
  /\ call \in [Callers -> Calls]
  /\ healthy \in BOOLEAN

(* The gate and the run of failures agree at every await, which the Rust   *)
(* breaker cannot say (contract/README.md rule 7, circuit-breaker.ts:52-62)*)
GateMatchesRun == state = "closed" <=> failures < FailureThreshold

(* Half-open is never left without a call that will decide it: no latch    *)
(* (circuit-breaker.ts:33-36).                                             *)
HalfOpenHasTrial == state = "half_open" => \E c \in Callers : call[c] = "trial"

(* The state is well formed, its gate matches its run and a trial decides. *)
(* Calls that left before a trip report into whatever state came after it. *)
Consistent == TypeOK /\ GateMatchesRun /\ HalfOpenHasTrial

(* Once the IdP answers for good the breaker closes for good. *)
Recovers == <>[]healthy => <>[](state = "closed")
=============================================================================
