--------------------------- MODULE CircuitBreaker ---------------------------
(***************************************************************************)
(* The Rust circuit breaker shared by concurrent callers                   *)
(* (rust/src/circuit_breaker.rs).  Each caller takes a RequestPermit, makes*)
(* a call to the IdP, reports what came of it and drops the permit; a      *)
(* caller whose future is cancelled drops it without reporting.  Reports   *)
(* are not atomic: other callers run between a report's store to the       *)
(* counter and its locked section on the gate.                             *)
(***************************************************************************)
EXTENDS BreakerOps

CONSTANTS
  Callers,
  NoOne       \* not a caller

ASSUME CallersAssumption == NoOne \notin Callers

VARIABLES
  breaker,    \* the CircuitBreaker
  permit,     \* permit[c]: the RequestPermit of caller c and how far c got
  healthy     \* whether the IdP answers every call made to it

vars == <<breaker, permit, healthy>>

(* none: no permit.  out: permit taken, nothing reported (the await).      *)
(* closing, opening: between the two halves of a report.  settled: reported*)
(* and still held.                                                         *)
Stages == {"none", "out", "closing", "opening", "settled"}

Permits == [stage : Stages, probe : BOOLEAN]

NoPermit == [stage |-> "none", probe |-> FALSE]

Init ==
  /\ breaker = NewBreaker
  /\ permit = [c \in Callers |-> NoPermit]
  /\ healthy \in BOOLEAN

Advance(c, from, to) ==
  /\ permit[c].stage = from
  /\ permit' = [permit EXCEPT ![c].stage = to]
  /\ UNCHANGED healthy

----------------------------------------------------------------------------
(* A refused caller fails its request at once: no state changes.  A caller *)
(* whose earlier request is over may come back any number of times.        *)
AllowRequest(c) ==
  /\ permit[c].stage = "none"
  /\ Allows(breaker)
  /\ permit' = [permit EXCEPT ![c] =
                  [stage |-> "out", probe |-> LendsProbe(breaker)]]
  /\ breaker' = AfterAllow(breaker)
  /\ UNCHANGED healthy

RecordSuccess(c) ==
  /\ Advance(c, "out", "closing")
  /\ breaker' = ResetRun(breaker)

FinishSuccess(c) ==
  /\ Advance(c, "closing", "settled")
  /\ breaker' = CloseGate(breaker)

RecordFailure(c) ==
  /\ ~healthy
  /\ Advance(c, "out",
             IF MustOpen(breaker, permit[c].probe) THEN "opening" ELSE "settled")
  /\ breaker' = CountFailure(breaker)

FinishFailure(c) ==
  /\ Advance(c, "opening", "settled")
  /\ breaker' = OpenGate(breaker, permit[c].probe)

(* The permit's Drop: after a report, or from "out" when the future holding*)
(* it is cancelled.                                                        *)
DropPermit_AfterReportOnly(c) ==
  /\ permit[c].stage \in {"out", "settled"}
  /\ breaker' = IF permit[c].probe /\ permit[c].stage = "settled"
                THEN ReturnProbe(breaker) ELSE breaker
  /\ permit' = [permit EXCEPT ![c] = NoPermit]
  /\ UNCHANGED healthy

DropPermit_CancelFails(c) ==
  /\ permit[c].stage \in {"out", "settled"}
  /\ LET b == IF permit[c].probe THEN ReturnProbe(breaker) ELSE breaker
     IN  breaker' = IF permit[c].stage = "settled" THEN b
                    ELSE IF MustOpen(b, permit[c].probe)
                    THEN OpenGate(CountFailure(b), permit[c].probe)
                    ELSE CountFailure(b)
  /\ permit' = [permit EXCEPT ![c] = NoPermit]
  /\ UNCHANGED healthy

DropPermit(c) ==
  /\ permit[c].stage \in {"out", "settled"}
  /\ breaker' = IF permit[c].probe THEN ReturnProbe(breaker) ELSE breaker
  /\ permit' = [permit EXCEPT ![c] = NoPermit]
  /\ UNCHANGED healthy

----------------------------------------------------------------------------
Tick ==
  /\ breaker' = Elapse(breaker)
  /\ UNCHANGED <<permit, healthy>>

IdpChanges ==
  /\ healthy' = ~healthy
  /\ UNCHANGED <<breaker, permit>>

Next ==
  \/ \E c \in Callers :
       \/ AllowRequest(c)
       \/ RecordSuccess(c)
       \/ FinishSuccess(c)
       \/ RecordFailure(c)
       \/ FinishFailure(c)
       \/ DropPermit(c)
  \/ Tick
  \/ IdpChanges

Spec == Init /\ [][Next]_vars

(* A thread that started a report finishes it, the HTTP timeout bounds     *)
(* every call (so a permit is dropped in the end) and the clock runs.      *)
(* Nothing forces a caller to come, to be answered or to be cancelled.     *)
Progress ==
  /\ \A c \in Callers :
       /\ WF_vars(FinishSuccess(c))
       /\ WF_vars(FinishFailure(c))
       /\ WF_vars(DropPermit(c))
  /\ WF_vars(Tick)

FairSpec == Spec /\ Progress

(* For recovery: requests keep coming, and not every call that may be      *)
(* answered is cancelled first.                                            *)
BusySpec ==
  /\ FairSpec
  /\ \A c \in Callers : WF_vars(AllowRequest(c)) /\ SF_vars(RecordSuccess(c))

----------------------------------------------------------------------------
TypeOK ==
  /\ breaker \in BreakerStates
  /\ permit \in [Callers -> Permits]
  /\ healthy \in BOOLEAN

HoldsProbe(c) == permit[c].probe /\ permit[c].stage # "none"

(* Half-open is one call: the flag is set exactly while some live permit   *)
(* carries the probe, and no two permits do, however reports, cancellations*)
(* and closings by other callers interleave with the loan                  *)
(* (circuit_breaker.rs:54-64).                                             *)
ProbeCustody ==
  /\ breaker.probe <=> \E c \in Callers : HoldsProbe(c)
  /\ \A c, d \in Callers : HoldsProbe(c) /\ HoldsProbe(d) => c = d

(* Failures of calls that left before the breaker opened do not prolong the*)
(* outage: while the breaker stays open its window starts again only when  *)
(* the caller that holds the probe reports (circuit_breaker.rs:154-160).   *)
OnlyProbeRestartsWindow ==
  [][ breaker.open /\ breaker'.open /\ breaker'.age < breaker.age
        => \E c \in Callers : HoldsProbe(c) /\ permit'[c] # permit[c] ]_vars

(* The loan implements Lease. *)
ProbeHolder ==
  IF \E c \in Callers : HoldsProbe(c)
  THEN CHOOSE c \in Callers : HoldsProbe(c) ELSE NoOne

Loan == INSTANCE Lease WITH Holders <- Callers, holder <- ProbeHolder

ProbeIsLease == Loan!Spec

(* No number of answers, denials included, and of cancelled calls opens the*)
(* breaker while the IdP answers (contract/README.md rule 7).              *)
HealthyNeverTrips == []healthy => []~breaker.open

(* Once the IdP answers for good the breaker closes for good, with no      *)
(* restart: no probe latches it (circuit_breaker.rs:31-39, 245-250).       *)
Recovers == <>[]healthy => <>[]~breaker.open

(* Rule 7, "5 consecutive transport failures open it": between reports, a  *)
(* run of failures that has reached the threshold has opened the gate.     *)
Quiescent == \A c \in Callers : permit[c].stage \notin {"closing", "opening"}

FullRunOpens ==
  Quiescent => (breaker.failures >= FailureThreshold => breaker.open)
=============================================================================
