----------------------------- MODULE BreakerOps -----------------------------
(***************************************************************************)
(* The memory of the Rust circuit breaker and what each of its atomic      *)
(* sections does to it (rust/src/circuit_breaker.rs).  Which sections one  *)
(* call strings together, and what other threads do between them, is left  *)
(* to the modules that use this one.                                       *)
(*                                                                         *)
(* `opened_at: Option<Instant>` is read only as "how long ago", so it is   *)
(* kept as an age that stops at ResetAfter; `consecutive_failures` is read *)
(* only as "has it reached the threshold", so it stops there.              *)
(***************************************************************************)
EXTENDS Naturals

CONSTANTS
  FailureThreshold,  \* failure_threshold
  ResetAfter         \* reset_after, in ticks

ASSUME BreakerAssumption ==
  /\ FailureThreshold \in Nat
  /\ ResetAfter \in Nat

BreakerStates ==
  [failures : 0..FailureThreshold,  \* consecutive_failures
   open     : BOOLEAN,              \* opened_at.is_some()
   age      : 0..ResetAfter,        \* time since opened_at; 0 when closed
   probe    : BOOLEAN]              \* probe_in_flight

NewBreaker == [failures |-> 0, open |-> FALSE, age |-> 0, probe |-> FALSE]

----------------------------------------------------------------------------
(* allow_request, one section under the opened_at lock. *)

LendsProbe_Unguarded(b) == b.open /\ b.age >= ResetAfter

LendsProbe(b) == b.open /\ b.age >= ResetAfter /\ ~b.probe

Allows(b) == ~b.open \/ LendsProbe(b)

AfterAllow(b) == IF LendsProbe(b) THEN [b EXCEPT !.probe = TRUE] ELSE b

----------------------------------------------------------------------------
(* Writing opened_at starts its age again. *)
SetGate(b, open) == [[b EXCEPT !.open = open] EXCEPT !.age = 0]

(* record_success: an atomic store, then a locked section. *)

ResetRun(b) == [b EXCEPT !.failures = 0]

CloseGate(b) == SetGate(b, FALSE)

----------------------------------------------------------------------------
(* record_failure: an atomic fetch_add, whose result decides whether the   *)
(* locked section follows.                                                 *)

CountFailure(b) ==
  [b EXCEPT !.failures = IF @ < FailureThreshold THEN @ + 1 ELSE @]

MustOpen(b, wasProbe) == b.failures + 1 >= FailureThreshold \/ wasProbe

OpenGate_AlwaysRestarts(b, wasProbe) == SetGate(b, TRUE)

OpenGate(b, wasProbe) ==
  IF b.open /\ ~wasProbe THEN b ELSE SetGate(b, TRUE)

----------------------------------------------------------------------------
(* Drop of a permit that holds the probe, and the clock. *)

ReturnProbe(b) == [b EXCEPT !.probe = FALSE]

Elapse(b) ==
  [b EXCEPT !.age = IF b.open /\ @ < ResetAfter THEN @ + 1 ELSE @]
=============================================================================
