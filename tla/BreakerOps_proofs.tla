-------------------------- MODULE BreakerOps_proofs -------------------------
(***************************************************************************)
(* What the sections of the breaker keep and change, stated once for the   *)
(* proofs about the modules that string them together.                     *)
(***************************************************************************)
EXTENDS BreakerOps, TLAPS

(* A new breaker is one. *)
LEMMA NewBreakerType == NewBreaker \in BreakerStates
  BY BreakerAssumption DEF BreakerAssumption, BreakerStates, NewBreaker

(* Every section takes a breaker to a breaker. *)
LEMMA SectionsKeepType ==
  ASSUME NEW b \in BreakerStates, NEW p \in BOOLEAN
  PROVE  /\ AfterAllow(b) \in BreakerStates
         /\ ResetRun(b) \in BreakerStates
         /\ CloseGate(b) \in BreakerStates
         /\ CountFailure(b) \in BreakerStates
         /\ OpenGate(b, p) \in BreakerStates
         /\ ReturnProbe(b) \in BreakerStates
         /\ Elapse(b) \in BreakerStates
  <1>. USE BreakerAssumption DEF BreakerAssumption, BreakerStates
  <1>1. AfterAllow(b) \in BreakerStates  BY DEF AfterAllow
  <1>2. ResetRun(b) \in BreakerStates  BY DEF ResetRun
  <1>3. \A open \in BOOLEAN : SetGate(b, open) \in BreakerStates
    <2>. TAKE open \in BOOLEAN
    <2>1. [b EXCEPT !.open = open] \in BreakerStates  OBVIOUS
    <2>2. \A d \in BreakerStates : [d EXCEPT !.age = 0] \in BreakerStates
      OBVIOUS
    <2>. QED  BY <2>1, <2>2 DEF SetGate
  <1>4. CountFailure(b) \in BreakerStates  BY DEF CountFailure
  <1>5. /\ CloseGate(b) \in BreakerStates
        /\ OpenGate(b, p) \in BreakerStates
    BY ONLY <1>3, b \in BreakerStates DEF CloseGate, OpenGate
  <1>6. ReturnProbe(b) \in BreakerStates  BY DEF ReturnProbe
  <1>7. Elapse(b) \in BreakerStates  BY DEF Elapse
  <1>. QED  BY <1>1, <1>2, <1>3, <1>4, <1>5, <1>6, <1>7

(* Only allow_request and the permit's Drop touch probe_in_flight:         *)
(* reporting an outcome does not (circuit_breaker.rs:58-64).               *)
LEMMA ReportsKeepProbe ==
  ASSUME NEW b \in BreakerStates, NEW p \in BOOLEAN
  PROVE  /\ ResetRun(b).probe = b.probe
         /\ CloseGate(b).probe = b.probe
         /\ CountFailure(b).probe = b.probe
         /\ OpenGate(b, p).probe = b.probe
         /\ Elapse(b).probe = b.probe
  BY DEF BreakerStates, ResetRun, CloseGate, CountFailure, OpenGate,
     SetGate, Elapse

(* The two steps that do. *)
LEMMA LoanAndReturn ==
  ASSUME NEW b \in BreakerStates
  PROVE  /\ LendsProbe(b) \in BOOLEAN
         /\ AfterAllow(b).probe <=> b.probe \/ LendsProbe(b)
         /\ LendsProbe(b) => ~b.probe
         /\ ~ReturnProbe(b).probe
  BY DEF BreakerStates, LendsProbe, AfterAllow, ReturnProbe
=============================================================================
