------------------------ MODULE CircuitBreaker_proofs -----------------------
(***************************************************************************)
(* Half-open is one call, for any number of callers, any threshold and any *)
(* reset window.                                                           *)
(***************************************************************************)
EXTENDS CircuitBreaker, BreakerOps_proofs

(* The two halves of ProbeCustody. *)
FlagHasHolder == breaker.probe <=> \E c \in Callers : HoldsProbe(c)

OneHolder == \A c, d \in Callers : HoldsProbe(c) /\ HoldsProbe(d) => c = d

(* ProbeCustody is not inductive: it says nothing of a caller between two  *)
(* permits, which must not keep the probe bit of the last one.             *)
NoneIsEmpty == \A c \in Callers : permit[c].stage = "none" => ~permit[c].probe

Inv == TypeOK /\ FlagHasHolder /\ OneHolder /\ NoneIsEmpty

(* A step of one caller that neither begins nor ends its permit, and       *)
(* leaves the flag alone, keeps custody.                                   *)
LEMMA CustodyKept ==
  ASSUME Inv, TypeOK', NEW c \in Callers,
         permit[c].stage # "none", permit'[c].stage # "none",
         permit'[c].probe = permit[c].probe,
         \A d \in Callers \ {c} : permit'[d] = permit[d],
         breaker'.probe = breaker.probe
  PROVE  Inv'
  <1>1. \A d \in Callers : HoldsProbe(d)' <=> HoldsProbe(d)
    BY DEF HoldsProbe
  <1>2. FlagHasHolder'  BY <1>1 DEF Inv, FlagHasHolder
  <1>3. OneHolder'  BY <1>1 DEF Inv, OneHolder
  <1>4. NoneIsEmpty'  BY DEF Inv, NoneIsEmpty
  <1>. QED  BY <1>2, <1>3, <1>4 DEF Inv

(* What Advance does to the permits. *)
LEMMA AdvanceEffect ==
  ASSUME TypeOK, NEW c \in Callers, NEW from \in Stages, NEW to \in Stages,
         Advance(c, from, to)
  PROVE  /\ permit' \in [Callers -> Permits]
         /\ healthy' \in BOOLEAN
         /\ permit[c].stage = from
         /\ permit'[c].stage = to
         /\ permit'[c].probe = permit[c].probe
         /\ \A d \in Callers \ {c} : permit'[d] = permit[d]
  BY DEF TypeOK, Advance, Permits

LEMMA InitInv == Init => Inv
  BY NewBreakerType
  DEF Init, Inv, TypeOK, FlagHasHolder, OneHolder, NoneIsEmpty, HoldsProbe,
      NoPermit, NewBreaker, Permits, Stages

LEMMA NextInv == Inv /\ [Next]_vars => Inv'
  <1>. SUFFICES ASSUME Inv, [Next]_vars PROVE Inv'
    OBVIOUS
  <1>. USE DEF Stages
  <1>t. TypeOK  BY DEF Inv
  <1>b. breaker \in BreakerStates  BY <1>t DEF TypeOK
  <1>1. ASSUME NEW c \in Callers, AllowRequest(c) PROVE Inv'
    <2>1. TypeOK'
      <3>1. AfterAllow(breaker) \in BreakerStates  BY <1>b, SectionsKeepType
      <3>2. LendsProbe(breaker) \in BOOLEAN  BY <1>b, LoanAndReturn
      <3>. QED  BY <1>1, <1>t, <3>1, <3>2 DEF AllowRequest, TypeOK, Permits
    <2>2. /\ permit'[c] = [stage |-> "out", probe |-> LendsProbe(breaker)]
          /\ \A d \in Callers \ {c} : permit'[d] = permit[d]
      BY <1>1, <1>t DEF AllowRequest, TypeOK
    <2>3. ~HoldsProbe(c)  BY <1>1 DEF AllowRequest, HoldsProbe
    <2>4. /\ HoldsProbe(c)' <=> LendsProbe(breaker)
          /\ \A d \in Callers \ {c} : HoldsProbe(d)' <=> HoldsProbe(d)
      BY <2>2 DEF HoldsProbe
    <2>5. breaker'.probe <=> breaker.probe \/ LendsProbe(breaker)
      BY <1>1, <1>b, LoanAndReturn DEF AllowRequest
    <2>6. LendsProbe(breaker) => \A d \in Callers : ~HoldsProbe(d)
      BY <1>b, LoanAndReturn DEF Inv, FlagHasHolder
    <2>7. FlagHasHolder'  BY <2>3, <2>4, <2>5 DEF Inv, FlagHasHolder
    <2>8. OneHolder'  BY <2>4, <2>6 DEF Inv, OneHolder
    <2>9. NoneIsEmpty'  BY <2>2 DEF Inv, NoneIsEmpty
    <2>. QED  BY <2>1, <2>7, <2>8, <2>9 DEF Inv
  <1>2. ASSUME NEW c \in Callers, RecordSuccess(c) PROVE Inv'
    <2>1. breaker' \in BreakerStates /\ breaker'.probe = breaker.probe
      BY <1>2, <1>b, SectionsKeepType, ReportsKeepProbe DEF RecordSuccess
    <2>. QED  BY <1>2, <1>t, <2>1, AdvanceEffect, CustodyKept
              DEF RecordSuccess, TypeOK
  <1>3. ASSUME NEW c \in Callers, FinishSuccess(c) PROVE Inv'
    <2>1. breaker' \in BreakerStates /\ breaker'.probe = breaker.probe
      BY <1>3, <1>b, SectionsKeepType, ReportsKeepProbe DEF FinishSuccess
    <2>. QED  BY <1>3, <1>t, <2>1, AdvanceEffect, CustodyKept
              DEF FinishSuccess, TypeOK
  <1>4. ASSUME NEW c \in Callers, RecordFailure(c) PROVE Inv'
    <2>1. breaker' \in BreakerStates /\ breaker'.probe = breaker.probe
      BY <1>4, <1>b, SectionsKeepType, ReportsKeepProbe DEF RecordFailure
    <2>2. CASE MustOpen(breaker, permit[c].probe)
      <3>1. Advance(c, "out", "opening")  BY <1>4, <2>2 DEF RecordFailure
      <3>. QED  BY <1>t, <2>1, <3>1, AdvanceEffect, CustodyKept DEF TypeOK
    <2>3. CASE ~MustOpen(breaker, permit[c].probe)
      <3>1. Advance(c, "out", "settled")  BY <1>4, <2>3 DEF RecordFailure
      <3>. QED  BY <1>t, <2>1, <3>1, AdvanceEffect, CustodyKept DEF TypeOK
    <2>. QED  BY <2>2, <2>3
  <1>5. ASSUME NEW c \in Callers, FinishFailure(c) PROVE Inv'
    <2>1. permit[c].probe \in BOOLEAN  BY <1>t DEF TypeOK, Permits
    <2>2. breaker' \in BreakerStates /\ breaker'.probe = breaker.probe
      BY <1>5, <1>b, <2>1, SectionsKeepType, ReportsKeepProbe
      DEF FinishFailure
    <2>. QED  BY <1>5, <1>t, <2>2, AdvanceEffect, CustodyKept
              DEF FinishFailure, TypeOK
  <1>6. ASSUME NEW c \in Callers, DropPermit(c) PROVE Inv'
    <2>1. breaker' \in BreakerStates
      BY <1>6, <1>b, SectionsKeepType DEF DropPermit
    <2>2. TypeOK'
      BY <1>6, <1>t, <2>1 DEF DropPermit, TypeOK, Permits, NoPermit
    <2>3. /\ permit'[c] = NoPermit
          /\ \A d \in Callers \ {c} : permit'[d] = permit[d]
      BY <1>6, <1>t DEF DropPermit, TypeOK
    <2>4. /\ ~HoldsProbe(c)'
          /\ \A d \in Callers \ {c} : HoldsProbe(d)' <=> HoldsProbe(d)
      BY <2>3 DEF HoldsProbe, NoPermit
    <2>5. HoldsProbe(c) <=> permit[c].probe
      BY <1>6 DEF DropPermit, HoldsProbe
    <2>6. breaker'.probe <=> breaker.probe /\ ~permit[c].probe
      BY <1>6, <1>b, LoanAndReturn DEF DropPermit
    <2>7. FlagHasHolder'
      BY <2>4, <2>5, <2>6 DEF Inv, FlagHasHolder, OneHolder
    <2>8. OneHolder'  BY <2>4 DEF Inv, OneHolder
    <2>9. NoneIsEmpty'  BY <2>3 DEF Inv, NoneIsEmpty, NoPermit
    <2>. QED  BY <2>2, <2>7, <2>8, <2>9 DEF Inv
  <1>7. CASE Tick
    <2>1. breaker' \in BreakerStates /\ breaker'.probe = breaker.probe
      BY <1>7, <1>b, SectionsKeepType, ReportsKeepProbe DEF Tick
    <2>. QED  BY <1>7, <2>1 DEF Tick, Inv, TypeOK, FlagHasHolder, OneHolder,
                                NoneIsEmpty, HoldsProbe
  <1>8. CASE IdpChanges
    BY <1>8 DEF IdpChanges, Inv, TypeOK, FlagHasHolder, OneHolder,
                NoneIsEmpty, HoldsProbe
  <1>9. CASE UNCHANGED vars
    BY <1>9 DEF vars, Inv, TypeOK, FlagHasHolder, OneHolder, NoneIsEmpty,
                HoldsProbe
  <1>. QED
    BY <1>1, <1>2, <1>3, <1>4, <1>5, <1>6, <1>7, <1>8, <1>9 DEF Next

LEMMA SpecInv == Spec => []Inv
  BY InitInv, NextInv, PTL DEF Spec

(* Every state the breaker and its callers reach is well formed. *)
THEOREM TypeCorrect == Spec => []TypeOK
  <1>1. Inv => TypeOK  BY DEF Inv
  <1>. QED  BY <1>1, SpecInv, PTL

(* "exactly one caller is lent a probe call" (circuit_breaker.rs:13-17), and*)
(* the flag is set only while that caller's permit lives.                  *)
THEOREM OneProbe == Spec => []ProbeCustody
  <1>1. Inv => ProbeCustody
    BY DEF Inv, FlagHasHolder, OneHolder, ProbeCustody
  <1>. QED  BY <1>1, SpecInv, PTL

----------------------------------------------------------------------------
(* While the breaker stays open only the holder of the probe, reporting,   *)
(* starts its window again (circuit_breaker.rs:154-160).                   *)
WindowStep ==
  breaker.open /\ breaker'.open /\ breaker'.age < breaker.age
    => \E c \in Callers : HoldsProbe(c) /\ permit'[c] # permit[c]

(* What the sections do to the gate and its age. *)
LEMMA GateEffects ==
  ASSUME NEW b \in BreakerStates, NEW p \in BOOLEAN
  PROVE  /\ \A d \in {AfterAllow(b), ResetRun(b), CountFailure(b),
                      ReturnProbe(b)} : d.open = b.open /\ d.age = b.age
         /\ ~CloseGate(b).open
         /\ b.open /\ ~p => OpenGate(b, p) = b
         /\ ~(Elapse(b).age < b.age)
         /\ ~(b.age < b.age)
  <1>1. \A d \in {AfterAllow(b), ResetRun(b), CountFailure(b),
                  ReturnProbe(b)} : d.open = b.open /\ d.age = b.age
    BY DEF BreakerStates, AfterAllow, ResetRun, CountFailure, ReturnProbe
  <1>2. ~CloseGate(b).open  BY DEF BreakerStates, CloseGate, SetGate
  <1>3. b.open /\ ~p => OpenGate(b, p) = b  BY DEF OpenGate
  <1>4. ~(Elapse(b).age < b.age)
    BY BreakerAssumption DEF BreakerAssumption, BreakerStates, Elapse
  <1>5. ~(b.age < b.age)
    BY BreakerAssumption DEF BreakerAssumption, BreakerStates
  <1>. QED  BY <1>1, <1>2, <1>3, <1>4, <1>5

LEMMA StepWindow == Inv /\ [Next]_vars => WindowStep
  <1>. SUFFICES ASSUME Inv, [Next]_vars PROVE WindowStep
    OBVIOUS
  <1>t. TypeOK  BY DEF Inv
  <1>b. breaker \in BreakerStates  BY <1>t DEF TypeOK
  <1>p. \A c \in Callers : permit[c].probe \in BOOLEAN
    BY <1>t DEF TypeOK, Permits
  <1>1. ASSUME NEW c \in Callers, AllowRequest(c) PROVE WindowStep
    BY <1>1, <1>b, GateEffects DEF AllowRequest, WindowStep
  <1>2. ASSUME NEW c \in Callers, RecordSuccess(c) PROVE WindowStep
    BY <1>2, <1>b, GateEffects DEF RecordSuccess, WindowStep
  <1>3. ASSUME NEW c \in Callers, FinishSuccess(c) PROVE WindowStep
    BY <1>3, <1>b, GateEffects DEF FinishSuccess, WindowStep
  <1>4. ASSUME NEW c \in Callers, RecordFailure(c) PROVE WindowStep
    BY <1>4, <1>b, GateEffects DEF RecordFailure, WindowStep
  <1>5. ASSUME NEW c \in Callers, FinishFailure(c) PROVE WindowStep
    <2>1. CASE permit[c].probe
      <3>1. permit'[c].stage = "settled" /\ permit[c].stage = "opening"
        BY <1>5, <1>t DEF FinishFailure, Advance, TypeOK, Permits
      <3>. QED  BY <2>1, <3>1 DEF WindowStep, HoldsProbe
    <2>2. CASE ~permit[c].probe
      BY <1>5, <1>b, <1>p, <2>2, GateEffects DEF FinishFailure, WindowStep
    <2>. QED  BY <2>1, <2>2
  <1>6. ASSUME NEW c \in Callers, DropPermit(c) PROVE WindowStep
    BY <1>6, <1>b, GateEffects DEF DropPermit, WindowStep
  <1>7. CASE Tick
    BY <1>7, <1>b, GateEffects DEF Tick, WindowStep
  <1>8. CASE IdpChanges
    BY <1>8, <1>b, GateEffects DEF IdpChanges, WindowStep
  <1>9. CASE UNCHANGED vars
    BY <1>9, <1>b, GateEffects DEF vars, WindowStep
  <1>. QED
    BY <1>1, <1>2, <1>3, <1>4, <1>5, <1>6, <1>7, <1>8, <1>9 DEF Next

(* Failures of calls that left before the breaker opened never prolong the *)
(* outage.                                                                 *)
THEOREM StragglersHarmless == Spec => OnlyProbeRestartsWindow
  <1>1. Inv /\ [Next]_vars
          => [breaker.open /\ breaker'.open /\ breaker'.age < breaker.age
                => \E c \in Callers : HoldsProbe(c) /\ permit'[c] # permit[c]]_vars
    BY StepWindow DEF WindowStep
  <1>. QED  BY <1>1, SpecInv, PTL DEF Spec, OnlyProbeRestartsWindow

----------------------------------------------------------------------------
(* While the IdP answers, no caller is on its way to open the gate.        *)
Calm == ~breaker.open /\ \A c \in Callers : permit[c].stage # "opening"

LEMMA StepCalm == Inv /\ Calm /\ healthy /\ [Next]_vars => Calm'
  <1>. SUFFICES ASSUME Inv, Calm, healthy, [Next]_vars PROVE Calm'
    OBVIOUS
  <1>t. TypeOK /\ breaker \in BreakerStates  BY DEF Inv, TypeOK
  <1>1. ASSUME NEW c \in Callers, NEW from \in Stages,
               NEW to \in Stages \ {"opening"}, Advance(c, from, to),
               ~breaker'.open
        PROVE  Calm'
    BY <1>1, <1>t, AdvanceEffect DEF Calm
  <1>2. ASSUME NEW c \in Callers, AllowRequest(c) PROVE Calm'
    BY <1>2, <1>t, GateEffects DEF AllowRequest, TypeOK, Calm
  <1>3. ASSUME NEW c \in Callers, RecordSuccess(c) PROVE Calm'
    <2>1. ~breaker'.open  BY <1>3, <1>t, GateEffects DEF RecordSuccess, Calm
    <2>. QED  BY <1>1, <1>3, <2>1 DEF RecordSuccess, Stages
  <1>4. ASSUME NEW c \in Callers, FinishSuccess(c) PROVE Calm'
    <2>1. ~breaker'.open  BY <1>4, <1>t, GateEffects DEF FinishSuccess
    <2>. QED  BY <1>1, <1>4, <2>1 DEF FinishSuccess, Stages
  <1>5. ASSUME NEW c \in Callers, RecordFailure(c) \/ FinishFailure(c)
        PROVE  Calm'
    BY <1>5 DEF RecordFailure, FinishFailure, Advance, Calm
  <1>6. ASSUME NEW c \in Callers, DropPermit(c) PROVE Calm'
    <2>1. ~breaker'.open  BY <1>6, <1>t, GateEffects DEF DropPermit, Calm
    <2>2. /\ permit'[c].stage = "none"
          /\ \A d \in Callers \ {c} : permit'[d] = permit[d]
      BY <1>6, <1>t DEF DropPermit, TypeOK, NoPermit
    <2>. QED  BY <2>1, <2>2 DEF Calm
  <1>7. CASE Tick
    BY <1>7, <1>t DEF Tick, Calm, Elapse, BreakerStates
  <1>8. CASE IdpChanges \/ UNCHANGED vars
    BY <1>8 DEF IdpChanges, vars, Calm
  <1>. QED
    BY <1>2, <1>3, <1>4, <1>5, <1>6, <1>7, <1>8 DEF Next

(* No number of answers, denials included, and of cancelled calls opens    *)
(* the breaker while the IdP answers (contract/README.md rule 7).          *)
THEOREM DenialsNeverTrip == Spec => HealthyNeverTrips
  <1>1. Init => Calm
    BY DEF Init, Calm, NewBreaker, NoPermit
  <1>2. Inv /\ Calm /\ healthy /\ [Next]_vars => Calm'
    BY StepCalm
  <1>3. Calm => ~breaker.open  BY DEF Calm
  <1>. QED
    BY <1>1, <1>2, <1>3, SpecInv, PTL DEF Spec, HealthyNeverTrips

----------------------------------------------------------------------------
(* The loan implements Lease: no caller is lent the probe while another has*)
(* it, and it passes only through being given back.                        *)
LEMMA HolderIs ==
  ASSUME OneHolder
  PROVE  /\ \A c \in Callers : HoldsProbe(c) => ProbeHolder = c
         /\ (\A c \in Callers : ~HoldsProbe(c)) => ProbeHolder = NoOne
  BY DEF OneHolder, ProbeHolder

LEMMA StepLease == Inv /\ Inv' /\ [Next]_vars => [Loan!Next]_ProbeHolder
  <1>. SUFFICES ASSUME Inv, Inv', [Next]_vars PROVE [Loan!Next]_ProbeHolder
    OBVIOUS
  <1>t. TypeOK  BY DEF Inv
  <1>i. /\ \A c \in Callers : HoldsProbe(c) => ProbeHolder = c
        /\ (\A c \in Callers : ~HoldsProbe(c)) => ProbeHolder = NoOne
    BY HolderIs DEF Inv
  <1>j. /\ \A c \in Callers : HoldsProbe(c)' => ProbeHolder' = c
        /\ (\A c \in Callers : ~HoldsProbe(c)') => ProbeHolder' = NoOne
    BY DEF Inv, OneHolder, ProbeHolder
  <1>a. ASSUME \A c \in Callers : HoldsProbe(c)' <=> HoldsProbe(c)
        PROVE  UNCHANGED ProbeHolder
    BY <1>a, <1>i, <1>j
  <1>1. ASSUME NEW c \in Callers, AllowRequest(c)
        PROVE  [Loan!Next]_ProbeHolder
    <2>1. \A d \in Callers \ {c} : HoldsProbe(d)' <=> HoldsProbe(d)
      BY <1>1, <1>t DEF AllowRequest, TypeOK, HoldsProbe
    <2>2. ~HoldsProbe(c)  BY <1>1 DEF AllowRequest, HoldsProbe
    <2>3. CASE HoldsProbe(c)'
      <3>1. LendsProbe(breaker)
        BY <1>1, <1>t, <2>3 DEF AllowRequest, TypeOK, HoldsProbe
      <3>2. \A d \in Callers : ~HoldsProbe(d)
        BY <1>t, <3>1, LoanAndReturn DEF TypeOK, Inv, FlagHasHolder
      <3>. QED  BY <1>i, <1>j, <2>3, <3>2 DEF Loan!Next, Loan!Acquire
    <2>4. CASE ~HoldsProbe(c)'
      BY <1>a, <2>1, <2>2, <2>4
    <2>. QED  BY <2>3, <2>4
  <1>2. ASSUME NEW c \in Callers, DropPermit(c)
        PROVE  [Loan!Next]_ProbeHolder
    <2>1. \A d \in Callers \ {c} : HoldsProbe(d)' <=> HoldsProbe(d)
      BY <1>2, <1>t DEF DropPermit, TypeOK, HoldsProbe
    <2>2. ~HoldsProbe(c)'
      BY <1>2, <1>t DEF DropPermit, TypeOK, HoldsProbe, NoPermit
    <2>3. CASE HoldsProbe(c)
      <3>1. \A d \in Callers : ~HoldsProbe(d)'
        BY <2>1, <2>2, <2>3 DEF Inv, OneHolder
      <3>2. ProbeHolder = c /\ ProbeHolder' = NoOne
        BY <1>i, <1>j, <2>3, <3>1
      <3>. QED  BY <3>2, CallersAssumption
                DEF CallersAssumption, Loan!Next, Loan!Release
    <2>4. CASE ~HoldsProbe(c)
      BY <1>a, <2>1, <2>2, <2>4
    <2>. QED  BY <2>3, <2>4
  <1>3. ASSUME NEW c \in Callers, NEW from \in Stages \ {"none"},
               NEW to \in Stages \ {"none"}, Advance(c, from, to)
        PROVE  UNCHANGED ProbeHolder
    <2>1. \A d \in Callers : HoldsProbe(d)' <=> HoldsProbe(d)
      BY <1>3, <1>t, AdvanceEffect DEF HoldsProbe
    <2>. QED  BY <1>a, <2>1
  <1>4. ASSUME NEW c \in Callers,
               RecordSuccess(c) \/ FinishSuccess(c) \/ FinishFailure(c)
        PROVE  UNCHANGED ProbeHolder
    BY <1>3, <1>4 DEF RecordSuccess, FinishSuccess, FinishFailure, Stages
  <1>5. ASSUME NEW c \in Callers, RecordFailure(c)
        PROVE  UNCHANGED ProbeHolder
    <2>1. Advance(c, "out", "opening") \/ Advance(c, "out", "settled")
      BY <1>5 DEF RecordFailure
    <2>. QED  BY <1>3, <2>1 DEF Stages
  <1>6. CASE UNCHANGED permit
    BY <1>6, <1>a DEF HoldsProbe
  <1>7. Tick \/ IdpChanges \/ UNCHANGED vars => UNCHANGED permit
    BY DEF Tick, IdpChanges, vars
  <1>. QED  BY <1>1, <1>2, <1>4, <1>5, <1>6, <1>7 DEF Next

(* The half-open probe is a lease of one: taken only when free, given back *)
(* only by its holder, whatever threads interleave.                        *)
THEOREM ImplementsLease == Spec => ProbeIsLease
  <1>1. Init => Loan!Init
    BY DEF Init, Loan!Init, ProbeHolder, HoldsProbe, NoPermit
  <1>2. Inv /\ Inv' /\ [Next]_vars => [Loan!Next]_ProbeHolder
    BY StepLease
  <1>. QED  BY <1>1, <1>2, SpecInv, PTL DEF Spec, ProbeIsLease, Loan!Spec
=============================================================================
