-------------------------- MODULE AdminGuard_proofs -------------------------
(***************************************************************************)
(* The guard's promises, for any number of concurrent requests, any        *)
(* threshold and reset window of its breaker and any life of a token.      *)
(*                                                                         *)
(* The guard's steps are steps of its breaker (DrivesStep), so what        *)
(* CircuitBreaker_proofs proves of that module is used here, not proved    *)
(* again.                                                                  *)
(***************************************************************************)
EXTENDS AdminGuard, TLAPS

Proved == INSTANCE CircuitBreaker_proofs

----------------------------------------------------------------------------
(* The guard drives the breaker. *)

LEMMA DrivesInit == Init => Breaker!Init
  BY DEF Init

LEMMA DrivesStep == [Next]_vars => [Breaker!Next]_Breaker!vars
  <1>. SUFFICES ASSUME [Next]_vars PROVE [Breaker!Next]_Breaker!vars
    OBVIOUS
  <1>1. ASSUME NEW c \in Callers,
               \/ Breaker!AllowRequest(c) \/ Breaker!RecordSuccess(c)
               \/ Breaker!FinishSuccess(c) \/ Breaker!RecordFailure(c)
               \/ Breaker!FinishFailure(c) \/ Breaker!DropPermit(c)
        PROVE  Breaker!Next
    BY <1>1 DEF Breaker!Next
  <1>2. ASSUME NEW c \in Callers,
               \/ Introspect(c) \/ ReceiveVerdict(c) \/ ReceiveFailure(c)
               \/ FinishReport(c) \/ FetchFailed(c) \/ FetchReturned(c)
               \/ CancelIntrospect(c)
        PROVE  Breaker!Next
    BY <1>1, <1>2 DEF Introspect, ReceiveVerdict, ReceiveFailure, FinishReport,
       FetchFailed, FetchReturned, CancelIntrospect
  <1>3. ASSUME NEW c \in Callers,
               \/ Arrive(c) \/ KeyUnusable(c) \/ KeySetUnavailable(c)
               \/ TokenExpired(c) \/ ClaimsRefused(c) \/ ReadAuthorized(c)
               \/ ClaimsAllow(c) \/ CircuitOpen(c) \/ IdpJudges(c)
               \/ Decide(c) \/ CancelVerify(c)
        PROVE  UNCHANGED breakerVars
    BY <1>3 DEF Arrive, KeyUnusable, KeySetUnavailable, TokenExpired,
       ClaimsRefused, ReadAuthorized, ClaimsAllow, CircuitOpen, IdpJudges,
       Decide, CancelVerify, Local
  <1>4. CASE Tick \/ IdpChanges
    BY <1>4 DEF Tick, IdpChanges, Breaker!Next
  <1>5. CASE AccessChanges \/ Mint \/ UNCHANGED vars
    BY <1>5 DEF AccessChanges, Mint, vars, breakerVars, Breaker!vars
  <1>6. UNCHANGED breakerVars => UNCHANGED Breaker!vars
    BY DEF breakerVars, Breaker!vars
  <1>. QED  BY <1>2, <1>3, <1>4, <1>5, <1>6 DEF Next

(* The guard uses the breaker as CircuitBreaker says its callers do.       *)
THEOREM GuardDrivesBreaker == Spec => DrivesBreaker
  BY DrivesInit, DrivesStep, PTL DEF Spec, DrivesBreaker, Breaker!Spec

(* One module, instantiated twice. *)
LEMMA SameBreaker ==
  /\ Breaker!Init <=> Proved!Init
  /\ [Breaker!Next]_Breaker!vars <=> [Proved!Next]_Proved!vars
  /\ Breaker!TypeOK <=> Proved!TypeOK
  /\ Breaker!ProbeCustody <=> Proved!ProbeCustody
  BY DEF Breaker!Init, Breaker!Next, Breaker!vars, Breaker!TypeOK,
    Breaker!ProbeCustody, Breaker!HoldsProbe,
    Breaker!NewBreaker, Breaker!NoPermit, Breaker!BreakerStates,
    Breaker!Permits, Breaker!Stages, Breaker!Advance, Breaker!AllowRequest,
    Breaker!RecordSuccess, Breaker!FinishSuccess, Breaker!RecordFailure,
    Breaker!FinishFailure, Breaker!DropPermit, Breaker!Tick,
    Breaker!IdpChanges, Breaker!Allows, Breaker!LendsProbe,
    Breaker!AfterAllow, Breaker!SetGate, Breaker!ResetRun, Breaker!CloseGate,
    Breaker!CountFailure, Breaker!MustOpen, Breaker!OpenGate,
    Breaker!ReturnProbe, Breaker!Elapse,
    Proved!Init, Proved!Next, Proved!vars, Proved!TypeOK,
    Proved!ProbeCustody, Proved!HoldsProbe,
    Proved!NewBreaker, Proved!NoPermit, Proved!BreakerStates,
    Proved!Permits, Proved!Stages, Proved!Advance, Proved!AllowRequest,
    Proved!RecordSuccess, Proved!FinishSuccess, Proved!RecordFailure,
    Proved!FinishFailure, Proved!DropPermit, Proved!Tick,
    Proved!IdpChanges, Proved!Allows, Proved!LendsProbe,
    Proved!AfterAllow, Proved!SetGate, Proved!ResetRun, Proved!CloseGate,
    Proved!CountFailure, Proved!MustOpen, Proved!OpenGate,
    Proved!ReturnProbe, Proved!Elapse

LEMMA BreakerAssumptions ==
  Proved!BreakerAssumption /\ Proved!CallersAssumption
  BY BreakerUseAssumption DEF BreakerUseAssumption, Proved!BreakerAssumption,
     Proved!CallersAssumption

(* The guard's breaker keeps what every CircuitBreaker does: its types, and*)
(* one live permit at most with the probe.                                 *)
THEOREM GuardKeepsCustody == Spec => [](Breaker!TypeOK /\ Breaker!ProbeCustody)
  <1>1. Spec => Proved!Spec
    BY DrivesInit, DrivesStep, SameBreaker, PTL DEF Spec, Proved!Spec
  <1>2. Proved!Spec => []Proved!TypeOK /\ []Proved!ProbeCustody
    BY BreakerAssumptions, Proved!TypeCorrect, Proved!OneProbe, PTL
  <1>. QED  BY <1>1, <1>2, SameBreaker, PTL

----------------------------------------------------------------------------
(* The guard's own invariant.                                              *)

GuardTypeOK ==
  /\ req \in [Callers -> Requests]
  /\ live \in Verdicts
  /\ minted \in [Access -> 0..TokenLife]
  /\ sinceGood \in 0..TokenLife
  /\ outage \in BOOLEAN

(* The stages of a request that holds a permit, and those of a write that  *)
(* its claims allow.                                                       *)
WithPermit == {"introspecting", "judged", "failing", "received"}

PastClaims == WithPermit \union {"checked", "deciding"}

PermitFits(c) == permit[c].stage # "none" <=> req[c].stage \in WithPermit

DeservingFits(c) ==
  req[c].stage \in PastClaims => req[c].write /\ CheckAccess(req[c].claims)

(* Which moments a request remembers: its verdict was granted while it was *)
(* at the IdP, and its token is no younger than the admin's last grant.    *)
GoodFits(c) ==
  /\ live = "granted" /\ ~At(c, "idle") => req[c].good
  /\ req[c].verdict = "granted" => req[c].good

LagFits(c) ==
  At(c, "verifying") /\ CheckAccess(req[c].claims) => sinceGood <= req[c].age

RequestFits(c) ==
  PermitFits(c) /\ DeservingFits(c) /\ GoodFits(c) /\ LagFits(c)

IdpFits ==
  /\ live = "granted" => sinceGood = 0
  /\ sinceGood <= minted["granted"]

(* Until the IdP first fails to answer, nothing opens the breaker. *)
NoTrip ==
  ~outage =>
    /\ healthy
    /\ ~breaker.open
    /\ \A c \in Callers : permit[c].stage # "opening"

GuardInv ==
  /\ GuardTypeOK
  /\ \A c \in Callers : RequestFits(c)
  /\ IdpFits
  /\ NoTrip

----------------------------------------------------------------------------
(* A step of one request. *)
LEMMA OneRequest ==
  ASSUME GuardTypeOK, NEW c \in Callers, NEW r \in Requests,
         req' = [req EXCEPT ![c] = r]
  PROVE  /\ req' \in [Callers -> Requests]
         /\ req'[c] = r
         /\ \A d \in Callers \ {c} : req'[d] = req[d]
  BY DEF GuardTypeOK

LEMMA IdleType ==
  ASSUME NEW answer \in Answers
  PROVE  /\ Idle(answer) \in Requests
         /\ Idle(answer).stage = "idle"
         /\ Idle(answer).verdict = "none"
         /\ Idle(answer).answer = answer
  BY TokenLifeAssumption
     DEF TokenLifeAssumption, Idle, Requests, Stages, Access, Verdicts

(* A step of c to another stage, with its other fields as they are. *)
LEMMA Staged ==
  ASSUME GuardTypeOK, NEW c \in Callers, NEW stage \in Stages, Goto(c, stage)
  PROVE  \E r \in Requests :
           /\ req' = [req EXCEPT ![c] = r]
           /\ r.stage = stage
           /\ r.write = req[c].write /\ r.claims = req[c].claims
           /\ r.age = req[c].age /\ r.verdict = req[c].verdict
           /\ r.good = req[c].good /\ r.answer = req[c].answer
  <1>. DEFINE r == [req[c] EXCEPT !.stage = stage]
  <1>1. req[c] \in Requests  BY DEF GuardTypeOK
  <1>2. /\ r \in Requests /\ r.stage = stage
        /\ r.write = req[c].write /\ r.claims = req[c].claims
        /\ r.age = req[c].age /\ r.verdict = req[c].verdict
        /\ r.good = req[c].good /\ r.answer = req[c].answer
    BY <1>1 DEF Requests
  <1>3. req' = [req EXCEPT ![c] = r]  BY DEF Goto
  <1>. HIDE DEF r
  <1>. QED  BY <1>2, <1>3

(* The others are where they were. *)
LEMMA RequestStep ==
  ASSUME GuardInv, NoTrip', NEW c \in Callers, NEW r \in Requests,
         req' = [req EXCEPT ![c] = r], UNCHANGED idp,
         \A d \in Callers \ {c} : permit'[d] = permit[d],
         RequestFits(c)'
  PROVE  GuardInv'
  <1>1. /\ req' \in [Callers -> Requests]
        /\ req'[c] = r
        /\ \A d \in Callers \ {c} : req'[d] = req[d]
    BY OneRequest DEF GuardInv
  <1>2. GuardTypeOK'  BY <1>1 DEF GuardInv, GuardTypeOK, idp
  <1>3. ASSUME NEW d \in Callers \ {c} PROVE RequestFits(d)'
    <2>1. RequestFits(d) /\ req'[d] = req[d] /\ permit'[d] = permit[d]
      BY <1>1 DEF GuardInv
    <2>. QED  BY <2>1 DEF RequestFits, PermitFits, DeservingFits, GoodFits,
                          LagFits, At, idp
  <1>4. IdpFits'  BY DEF GuardInv, IdpFits, idp
  <1>. QED  BY <1>2, <1>3, <1>4 DEF GuardInv

(* An answer to a request without a permit. *)
LEMMA AnswerStep ==
  ASSUME GuardInv, NoTrip', NEW c \in Callers, NEW answer \in Answers,
         Answer(c, answer), UNCHANGED idp, permit'[c].stage = "none",
         \A d \in Callers \ {c} : permit'[d] = permit[d]
  PROVE  GuardInv'
  <1>1. req' = [req EXCEPT ![c] = Idle(answer)]  BY DEF Answer
  <1>2. req'[c] = Idle(answer)
    BY <1>1, IdleType, OneRequest DEF GuardInv
  <1>3. RequestFits(c)'
    BY <1>2, IdleType DEF RequestFits, PermitFits, DeservingFits, GoodFits,
       LagFits, At, WithPermit, PastClaims
  <1>. QED  BY <1>1, <1>3, IdleType, RequestStep

LEMMA GuardInit == Init => GuardInv
  <1>. SUFFICES ASSUME Init PROVE GuardInv
    OBVIOUS
  <1>1. \A c \in Callers :
          /\ req[c] \in Requests
          /\ req[c].stage = "idle" /\ req[c].verdict = "none"
          /\ permit[c].stage = "none"
    BY IdleType DEF Init, Answers, Breaker!Init, Breaker!NoPermit
  <1>2. GuardTypeOK
    <2>1. req \in [Callers -> Requests]  BY <1>1 DEF Init
    <2>2. outage \in BOOLEAN /\ (~outage => healthy) /\ ~breaker.open
      BY DEF Init, Breaker!Init, Breaker!NewBreaker
    <2>. QED
      BY <2>1, <2>2, TokenLifeAssumption
         DEF TokenLifeAssumption, Init, GuardTypeOK
  <1>3. \A c \in Callers : RequestFits(c)
    BY <1>1 DEF RequestFits, PermitFits, DeservingFits, GoodFits, LagFits, At,
       WithPermit, PastClaims
  <1>4. IdpFits
    BY TokenLifeAssumption DEF TokenLifeAssumption, Init, IdpFits, Access
  <1>5. NoTrip
    BY <1>1 DEF Init, NoTrip, Breaker!Init, Breaker!NewBreaker
  <1>. QED  BY <1>2, <1>3, <1>4, <1>5 DEF GuardInv

----------------------------------------------------------------------------
(* What the breaker's steps do to permits, and to calm. *)

LEMMA PermitSteps ==
  ASSUME Breaker!TypeOK, NEW c \in Callers
  PROVE  /\ Breaker!AllowRequest(c)
              => permit[c].stage = "none" /\ permit'[c].stage = "out"
         /\ Breaker!RecordSuccess(c) \/ Breaker!RecordFailure(c)
              => /\ permit[c].stage = "out"
                 /\ permit'[c].stage \in {"closing", "opening", "settled"}
         /\ Breaker!FinishSuccess(c) \/ Breaker!FinishFailure(c)
              => /\ permit[c].stage \in {"closing", "opening"}
                 /\ permit'[c].stage = "settled"
         /\ Breaker!DropPermit(c) => permit'[c].stage = "none"
  <1>. permit \in [Callers -> Breaker!Permits]  BY DEF Breaker!TypeOK
  <1>. USE DEF Breaker!Advance, Breaker!NoPermit, Breaker!Permits
  <1>1. Breaker!AllowRequest(c) => permit[c].stage = "none" /\ permit'[c].stage = "out"
    BY DEF Breaker!AllowRequest
  <1>2. Breaker!RecordSuccess(c) \/ Breaker!RecordFailure(c)
          => /\ permit[c].stage = "out"
             /\ permit'[c].stage \in {"closing", "opening", "settled"}
    BY DEF Breaker!RecordSuccess, Breaker!RecordFailure
  <1>3. Breaker!FinishSuccess(c) \/ Breaker!FinishFailure(c)
          => /\ permit[c].stage \in {"closing", "opening"}
             /\ permit'[c].stage = "settled"
    BY DEF Breaker!FinishSuccess, Breaker!FinishFailure
  <1>4. Breaker!DropPermit(c) => permit'[c].stage = "none"
    BY DEF Breaker!DropPermit
  <1>. QED  BY <1>1, <1>2, <1>3, <1>4

LEMMA OthersPermits ==
  ASSUME Breaker!TypeOK, NEW c \in Callers,
         \/ Breaker!AllowRequest(c) \/ Breaker!RecordSuccess(c)
         \/ Breaker!FinishSuccess(c) \/ Breaker!RecordFailure(c)
         \/ Breaker!FinishFailure(c) \/ Breaker!DropPermit(c)
  PROVE  \A d \in Callers \ {c} : permit'[d] = permit[d]
  BY DEF Breaker!TypeOK, Breaker!AllowRequest, Breaker!RecordSuccess,
     Breaker!FinishSuccess, Breaker!RecordFailure, Breaker!FinishFailure,
     Breaker!DropPermit, Breaker!Advance

LEMMA OutageStep ==
  [Next]_vars => (~outage' => ~outage /\ healthy' = healthy) \/ outage'
  <1>1. Next => (UNCHANGED <<outage, healthy>>) \/ outage' = TRUE
    <2>1. ASSUME NEW c \in Callers,
                 \/ Arrive(c) \/ KeyUnusable(c) \/ KeySetUnavailable(c)
                 \/ TokenExpired(c) \/ ClaimsRefused(c) \/ ReadAuthorized(c)
                 \/ ClaimsAllow(c) \/ CircuitOpen(c) \/ IdpJudges(c)
                 \/ Decide(c) \/ CancelVerify(c)
          PROVE  UNCHANGED <<outage, healthy>>
      BY <2>1 DEF Arrive, KeyUnusable, KeySetUnavailable, TokenExpired,
         ClaimsRefused, ReadAuthorized, ClaimsAllow, CircuitOpen, IdpJudges,
         Decide, CancelVerify, Local, breakerVars, idp
    <2>2. ASSUME NEW c \in Callers,
                 \/ Introspect(c) \/ ReceiveVerdict(c) \/ ReceiveFailure(c)
                 \/ FinishReport(c) \/ FetchFailed(c) \/ FetchReturned(c)
                 \/ CancelIntrospect(c)
          PROVE  UNCHANGED <<outage, healthy>>
      BY <2>2 DEF Introspect, ReceiveVerdict, ReceiveFailure, FinishReport,
         FetchFailed, FetchReturned, CancelIntrospect, idp,
         Breaker!AllowRequest, Breaker!RecordSuccess, Breaker!FinishSuccess,
         Breaker!RecordFailure, Breaker!FinishFailure, Breaker!DropPermit,
         Breaker!Advance
    <2>3. AccessChanges \/ Mint \/ Tick => UNCHANGED <<outage, healthy>>
      BY DEF AccessChanges, Mint, Tick, Breaker!Tick, breakerVars
    <2>4. IdpChanges => outage' = TRUE  BY DEF IdpChanges
    <2>. QED  BY <2>1, <2>2, <2>3, <2>4 DEF Next
  <1>. QED  BY <1>1 DEF vars, breakerVars, idp

LEMMA StepNoTrip ==
  Proved!Inv /\ NoTrip /\ [Next]_vars => NoTrip'
  <1>. SUFFICES ASSUME Proved!Inv, NoTrip, [Next]_vars, ~outage' PROVE NoTrip'
    BY DEF NoTrip
  <1>1. ~outage /\ healthy' = healthy  BY OutageStep
  <1>2. healthy /\ Proved!Calm  BY <1>1 DEF NoTrip, Proved!Calm
  <1>3. [Proved!Next]_Proved!vars  BY DrivesStep, SameBreaker
  <1>4. Proved!Calm'
    BY <1>2, <1>3, BreakerAssumptions, Proved!StepCalm
  <1>. QED  BY <1>1, <1>2, <1>4 DEF NoTrip, Proved!Calm

----------------------------------------------------------------------------
(* The steps of a request. *)

LEMMA ArriveInv ==
  ASSUME GuardInv, NoTrip', NEW c \in Callers, Arrive(c) PROVE GuardInv'
  <1>1. PICK write \in BOOLEAN, a \in Access :
          req' = [req EXCEPT ![c] =
                    [stage |-> "verifying", write |-> write, claims |-> a,
                     age |-> minted[a], verdict |-> "none",
                     good |-> live = "granted", answer |-> "none"]]
    BY DEF Arrive
  <1>. DEFINE r == [stage |-> "verifying", write |-> write, claims |-> a,
                    age |-> minted[a], verdict |-> "none",
                    good |-> live = "granted", answer |-> "none"]
  <1>2. At(c, "idle") /\ UNCHANGED <<breakerVars, idp>>
    BY DEF Arrive, Local
  <1>3. /\ r \in Requests /\ r.stage = "verifying" /\ r.claims = a
        /\ r.age = minted[a] /\ r.verdict = "none"
        /\ live = "granted" => r.good
    <2>1. minted[a] \in 0..TokenLife  BY DEF GuardInv, GuardTypeOK
    <2>. DEFINE g == live = "granted"
    <2>2. g \in BOOLEAN  OBVIOUS
    <2>. HIDE DEF g
    <2>3. r = [stage |-> "verifying", write |-> write, claims |-> a,
               age |-> minted[a], verdict |-> "none", good |-> g,
               answer |-> "none"]
      BY DEF g
    <2>4. r \in Requests /\ r.stage = "verifying" /\ r.claims = a
          /\ r.age = minted[a] /\ r.verdict = "none" /\ r.good = g
      <3>. HIDE DEF r
      <3>. QED  BY <2>1, <2>2, <2>3 DEF Requests, Stages, Verdicts, Answers
    <2>. HIDE DEF r
    <2>. QED  BY <2>4 DEF g
  <1>. HIDE DEF r
  <1>4. req' = [req EXCEPT ![c] = r] /\ req'[c] = r
    BY <1>1, <1>3, OneRequest DEF GuardInv, r
  <1>5. RequestFits(c)'
    <2>1. RequestFits(c) /\ IdpFits  BY DEF GuardInv
    <2>2. permit'[c].stage = "none"
      BY <1>2, <2>1 DEF RequestFits, PermitFits, WithPermit, At, breakerVars
    <2>3. CheckAccess(a) => sinceGood <= minted[a]
      BY <2>1 DEF CheckAccess, IdpFits
    <2>4. live' = live /\ sinceGood' = sinceGood  BY <1>2 DEF idp
    <2>. QED
      BY <1>3, <1>4, <2>2, <2>3, <2>4 DEF RequestFits, PermitFits,
         DeservingFits, GoodFits, LagFits, At, WithPermit, PastClaims
  <1>. QED  BY <1>2, <1>3, <1>4, <1>5, RequestStep DEF breakerVars

(* An answer that touches neither the breaker nor the IdP. *)
LEMMA LocalAnswer ==
  ASSUME GuardInv, NoTrip', NEW c \in Callers, NEW answer \in Answers,
         Answer(c, answer), Local, req[c].stage \notin WithPermit
  PROVE  GuardInv'
  <1>1. permit'[c].stage = "none"
        /\ \A d \in Callers \ {c} : permit'[d] = permit[d]
    BY DEF GuardInv, RequestFits, PermitFits, Local, breakerVars
  <1>. QED  BY <1>1, AnswerStep DEF Local

LEMMA LocalAnswersInv ==
  ASSUME GuardInv, NoTrip', NEW c \in Callers,
         \/ KeyUnusable(c) \/ KeySetUnavailable(c) \/ TokenExpired(c)
         \/ ClaimsRefused(c) \/ ReadAuthorized(c) \/ CircuitOpen(c)
         \/ Decide(c) \/ CancelVerify(c)
  PROVE  GuardInv'
  <1>1. \E answer \in Answers : Answer(c, answer)
    <2>1. Ruling(req[c].verdict) \in Answers  BY DEF Ruling, Answers
    <2>. QED
      BY <2>1 DEF KeyUnusable, KeySetUnavailable, TokenExpired, ClaimsRefused,
         ReadAuthorized, CircuitOpen, Decide, CancelVerify, Answers
  <1>2. Local /\ req[c].stage \notin WithPermit
    BY DEF KeyUnusable, KeySetUnavailable, TokenExpired, ClaimsRefused,
       ReadAuthorized, CircuitOpen, Decide, CancelVerify, Verified, At,
       WithPermit
  <1>. QED  BY <1>1, <1>2, LocalAnswer

LEMMA ClaimsAllowInv ==
  ASSUME GuardInv, NoTrip', NEW c \in Callers, ClaimsAllow(c) PROVE GuardInv'
  <1>. DEFINE r == [[req[c] EXCEPT !.stage = "checked"] EXCEPT !.age = 0]
  <1>1. /\ At(c, "verifying") /\ req[c].write /\ CheckAccess(req[c].claims)
        /\ req' = [req EXCEPT ![c] = r] /\ UNCHANGED <<breakerVars, idp>>
    BY DEF ClaimsAllow, MayIntrospect, Verified, Local
  <1>2. req[c] \in Requests  BY DEF GuardInv, GuardTypeOK
  <1>3. /\ r \in Requests /\ r.stage = "checked"
        /\ r.write = req[c].write /\ r.claims = req[c].claims
        /\ r.verdict = req[c].verdict /\ r.good = req[c].good
    <2>1. 0 \in 0..TokenLife
      BY TokenLifeAssumption DEF TokenLifeAssumption
    <2>2. r \in Requests  BY <1>2, <2>1 DEF Requests, Stages
    <2>. QED  BY <1>2, <2>2 DEF Requests
  <1>. HIDE DEF r
  <1>4. req'[c] = r  BY <1>1, <1>3, OneRequest DEF GuardInv
  <1>5. RequestFits(c)  BY DEF GuardInv
  <1>6. RequestFits(c)'
    BY <1>1, <1>3, <1>4, <1>5 DEF RequestFits, PermitFits, DeservingFits,
       GoodFits, LagFits, At, WithPermit, PastClaims, breakerVars, idp
  <1>. QED  BY <1>1, <1>3, <1>6, RequestStep DEF breakerVars

LEMMA IdpJudgesInv ==
  ASSUME GuardInv, NoTrip', NEW c \in Callers, IdpJudges(c) PROVE GuardInv'
  <1>. DEFINE r == [[req[c] EXCEPT !.stage = "judged"] EXCEPT !.verdict = live]
  <1>1. /\ At(c, "introspecting") /\ req' = [req EXCEPT ![c] = r]
        /\ UNCHANGED <<breakerVars, idp>>
    BY DEF IdpJudges, Local
  <1>2. req[c] \in Requests /\ live \in Verdicts
    BY DEF GuardInv, GuardTypeOK
  <1>3. /\ r \in Requests /\ r.stage = "judged" /\ r.verdict = live
        /\ r.write = req[c].write /\ r.claims = req[c].claims
        /\ r.good = req[c].good
    BY <1>2 DEF Requests, Stages
  <1>. HIDE DEF r
  <1>4. req'[c] = r  BY <1>1, <1>3, OneRequest DEF GuardInv
  <1>5. RequestFits(c)  BY DEF GuardInv
  <1>6. RequestFits(c)'
    BY <1>1, <1>3, <1>4, <1>5 DEF RequestFits, PermitFits, DeservingFits,
       GoodFits, LagFits, At, WithPermit, PastClaims, breakerVars, idp
  <1>. QED  BY <1>1, <1>3, <1>6, RequestStep DEF breakerVars

(* A step to another stage, at which the permit is as it should be. *)
LEMMA GotoStep ==
  ASSUME GuardInv, NoTrip', NEW c \in Callers,
         NEW stage \in PastClaims, Goto(c, stage), UNCHANGED idp,
         req[c].stage \in PastClaims,
         permit'[c].stage # "none" <=> stage \in WithPermit,
         \A d \in Callers \ {c} : permit'[d] = permit[d]
  PROVE  GuardInv'
  <1>1. stage \in Stages  BY DEF PastClaims, WithPermit, Stages
  <1>2. PICK r \in Requests :
           /\ req' = [req EXCEPT ![c] = r]
           /\ r.stage = stage
           /\ r.write = req[c].write /\ r.claims = req[c].claims
           /\ r.age = req[c].age /\ r.verdict = req[c].verdict
           /\ r.good = req[c].good /\ r.answer = req[c].answer
    BY <1>1, Staged DEF GuardInv
  <1>3. req'[c] = r  BY <1>2, OneRequest DEF GuardInv
  <1>4. RequestFits(c)  BY DEF GuardInv
  <1>5. stage # "verifying" /\ stage # "idle" /\ req[c].stage # "idle"
    BY DEF PastClaims, WithPermit
  <1>6. RequestFits(c)'
    BY <1>2, <1>3, <1>4, <1>5 DEF RequestFits, PermitFits, DeservingFits,
       GoodFits, LagFits, At, idp
  <1>. QED  BY <1>2, <1>6, RequestStep

LEMMA FetchStepsInv ==
  ASSUME GuardInv, NoTrip', Breaker!TypeOK, NEW c \in Callers,
         \/ Introspect(c) \/ ReceiveVerdict(c) \/ ReceiveFailure(c)
         \/ FetchReturned(c)
  PROVE  GuardInv'
  <1>. USE DEF PastClaims, WithPermit
  <1>1. CASE Introspect(c)
    <2>1. Goto(c, "introspecting") /\ UNCHANGED idp /\ req[c].stage = "checked"
      BY <1>1 DEF Introspect, At
    <2>2. /\ permit'[c].stage # "none"
          /\ \A d \in Callers \ {c} : permit'[d] = permit[d]
      BY <1>1, PermitSteps, OthersPermits DEF Introspect
    <2>. QED  BY <2>1, <2>2, GotoStep
  <1>2. CASE ReceiveVerdict(c)
    <2>1. Goto(c, "received") /\ UNCHANGED idp /\ req[c].stage = "judged"
      BY <1>2 DEF ReceiveVerdict, At
    <2>2. /\ permit'[c].stage # "none"
          /\ \A d \in Callers \ {c} : permit'[d] = permit[d]
      BY <1>2, PermitSteps, OthersPermits DEF ReceiveVerdict
    <2>. QED  BY <2>1, <2>2, GotoStep
  <1>3. CASE ReceiveFailure(c)
    <2>1. /\ Goto(c, "failing") /\ UNCHANGED idp
          /\ req[c].stage \in {"introspecting", "judged"}
      BY <1>3 DEF ReceiveFailure
    <2>2. /\ permit'[c].stage # "none"
          /\ \A d \in Callers \ {c} : permit'[d] = permit[d]
      BY <1>3, PermitSteps, OthersPermits DEF ReceiveFailure
    <2>. QED  BY <2>1, <2>2, GotoStep
  <1>4. CASE FetchReturned(c)
    <2>1. Goto(c, "deciding") /\ UNCHANGED idp /\ req[c].stage = "received"
      BY <1>4 DEF FetchReturned, At
    <2>2. /\ permit'[c].stage = "none"
          /\ \A d \in Callers \ {c} : permit'[d] = permit[d]
      BY <1>4, PermitSteps, OthersPermits DEF FetchReturned
    <2>. QED  BY <2>1, <2>2, GotoStep
  <1>. QED  BY <1>1, <1>2, <1>3, <1>4

LEMMA FinishReportInv ==
  ASSUME GuardInv, NoTrip', Breaker!TypeOK, NEW c \in Callers, FinishReport(c)
  PROVE  GuardInv'
  <1>1. /\ UNCHANGED <<req, idp>>
        /\ permit[c].stage # "none" /\ permit'[c].stage # "none"
        /\ \A d \in Callers \ {c} : permit'[d] = permit[d]
    BY PermitSteps, OthersPermits DEF FinishReport
  <1>2. \A d \in Callers : RequestFits(d)'
    BY <1>1 DEF GuardInv, RequestFits, PermitFits, DeservingFits, GoodFits,
       LagFits, At, idp
  <1>. QED
    BY <1>1, <1>2 DEF GuardInv, GuardTypeOK, IdpFits, idp

LEMMA DroppedInv ==
  ASSUME GuardInv, NoTrip', Breaker!TypeOK, NEW c \in Callers,
         FetchFailed(c) \/ CancelIntrospect(c)
  PROVE  GuardInv'
  BY PermitSteps, OthersPermits, AnswerStep DEF FetchFailed, CancelIntrospect, Answers

----------------------------------------------------------------------------
(* The steps of the IdP and of the clock. *)

LEMMA AccessChangesInv ==
  ASSUME GuardInv, NoTrip', AccessChanges PROVE GuardInv'
  <1>1. /\ live' \in Verdicts
        /\ sinceGood' = IF live' = "granted" THEN 0 ELSE sinceGood
        /\ req' = [c \in Callers |->
                     IF live' = "granted" /\ ~At(c, "idle")
                     THEN [req[c] EXCEPT !.good = TRUE] ELSE req[c]]
        /\ UNCHANGED <<breakerVars, minted, outage>>
    BY DEF AccessChanges
  <1>2. ASSUME NEW c \in Callers
        PROVE  /\ req'[c] \in Requests
               /\ req'[c].stage = req[c].stage
               /\ req'[c].write = req[c].write
               /\ req'[c].claims = req[c].claims
               /\ req'[c].age = req[c].age
               /\ req'[c].verdict = req[c].verdict
               /\ req[c].good => req'[c].good
               /\ live' = "granted" /\ ~At(c, "idle") => req'[c].good
    <2>1. req[c] \in Requests  BY DEF GuardInv, GuardTypeOK
    <2>2. CASE live' = "granted" /\ ~At(c, "idle")
      <3>1. req'[c] = [req[c] EXCEPT !.good = TRUE]  BY <1>1, <2>2
      <3>. QED  BY <2>1, <3>1 DEF Requests
    <2>3. CASE ~(live' = "granted" /\ ~At(c, "idle"))
      <3>1. req'[c] = req[c]  BY <1>1, <2>3
      <3>. QED  BY <2>1, <2>3, <3>1
    <2>. QED  BY <2>2, <2>3
  <1>3. sinceGood' \in 0..TokenLife /\ sinceGood' <= sinceGood
    BY <1>1, TokenLifeAssumption
       DEF TokenLifeAssumption, GuardInv, GuardTypeOK
  <1>4. GuardTypeOK'
    <2>1. req' \in [Callers -> Requests]  BY <1>1, <1>2
    <2>. QED  BY <1>1, <1>3, <2>1 DEF GuardInv, GuardTypeOK
  <1>5. ASSUME NEW c \in Callers PROVE RequestFits(c)'
    <2>1. RequestFits(c) /\ permit' = permit
      BY <1>1 DEF GuardInv, breakerVars
    <2>2. PermitFits(c)' /\ DeservingFits(c)' /\ GoodFits(c)'
      BY <1>2, <2>1
         DEF RequestFits, PermitFits, DeservingFits, GoodFits, At
    <2>3. req[c].age \in 0..TokenLife
      BY DEF GuardInv, GuardTypeOK, Requests
    <2>4. LagFits(c)'
      BY <1>2, <1>3, <2>1, <2>3, TokenLifeAssumption
         DEF TokenLifeAssumption, RequestFits, LagFits, At, GuardInv,
             GuardTypeOK
    <2>. QED  BY <2>2, <2>4 DEF RequestFits
  <1>6. IdpFits'
    BY <1>1, <1>3, TokenLifeAssumption
       DEF TokenLifeAssumption, GuardInv, GuardTypeOK, IdpFits, Access
  <1>. QED  BY <1>4, <1>5, <1>6 DEF GuardInv

LEMMA MintInv == ASSUME GuardInv, NoTrip', Mint PROVE GuardInv'
  <1>1. /\ minted' = [minted EXCEPT ![live] = 0] /\ live # "inactive"
        /\ UNCHANGED <<breakerVars, req, live, sinceGood, outage>>
    BY DEF Mint
  <1>2. /\ minted \in [Access -> 0..TokenLife] /\ live \in Access
        /\ 0 \in 0..TokenLife
    BY <1>1, TokenLifeAssumption
       DEF TokenLifeAssumption, GuardInv, GuardTypeOK, Verdicts
  <1>3. minted' \in [Access -> 0..TokenLife]  BY <1>1, <1>2
  <1>4. GuardTypeOK'  BY <1>1, <1>3 DEF GuardInv, GuardTypeOK
  <1>5. \A c \in Callers : RequestFits(c)'
    BY <1>1 DEF GuardInv, RequestFits, PermitFits, DeservingFits, GoodFits,
       LagFits, At, breakerVars
  <1>6. IdpFits'
    <2>1. CASE live = "granted"
      <3>1. minted'["granted"] = 0 /\ sinceGood = 0
        BY <1>1, <1>2, <2>1 DEF GuardInv, IdpFits
      <3>. QED  BY <1>1, <3>1 DEF IdpFits
    <2>2. CASE live # "granted"
      <3>1. minted'["granted"] = minted["granted"]
        BY <1>1, <1>2, <2>2 DEF Access
      <3>. QED  BY <1>1, <3>1 DEF GuardInv, IdpFits
    <2>. QED  BY <2>1, <2>2
  <1>. QED  BY <1>4, <1>5, <1>6 DEF GuardInv

LEMMA OlderKeeps ==
  ASSUME NEW n \in 0..TokenLife, NEW m \in 0..TokenLife, n <= m
  PROVE  /\ Older(n) \in 0..TokenLife
         /\ Older(n) <= Older(m)
         /\ 0 <= Older(n)
  BY TokenLifeAssumption DEF TokenLifeAssumption, Older

LEMMA TickInv == ASSUME GuardInv, NoTrip', Tick PROVE GuardInv'
  <1>1. /\ req' = [c \in Callers |->
                     IF At(c, "verifying")
                     THEN [req[c] EXCEPT !.age = Older(@)] ELSE req[c]]
        /\ minted' = [a \in Access |-> Older(minted[a])]
        /\ sinceGood' = IF live = "granted" THEN 0 ELSE Older(sinceGood)
        /\ UNCHANGED <<permit, healthy, live, outage>>
    BY DEF Tick, Breaker!Tick
  <1>2. sinceGood \in 0..TokenLife /\ minted \in [Access -> 0..TokenLife]
    BY DEF GuardInv, GuardTypeOK
  <1>3. ASSUME NEW c \in Callers
        PROVE  /\ req'[c] \in Requests
               /\ req'[c].stage = req[c].stage
               /\ req'[c].write = req[c].write
               /\ req'[c].claims = req[c].claims
               /\ req'[c].verdict = req[c].verdict
               /\ req'[c].good = req[c].good
               /\ At(c, "verifying") => req'[c].age = Older(req[c].age)
    <2>1. req[c] \in Requests /\ req[c].age \in 0..TokenLife
      BY DEF GuardInv, GuardTypeOK, Requests
    <2>2. CASE At(c, "verifying")
      <3>1. req'[c] = [req[c] EXCEPT !.age = Older(req[c].age)]
        BY <1>1, <2>2
      <3>2. Older(req[c].age) \in 0..TokenLife
        BY <2>1, TokenLifeAssumption DEF TokenLifeAssumption, Older
      <3>. QED  BY <2>1, <3>1, <3>2 DEF Requests
    <2>3. CASE ~At(c, "verifying")
      <3>1. req'[c] = req[c]  BY <1>1, <2>3
      <3>. QED  BY <2>1, <2>3, <3>1
    <2>. QED  BY <2>2, <2>3
  <1>4. \A n \in 0..TokenLife : Older(n) \in 0..TokenLife
    BY TokenLifeAssumption DEF TokenLifeAssumption, Older
  <1>5. sinceGood' \in 0..TokenLife /\ sinceGood' <= Older(sinceGood)
    BY <1>1, <1>2, <1>4, TokenLifeAssumption DEF TokenLifeAssumption
  <1>6. GuardTypeOK'
    <2>1. req' \in [Callers -> Requests]  BY <1>1, <1>3
    <2>2. minted' \in [Access -> 0..TokenLife]  BY <1>1, <1>2, <1>4
    <2>. QED  BY <1>1, <1>5, <2>1, <2>2 DEF GuardInv, GuardTypeOK
  <1>7. ASSUME NEW n \in 0..TokenLife, sinceGood <= n
        PROVE  sinceGood' <= Older(n)
    <2>1. Older(sinceGood) <= Older(n) /\ Older(n) \in 0..TokenLife
          /\ Older(sinceGood) \in 0..TokenLife
      BY <1>2, <1>4, <1>7, OlderKeeps
    <2>. QED  BY <1>5, <2>1, TokenLifeAssumption DEF TokenLifeAssumption
  <1>8. ASSUME NEW c \in Callers PROVE RequestFits(c)'
    <2>1. RequestFits(c)  BY DEF GuardInv
    <2>2. PermitFits(c)' /\ DeservingFits(c)' /\ GoodFits(c)'
      BY <1>1, <1>3, <2>1
         DEF RequestFits, PermitFits, DeservingFits, GoodFits, At
    <2>3. req[c].age \in 0..TokenLife
      BY DEF GuardInv, GuardTypeOK, Requests
    <2>4. LagFits(c)'
      BY <1>3, <1>7, <2>1, <2>3 DEF RequestFits, LagFits, At
    <2>. QED  BY <2>2, <2>4 DEF RequestFits
  <1>9. IdpFits'
    <2>1. sinceGood' <= minted'["granted"]
      BY <1>1, <1>2, <1>7 DEF GuardInv, IdpFits, Access
    <2>2. live' = "granted" => sinceGood' = 0  BY <1>1
    <2>. QED  BY <2>1, <2>2 DEF IdpFits
  <1>. QED  BY <1>6, <1>8, <1>9 DEF GuardInv

LEMMA IdpChangesInv ==
  ASSUME GuardInv, NoTrip', IdpChanges PROVE GuardInv'
  BY DEF IdpChanges, Breaker!IdpChanges, GuardInv, GuardTypeOK, RequestFits,
     PermitFits, DeservingFits, GoodFits, LagFits, At, IdpFits

LEMMA StutterInv == ASSUME GuardInv, UNCHANGED vars PROVE GuardInv'
  BY DEF vars, breakerVars, idp, GuardInv, GuardTypeOK, RequestFits,
     PermitFits, DeservingFits, GoodFits, LagFits, At, IdpFits, NoTrip

LEMMA GuardNext ==
  GuardInv /\ Breaker!TypeOK /\ Proved!Inv /\ [Next]_vars => GuardInv'
  <1>. SUFFICES ASSUME GuardInv, Breaker!TypeOK, Proved!Inv, [Next]_vars
                PROVE  GuardInv'
    OBVIOUS
  <1>t. NoTrip'  BY StepNoTrip DEF GuardInv
  <1>1. ASSUME NEW c \in Callers, Arrive(c) PROVE GuardInv'
    BY <1>t, <1>1, ArriveInv
  <1>2. ASSUME NEW c \in Callers,
               \/ KeyUnusable(c) \/ KeySetUnavailable(c) \/ TokenExpired(c)
               \/ ClaimsRefused(c) \/ ReadAuthorized(c) \/ CircuitOpen(c)
               \/ Decide(c) \/ CancelVerify(c)
        PROVE  GuardInv'
    BY <1>t, <1>2, LocalAnswersInv
  <1>3. ASSUME NEW c \in Callers, ClaimsAllow(c) PROVE GuardInv'
    BY <1>t, <1>3, ClaimsAllowInv
  <1>4. ASSUME NEW c \in Callers, IdpJudges(c) PROVE GuardInv'
    BY <1>t, <1>4, IdpJudgesInv
  <1>5. ASSUME NEW c \in Callers,
               \/ Introspect(c) \/ ReceiveVerdict(c) \/ ReceiveFailure(c)
               \/ FetchReturned(c)
        PROVE  GuardInv'
    BY <1>t, <1>5, FetchStepsInv
  <1>6. ASSUME NEW c \in Callers, FinishReport(c) PROVE GuardInv'
    BY <1>t, <1>6, FinishReportInv
  <1>7. ASSUME NEW c \in Callers, FetchFailed(c) \/ CancelIntrospect(c)
        PROVE  GuardInv'
    BY <1>t, <1>7, DroppedInv
  <1>8. CASE AccessChanges  BY <1>t, <1>8, AccessChangesInv
  <1>9. CASE Mint  BY <1>t, <1>9, MintInv
  <1>10. CASE Tick  BY <1>t, <1>10, TickInv
  <1>11. CASE IdpChanges  BY <1>t, <1>11, IdpChangesInv
  <1>12. CASE UNCHANGED vars  BY <1>12, StutterInv
  <1>. QED
    BY <1>1, <1>2, <1>3, <1>4, <1>5, <1>6, <1>7, <1>8, <1>9, <1>10, <1>11,
       <1>12 DEF Next

LEMMA SpecInv == Spec => [](GuardInv /\ Breaker!TypeOK)
  <1>1. Spec => Proved!Spec
    BY DrivesInit, DrivesStep, SameBreaker, PTL DEF Spec, Proved!Spec
  <1>2. Proved!Spec => []Proved!Inv
    BY BreakerAssumptions, Proved!SpecInv, PTL
  <1>3. Spec => []Breaker!TypeOK
    BY GuardKeepsCustody, PTL
  <1>. QED  BY <1>1, <1>2, <1>3, GuardInit, GuardNext, PTL DEF Spec

----------------------------------------------------------------------------
(* The state is well formed, and no permit is out for a request that its   *)
(* claims refuse nor for a read: "a request refused here is never          *)
(* introspected" (guard.rs:244-254).                                       *)
THEOREM GuardConsistent == Spec => []Consistent
  <1>1. GuardInv /\ Breaker!TypeOK => Consistent
    BY DEF GuardInv, GuardTypeOK, TypeOK, Consistent,
       OnlyDeservingIntrospected, RequestFits, PermitFits, DeservingFits,
       PastClaims
  <1>. QED  BY <1>1, SpecInv, PTL

(* Before the IdP first fails to answer, no write that its claims allow is *)
(* turned away by the breaker, whatever the verdicts and whoever is        *)
(* cancelled (contract/README.md rule 7; introspect_client.rs:170-173).    *)
THEOREM GuardMissesNoVerdict == Spec => []NoVerdictMissed
  <1>1. GuardInv => NoVerdictMissed
    BY DEF GuardInv, NoTrip, NoVerdictMissed, Breaker!Allows
  <1>. QED  BY <1>1, SpecInv, PTL

----------------------------------------------------------------------------
(* Who is authorized.                                                      *)

(* Only a read whose claims allow it, and a write whose verdict does, are  *)
(* authorized.                                                             *)
LEMMA AuthorizingSteps ==
  ASSUME GuardInv, [Next]_vars, NEW c \in Callers, Answered(c, "authorized")
  PROVE  \/ ReadAuthorized(c)
         \/ Decide(c) /\ Ruling(req[c].verdict) = "authorized"
  <1>1. /\ req \in [Callers -> Requests]
        /\ req[c].answer = "none" /\ req'[c].answer = "authorized"
    BY DEF GuardInv, GuardTypeOK, Answered
  <1>2. ASSUME NEW d \in Callers, Arrive(d) PROVE FALSE
    BY <1>1, <1>2 DEF Arrive
  <1>3. ASSUME NEW d \in Callers, NEW answer \in Answers, Answer(d, answer)
        PROVE  d = c /\ answer = "authorized"
    <2>1. req' = [req EXCEPT ![d] = Idle(answer)]  BY <1>3 DEF Answer
    <2>2. Idle(answer).answer = answer  BY DEF Idle
    <2>. QED  BY <1>1, <2>1, <2>2
  <1>4. ASSUME NEW d \in Callers,
               \/ KeyUnusable(d) \/ KeySetUnavailable(d) \/ TokenExpired(d)
               \/ ClaimsRefused(d) \/ CircuitOpen(d) \/ CancelVerify(d)
               \/ FetchFailed(d) \/ CancelIntrospect(d)
        PROVE  FALSE
    <2>1. \/ Answer(d, "unauthorized") \/ Answer(d, "unavailable")
          \/ Answer(d, "forbidden") \/ Answer(d, "none")
      BY <1>4 DEF KeyUnusable, KeySetUnavailable, TokenExpired, ClaimsRefused,
         CircuitOpen, CancelVerify, FetchFailed, CancelIntrospect
    <2>. QED  BY <1>3, <2>1 DEF Answers
  <1>5. ASSUME NEW d \in Callers, ReadAuthorized(d) PROVE ReadAuthorized(c)
    BY <1>3, <1>5 DEF ReadAuthorized, Answers
  <1>6. ASSUME NEW d \in Callers, Decide(d)
        PROVE  Decide(c) /\ Ruling(req[c].verdict) = "authorized"
    <2>. DEFINE answer == Ruling(req[d].verdict)
    <2>1. Answer(d, answer)  BY <1>6 DEF Decide
    <2>2. answer \in Answers  BY DEF Ruling, Answers
    <2>3. d = c /\ answer = "authorized"
      <3>. HIDE DEF answer
      <3>. QED  BY <1>3, <2>1, <2>2
    <2>. QED  BY <1>6, <2>3
  <1>7. ASSUME NEW d \in Callers, ClaimsAllow(d) \/ IdpJudges(d) PROVE FALSE
    <2>. DEFINE r == [[req[d] EXCEPT !.stage = "checked"] EXCEPT !.age = 0]
                s == [[req[d] EXCEPT !.stage = "judged"]
                        EXCEPT !.verdict = live]
    <2>1. req' = [req EXCEPT ![d] = r] \/ req' = [req EXCEPT ![d] = s]
      BY <1>7 DEF ClaimsAllow, IdpJudges
    <2>2. req[d] \in Requests  BY <1>1
    <2>3. r.answer = req[d].answer /\ s.answer = req[d].answer
      BY <2>2 DEF Requests
    <2>. HIDE DEF r, s
    <2>. QED  BY <1>1, <2>1, <2>3
  <1>8. ASSUME NEW d \in Callers,
               \/ Introspect(d) \/ ReceiveVerdict(d) \/ ReceiveFailure(d)
               \/ FetchReturned(d)
        PROVE  FALSE
    <2>1. PICK stage \in Stages : Goto(d, stage)
      BY <1>8 DEF Introspect, ReceiveVerdict, ReceiveFailure, FetchReturned,
         Stages
    <2>. QED  BY <1>1, <2>1 DEF Goto, Requests
  <1>9. CASE AccessChanges  BY <1>1, <1>9 DEF AccessChanges, Requests
  <1>10. CASE Tick  BY <1>1, <1>10 DEF Tick, Requests
  <1>11. (\E d \in Callers : FinishReport(d)) \/ Mint \/ IdpChanges
         \/ UNCHANGED vars
           => UNCHANGED req
    BY DEF FinishReport, Mint, IdpChanges, vars
  <1>. QED
    BY <1>1, <1>2, <1>4, <1>5, <1>6, <1>7, <1>8, <1>9, <1>10, <1>11 DEF Next

(* A write is authorized only if, at some moment between its arrival and   *)
(* its answer, the IdP held the admin active and granted: a revocation     *)
(* before the request arrives always bites (guard.rs:253-276).             *)
THEOREM GuardRevocationBites == Spec => RevocationBites
  <1>1. ASSUME GuardInv, [Next]_vars, NEW c \in Callers,
               req[c].write, Answered(c, "authorized")
        PROVE  req[c].good
    <2>1. Ruling(req[c].verdict) = "authorized"
      BY <1>1, AuthorizingSteps DEF ReadAuthorized
    <2>2. req[c].verdict = "granted"
      BY <2>1 DEF Ruling, CheckAccess
    <2>. QED  BY <1>1, <2>2 DEF GuardInv, RequestFits, GoodFits
  <1>2. GuardInv /\ [Next]_vars
          => [\A c \in Callers :
                req[c].write /\ Answered(c, "authorized") => req[c].good]_vars
    BY <1>1
  <1>. QED  BY <1>2, SpecInv, PTL DEF Spec, RevocationBites

(* A read is authorized only if the admin deserved access less than a      *)
(* token's life ago, however long its key was awaited (token.rs:146-155).  *)
THEOREM GuardReadsLag == Spec => ReadsLagOneTokenLife
  <1>1. ASSUME GuardInv, [Next]_vars, NEW c \in Callers,
               ~req[c].write, Answered(c, "authorized")
        PROVE  sinceGood < TokenLife
    <2>1. ReadAuthorized(c)
      BY <1>1, AuthorizingSteps DEF Decide, GuardInv, RequestFits,
         DeservingFits, PastClaims, At
    <2>2. ~(req[c].age >= TokenLife) /\ sinceGood <= req[c].age
      BY <1>1, <2>1 DEF ReadAuthorized, Verified, Expired, GuardInv,
         RequestFits, LagFits
    <2>3. req[c].age \in 0..TokenLife /\ sinceGood \in 0..TokenLife
      BY <1>1 DEF GuardInv, GuardTypeOK, Requests
    <2>. QED
      BY <2>2, <2>3, TokenLifeAssumption DEF TokenLifeAssumption
  <1>2. GuardInv /\ [Next]_vars
          => [\A c \in Callers :
                ~req[c].write /\ Answered(c, "authorized")
                  => sinceGood < TokenLife]_vars
    BY <1>1
  <1>. QED  BY <1>2, SpecInv, PTL DEF Spec, ReadsLagOneTokenLife
=============================================================================
