----------------------- MODULE AdminJwksClient_proofs -----------------------
(***************************************************************************)
(* The key-set client, for any number of callers and kids and any          *)
(* configuration: it makes one fetch at a time and lends one probe at a    *)
(* time, its answers say what is known of the key, fetches keep the floor's*)
(* distance, a joiner hears its leader and a rotated-out key dies in time. *)
(***************************************************************************)
EXTENDS JwksEnvironment, BreakerOps_proofs

(* The parts of SingleFlight and ProbeCustody. *)
FlagHasLeader == fetching <=> \E c \in Callers : HoldsLease(c)

OneLeader == \A c, d \in Callers : HoldsLease(c) /\ HoldsLease(d) => c = d

FlagHasHolder == breaker.probe <=> \E c \in Callers : HoldsProbe(c)

OneHolder == \A c, d \in Callers : HoldsProbe(c) /\ HoldsProbe(d) => c = d

(* The strengthening: only a call that led a fetch, and has not dropped its*)
(* permit yet, carries the probe.                                          *)
PermitStages == LeaseStages \union {"notifying", "returning"}

ProbeInPermit ==
  \A c \in Callers : HoldsProbe(c) => req[c].stage \in PermitStages

Custody ==
  FlagHasLeader /\ OneLeader /\ FlagHasHolder /\ OneHolder /\ ProbeInPermit

Inv == TypeOK /\ Custody

----------------------------------------------------------------------------
(* What the moves of one call do. *)

LEMMA RequestType ==
  ASSUME NEW stage \in Stages, NEW kid \in Kids \union {NoOne},
         NEW probe \in BOOLEAN, NEW got \in Responses, NEW answer \in Answers
  PROVE  /\ Request(stage, kid, probe, got, answer) \in Requests
         /\ Request(stage, kid, probe, got, answer).stage = stage
         /\ Request(stage, kid, probe, got, answer).probe = probe
  BY DEF Request, Requests

LEMMA NoResponseType == NoResponse \in Responses
  BY JwksAssumption DEF JwksAssumption, NoResponse, Responses

LEMMA IdleType ==
  ASSUME NEW answer \in Answers
  PROVE  /\ Idle(answer) \in Requests
         /\ Idle(answer).stage = "idle"
         /\ Idle(answer).probe = FALSE
  <1>1. "idle" \in Stages /\ NoOne \in Kids \union {NoOne}  BY DEF Stages
  <1>. QED  BY <1>1, RequestType, NoResponseType DEF Idle

LEMMA BecomeEffect ==
  ASSUME TypeOK, NEW c \in Callers, NEW r \in Requests, Become(c, r)
  PROVE  /\ req' \in [Callers -> Requests]
         /\ req'[c] = r
         /\ \A d \in Callers \ {c} : req'[d] = req[d]
  BY DEF TypeOK, Become

LEMMA GotoEffect ==
  ASSUME TypeOK, NEW c \in Callers, NEW stage \in Stages, Goto(c, stage)
  PROVE  /\ req' \in [Callers -> Requests]
         /\ req'[c].stage = stage
         /\ req'[c].probe = req[c].probe
         /\ \A d \in Callers \ {c} : req'[d] = req[d]
  BY DEF TypeOK, Goto, Requests

LEMMA RequestFields ==
  ASSUME TypeOK, NEW c \in Callers
  PROVE  /\ req[c].stage \in Stages
         /\ req[c].kid \in Kids \union {NoOne}
         /\ req[c].probe \in BOOLEAN
         /\ req[c].got \in Responses
         /\ req[c].answer \in Answers
  BY DEF TypeOK, Requests

LEMMA KeyOrType ==
  ASSUME NEW kid PROVE KeyOr(kid, "unavailable") \in Answers
  BY DEF KeyOr, Answers

(* A step of one call that neither takes nor gives back the lease or the   *)
(* probe keeps custody.                                                    *)
LEMMA CustodyKept ==
  ASSUME Custody, NEW c \in Callers,
         \A d \in Callers \ {c} : req'[d] = req[d],
         HoldsLease(c)' <=> HoldsLease(c),
         req'[c].probe = req[c].probe,
         req[c].probe => req'[c].stage \in PermitStages,
         fetching' = fetching,
         breaker'.probe = breaker.probe
  PROVE  Custody'
  <1>1. \A d \in Callers : /\ HoldsLease(d)' <=> HoldsLease(d)
                           /\ HoldsProbe(d)' <=> HoldsProbe(d)
    BY DEF HoldsLease, HoldsProbe
  <1>2. FlagHasLeader'  BY <1>1 DEF Custody, FlagHasLeader
  <1>3. OneLeader'  BY <1>1 DEF Custody, OneLeader
  <1>4. FlagHasHolder'  BY <1>1 DEF Custody, FlagHasHolder
  <1>5. OneHolder'  BY <1>1 DEF Custody, OneHolder
  <1>6. ProbeInPermit'  BY <1>1 DEF Custody, ProbeInPermit, HoldsProbe
  <1>. QED  BY <1>2, <1>3, <1>4, <1>5, <1>6 DEF Custody

LEMMA InitInv == Init => Inv
  <1>. SUFFICES ASSUME Init PROVE Inv
    OBVIOUS
  <1>1. Idle("none") \in Requests /\ Idle("none").stage = "idle"
        /\ Idle("none").probe = FALSE
    BY IdleType DEF Answers
  <1>2. NewCache \in Caches
    BY JwksAssumption
    DEF JwksAssumption, NewCache, Caches, Horizon
  <1>3. TypeOK  BY <1>1, <1>2, NewBreakerType DEF Init, TypeOK
  <1>4. Custody
    BY <1>1 DEF Init, Custody, FlagHasLeader, OneLeader, FlagHasHolder,
       OneHolder, ProbeInPermit, HoldsLease, LeaseStages, HoldsProbe, NewBreaker
  <1>. QED  BY <1>3, <1>4 DEF Inv

----------------------------------------------------------------------------
(* The steps, one lemma for each kind of move.                             *)

FollowerStages == Stages \ PermitStages

(* A call outside a fetch carries nothing. *)
LEMMA FollowerCarriesNothing ==
  ASSUME Inv, NEW c \in Callers, req[c].stage \in FollowerStages
  PROVE  ~HoldsLease(c) /\ req[c].probe = FALSE
  BY RequestFields
  DEF Inv, Custody, ProbeInPermit, HoldsProbe, HoldsLease, FollowerStages,
      PermitStages

(* It is answered, or its future is dropped. *)
LEMMA FollowerAnswered ==
  ASSUME Inv, NEW c \in Callers, req[c].stage \in FollowerStages,
         NEW answer \in Answers, Answer(c, answer),
         UNCHANGED <<cache, breaker, fetching, writer>>, waiters' \subseteq waiters
  PROVE  Inv'
  <1>1. /\ req' \in [Callers -> Requests]
        /\ req'[c] = Idle(answer)
        /\ \A d \in Callers \ {c} : req'[d] = req[d]
    BY IdleType, BecomeEffect DEF Inv, Answer
  <1>2. TypeOK'  BY <1>1 DEF Inv, TypeOK
  <1>3. req'[c].stage = "idle" /\ req'[c].probe = FALSE
    BY <1>1, IdleType
  <1>4. ~HoldsLease(c)'  BY <1>3 DEF HoldsLease, LeaseStages
  <1>5. Custody'
    BY <1>1, <1>3, <1>4, FollowerCarriesNothing, CustodyKept DEF Inv
  <1>. QED  BY <1>2, <1>5 DEF Inv

(* It moves on without an answer. *)
LEMMA FollowerMoves ==
  ASSUME Inv, NEW c \in Callers, req[c].stage \in FollowerStages,
         NEW stage \in FollowerStages, Goto(c, stage),
         UNCHANGED <<cache, breaker, fetching>>,
         waiters' \subseteq Callers, writer' \in Callers \union {NoOne}
  PROVE  Inv'
  <1>0. stage \in Stages /\ stage \notin LeaseStages
    BY DEF FollowerStages, PermitStages
  <1>1. /\ req' \in [Callers -> Requests]
        /\ req'[c].stage = stage
        /\ req'[c].probe = req[c].probe
        /\ \A d \in Callers \ {c} : req'[d] = req[d]
    BY <1>0, GotoEffect DEF Inv
  <1>2. TypeOK'  BY <1>1 DEF Inv, TypeOK
  <1>3. ~HoldsLease(c)'  BY <1>0, <1>1 DEF HoldsLease
  <1>4. Custody'
    BY <1>1, <1>3, FollowerCarriesNothing, CustodyKept DEF Inv
  <1>. QED  BY <1>2, <1>4 DEF Inv

(* The leader moves on and keeps what it has. *)
LEMMA LeaderMoves ==
  ASSUME Inv, NEW c \in Callers, NEW r \in Requests, Become(c, r),
         r.probe = req[c].probe,
         HoldsLease(c), r.stage \in LeaseStages,
         cache' \in Caches, breaker' \in BreakerStates,
         breaker'.probe = breaker.probe,
         UNCHANGED <<fetching, waiters, writer>>
  PROVE  Inv'
  <1>1. /\ req' \in [Callers -> Requests]
        /\ req'[c] = r
        /\ \A d \in Callers \ {c} : req'[d] = req[d]
    BY BecomeEffect DEF Inv
  <1>2. TypeOK'  BY <1>1 DEF Inv, TypeOK
  <1>3. Custody'
    BY <1>1, CustodyKept DEF Inv, HoldsLease, PermitStages
  <1>. QED  BY <1>2, <1>3 DEF Inv

LEMMA AskInv ==
  ASSUME Inv, NEW c \in Callers, NEW kid \in Kids, Ask(c, kid)
  PROVE  Inv'
  <1>. DEFINE r == Request("asked", kid, FALSE, NoResponse, "none")
  <1>1. r \in Requests /\ r.stage = "asked" /\ r.probe = FALSE
    <2>1. "asked" \in Stages /\ kid \in Kids \union {NoOne} /\ "none" \in Answers
      BY DEF Stages, Answers
    <2>. QED  BY <2>1, RequestType, NoResponseType, ZenonT(60)
  <1>2. /\ req' \in [Callers -> Requests]
        /\ req'[c] = r
        /\ \A d \in Callers \ {c} : req'[d] = req[d]
    <2>1. Become(c, r)  BY DEF Ask
    <2>. QED  BY <1>1, <2>1, BecomeEffect DEF Inv
  <1>. HIDE DEF r
  <1>3. req[c].stage \in FollowerStages
    BY DEF Ask, At, FollowerStages, Stages, PermitStages, LeaseStages
  <1>4. TypeOK'  BY <1>2 DEF Inv, TypeOK, Ask
  <1>5. ~HoldsLease(c)'  BY <1>1, <1>2 DEF HoldsLease, LeaseStages
  <1>6. fetching' = fetching /\ breaker'.probe = breaker.probe
    BY DEF Ask
  <1>7. Custody'
    BY <1>1, <1>2, <1>3, <1>5, <1>6, FollowerCarriesNothing, CustodyKept DEF Inv
  <1>. QED  BY <1>4, <1>7 DEF Inv

LEMMA FollowerInv ==
  ASSUME Inv, NEW c \in Callers,
         \/ FastPath(c) \/ RefreshedMeanwhile(c) \/ JoinFetch(c)
         \/ HeldByFloor(c) \/ HeldByBreaker(c)
         \/ Register(c) \/ Recheck(c) \/ Woken(c) \/ AnswerFromCache(c)
         \/ CancelFollower(c)
  PROVE  Inv'
  <1>. USE DEF At, FollowerStages, PermitStages, LeaseStages, Stages
  <1>t. waiters \subseteq Callers /\ writer \in Callers \union {NoOne}
    BY DEF Inv, TypeOK
  <1>1. CASE FastPath(c)
    <2>1. CASE Fresh(req[c].kid)
      BY <1>1, <2>1, FollowerAnswered DEF FastPath, Answers
    <2>2. CASE ~Fresh(req[c].kid)
      BY <1>1, <1>t, <2>2, FollowerMoves DEF FastPath
    <2>. QED  BY <2>1, <2>2
  <1>2. CASE RefreshedMeanwhile(c)
    BY <1>2, FollowerAnswered DEF RefreshedMeanwhile, Answers
  <1>3. CASE JoinFetch(c)
    BY <1>3, <1>t, FollowerMoves DEF JoinFetch
  <1>4. CASE HeldByFloor(c)
    <2>1. PICK answer \in Answers : Answer(c, answer)
      BY <1>4, KeyOrType DEF HeldByFloor, Answers
    <2>. QED  BY <1>4, <2>1, FollowerAnswered DEF HeldByFloor, MustDecide
  <1>5. CASE HeldByBreaker(c)
    <2>1. PICK answer \in Answers : Answer(c, answer)
      BY <1>5, KeyOrType DEF HeldByBreaker
    <2>. QED  BY <1>5, <2>1, FollowerAnswered DEF HeldByBreaker, MustDecide
  <1>6. CASE Register(c)
    BY <1>6, <1>t, FollowerMoves DEF Register
  <1>7. CASE Recheck(c)
    <2>1. CASE StillFetching
      BY <1>7, <1>t, <2>1, FollowerMoves DEF Recheck
    <2>2. CASE ~StillFetching
      BY <1>7, <1>t, <2>2, FollowerMoves DEF Recheck
    <2>. QED  BY <2>1, <2>2
  <1>8. CASE Woken(c)
    BY <1>8, <1>t, FollowerMoves DEF Woken
  <1>9. CASE AnswerFromCache(c)
    <2>1. PICK answer \in Answers : Answer(c, answer)
      BY <1>9, KeyOrType DEF AnswerFromCache, Answers
    <2>. QED  BY <1>9, <2>1, FollowerAnswered DEF AnswerFromCache
  <1>10. CASE CancelFollower(c)
    BY <1>10, FollowerAnswered DEF CancelFollower, Answers
  <1>. QED
    BY <1>1, <1>2, <1>3, <1>4, <1>5, <1>6, <1>7, <1>8, <1>9, <1>10

(* The lease and, if the breaker is half-open, the probe are taken.        *)
LEMMA StartFetchInv ==
  ASSUME Inv, NEW c \in Callers, StartFetch(c)
  PROVE  Inv'
  <1>. DEFINE r == Request("fetching", req[c].kid, LendsProbe(breaker),
                           NoResponse, "none")
  <1>b. breaker \in BreakerStates  BY DEF Inv, TypeOK
  <1>1. r \in Requests /\ r.stage = "fetching" /\ r.probe = LendsProbe(breaker)
    <2>1. /\ "fetching" \in Stages
          /\ "none" \in Answers
          /\ req[c].kid \in Kids \union {NoOne}
      BY RequestFields DEF Inv, Stages, Answers
    <2>2. LendsProbe(breaker) \in BOOLEAN  BY <1>b, LoanAndReturn
    <2>. QED  BY <2>1, <2>2, RequestType, NoResponseType
  <1>2. /\ req' \in [Callers -> Requests]
        /\ req'[c] = r
        /\ \A d \in Callers \ {c} : req'[d] = req[d]
    <2>1. Become(c, r)  BY DEF StartFetch
    <2>. QED  BY <1>1, <2>1, BecomeEffect DEF Inv
  <1>. HIDE DEF r
  <1>3. StampAttempt(cache) \in Caches
    <2>. USE JwksAssumption DEF JwksAssumption, Inv, TypeOK, Caches
    <2>1. [cache EXCEPT !.since = 0] \in Caches  OBVIOUS
    <2>2. \A d \in Caches : [d EXCEPT !.failed = TRUE] \in Caches  OBVIOUS
    <2>. QED  BY <2>1, <2>2 DEF StampAttempt
  <1>4. AfterAllow(breaker) \in BreakerStates  BY <1>b, SectionsKeepType
  <1>5. TypeOK'  BY <1>2, <1>3, <1>4 DEF Inv, TypeOK, StartFetch
  <1>6. /\ req[c].stage \in FollowerStages
        /\ ~fetching
    BY DEF StartFetch, MustDecide, At, FollowerStages, Stages, PermitStages,
           LeaseStages
  <1>7. \A d \in Callers : ~HoldsLease(d)
    BY <1>6 DEF Inv, Custody, FlagHasLeader
  <1>8. /\ HoldsLease(c)'
        /\ \A d \in Callers \ {c} : ~HoldsLease(d)'
    BY <1>1, <1>2, <1>7 DEF HoldsLease, LeaseStages
  <1>9. /\ HoldsProbe(c)' <=> LendsProbe(breaker)
        /\ ~HoldsProbe(c)
        /\ \A d \in Callers \ {c} : HoldsProbe(d)' <=> HoldsProbe(d)
    BY <1>1, <1>2, <1>6, FollowerCarriesNothing DEF HoldsProbe
  <1>10. LendsProbe(breaker) => \A d \in Callers : ~HoldsProbe(d)
    BY <1>b, LoanAndReturn DEF Inv, Custody, FlagHasHolder
  <1>11. breaker'.probe <=> breaker.probe \/ LendsProbe(breaker)
    BY <1>b, LoanAndReturn DEF StartFetch
  <1>12. FlagHasLeader'  BY <1>8 DEF FlagHasLeader, StartFetch
  <1>13. OneLeader'  BY <1>8 DEF OneLeader
  <1>14. FlagHasHolder'  BY <1>9, <1>11 DEF Inv, Custody, FlagHasHolder
  <1>15. OneHolder'  BY <1>9, <1>10 DEF Inv, Custody, OneHolder
  <1>16. ProbeInPermit'
    <2>1. req'[c].stage \in PermitStages
      BY <1>1, <1>2 DEF PermitStages, LeaseStages
    <2>. QED  BY <1>2, <1>9, <2>1 DEF Inv, Custody, ProbeInPermit
  <1>. QED
    BY <1>5, <1>12, <1>13, <1>14, <1>15, <1>16 DEF Inv, Custody

LEMMA LeaderInv ==
  ASSUME Inv, NEW c \in Callers,
         \/ FetchAnswers(c) \/ FetchFails(c)
         \/ CommitKeys(c) \/ CommitFailure(c) \/ CancelLeader(c)
  PROVE  Inv'
  <1>b. breaker \in BreakerStates /\ cache \in Caches  BY DEF Inv, TypeOK
  <1>f. /\ req[c].kid \in Kids \union {NoOne}
        /\ req[c].probe \in BOOLEAN
        /\ req[c].got \in Responses
    BY RequestFields DEF Inv
  <1>l. HoldsLease(c)
    BY DEF FetchAnswers, FetchFails, CommitKeys, CommitFailure, CancelLeader,
           At, HoldsLease, LeaseStages
  <1>s. {"fetching", "fetched", "releasing"} \subseteq Stages \intersect LeaseStages
    BY DEF Stages, LeaseStages
  <1>r. ASSUME NEW answer \in Answers, Release(c, answer),
               cache' \in Caches, breaker' \in BreakerStates,
               breaker'.probe = breaker.probe,
               UNCHANGED <<fetching, waiters, writer>>
        PROVE  Inv'
    <2>. DEFINE r == Request("releasing", req[c].kid, req[c].probe, NoResponse,
                             answer)
    <2>1. /\ r \in Requests
          /\ r.stage \in LeaseStages
          /\ r.probe = req[c].probe
      <3>1. NoResponse \in Responses  BY NoResponseType
      <3>2. "releasing" \in Stages /\ "releasing" \in LeaseStages  BY <1>s
      <3>3. answer \in Answers  BY <1>r
      <3>. QED  BY <1>f, <3>1, <3>2, <3>3, RequestType
    <2>2. Become(c, r)  BY <1>r DEF Release
    <2>. HIDE DEF r
    <2>. QED  BY <1>l, <1>r, <2>1, <2>2, LeaderMoves
  <1>1. CASE FetchAnswers(c)
    <2>1. PICK keys \in SUBSET Kids, ttl \in AdvertisedTtls :
            Become(c, Request("fetched", req[c].kid, req[c].probe,
                     [ok |-> TRUE, keys |-> keys, ttl |-> Lifetime(ttl)], "none"))
      BY <1>1 DEF FetchAnswers
    <2>. DEFINE got == [ok |-> TRUE, keys |-> keys, ttl |-> Lifetime(ttl)]
                r == Request("fetched", req[c].kid, req[c].probe, got, "none")
    <2>2. got \in Responses
      <3>1. Lifetime(ttl) \in 0..MaxTtl
        BY JwksAssumption DEF JwksAssumption, Lifetime, AtMost
      <3>. QED  BY <3>1 DEF Responses
    <2>3. /\ r \in Requests
          /\ r.stage \in LeaseStages
          /\ r.probe = req[c].probe
      <3>. HIDE DEF got
      <3>1. "none" \in Answers  BY DEF Answers
      <3>2. "fetched" \in Stages /\ "fetched" \in LeaseStages  BY <1>s
      <3>. QED  BY <1>f, <2>2, <3>1, <3>2, RequestType
    <2>4. Become(c, r)  BY <2>1
    <2>. HIDE DEF r
    <2>. QED  BY <1>1, <1>b, <1>l, <2>3, <2>4, LeaderMoves DEF FetchAnswers
  <1>2. CASE FetchFails(c)
    <2>1. Goto(c, "fetched") /\ UNCHANGED <<cache, breaker, fetching, waiters, writer>>
      BY <1>2 DEF FetchFails
    <2>2. /\ req' \in [Callers -> Requests]
          /\ req'[c].stage = "fetched"
          /\ req'[c].probe = req[c].probe
          /\ \A d \in Callers \ {c} : req'[d] = req[d]
      BY <1>s, <2>1, GotoEffect DEF Inv
    <2>3. TypeOK'  BY <2>1, <2>2 DEF Inv, TypeOK
    <2>4. HoldsLease(c)' /\ req'[c].stage \in PermitStages
      BY <2>2 DEF HoldsLease, PermitStages, LeaseStages
    <2>5. Custody'
      BY <1>l, <2>1, <2>2, <2>4, CustodyKept DEF Inv
    <2>. QED  BY <2>3, <2>5 DEF Inv
  <1>3. CASE CommitKeys(c)
    <2>1. /\ breaker' \in BreakerStates
          /\ breaker'.probe = breaker.probe
      <3>1. ResetRun(breaker) \in BreakerStates
            /\ ResetRun(breaker).probe = breaker.probe
        BY <1>b, SectionsKeepType, ReportsKeepProbe
      <3>. QED  BY <1>3, <3>1, SectionsKeepType, ReportsKeepProbe
                DEF CommitKeys, Recovered
    <2>2. cache' \in Caches
      BY <1>3, <1>b, <1>f, JwksAssumption
      DEF CommitKeys, Replaced, Caches, Responses, Horizon, JwksAssumption
    <2>3. PICK answer \in Answers : Release(c, answer)
      BY <1>3 DEF CommitKeys, Answers
    <2>. QED  BY <1>3, <1>r, <2>1, <2>2, <2>3 DEF CommitKeys
  <1>4. CASE CommitFailure(c)
    <2>1. /\ breaker' \in BreakerStates
          /\ breaker'.probe = breaker.probe
      <3>1. CountFailure(breaker) \in BreakerStates
            /\ CountFailure(breaker).probe = breaker.probe
        BY <1>b, SectionsKeepType, ReportsKeepProbe
      <3>2. OpenGate(CountFailure(breaker), req[c].probe) \in BreakerStates
            /\ OpenGate(CountFailure(breaker), req[c].probe).probe = breaker.probe
        BY <1>f, <3>1, SectionsKeepType, ReportsKeepProbe
      <3>. QED  BY <1>4, <3>1, <3>2 DEF CommitFailure, Failed
    <2>2. PICK answer \in Answers : Release(c, answer)
      BY <1>4, KeyOrType DEF CommitFailure
    <2>. QED  BY <1>4, <1>b, <1>r, <2>1, <2>2 DEF CommitFailure
  <1>5. CASE CancelLeader(c)
    BY <1>5, <1>b, <1>r DEF CancelLeader, Answers
  <1>. QED  BY <1>1, <1>2, <1>3, <1>4, <1>5

(* FetchLease::drop. *)
LEMMA LeaseDropInv ==
  ASSUME Inv, NEW c \in Callers, ClearFlag(c) \/ NotifyWaiters(c)
  PROVE  Inv'
  <1>1. CASE ClearFlag(c)
    <2>1. /\ req' \in [Callers -> Requests]
          /\ req'[c].stage = "notifying"
          /\ req'[c].probe = req[c].probe
          /\ \A d \in Callers \ {c} : req'[d] = req[d]
      BY <1>1, GotoEffect DEF Inv, ClearFlag, Stages
    <2>2. TypeOK'  BY <1>1, <2>1 DEF Inv, TypeOK, ClearFlag
    <2>3. HoldsLease(c)  BY <1>1 DEF ClearFlag, At, HoldsLease, LeaseStages
    <2>4. \A d \in Callers : ~HoldsLease(d)'
      BY <2>1, <2>3 DEF Inv, Custody, OneLeader, HoldsLease, LeaseStages
    <2>5. \A d \in Callers : HoldsProbe(d)' <=> HoldsProbe(d)
      BY <2>1 DEF HoldsProbe
    <2>6. FlagHasLeader' /\ OneLeader'
      BY <1>1, <2>4 DEF ClearFlag, FlagHasLeader, OneLeader
    <2>7. FlagHasHolder' /\ OneHolder'
      BY <1>1, <2>5 DEF ClearFlag, Inv, Custody, FlagHasHolder, OneHolder
    <2>8. ProbeInPermit'
      BY <2>1, <2>5 DEF Inv, Custody, ProbeInPermit, PermitStages
    <2>. QED  BY <2>2, <2>6, <2>7, <2>8 DEF Inv, Custody
  <1>2. CASE NotifyWaiters(c)
    <2>1. /\ req' \in [Callers -> Requests]
          /\ req'[c].stage = "returning"
          /\ req'[c].probe = req[c].probe
          /\ \A d \in Callers \ {c} : req'[d] = req[d]
      BY <1>2, GotoEffect DEF Inv, NotifyWaiters, Stages
    <2>2. TypeOK'  BY <1>2, <2>1 DEF Inv, TypeOK, NotifyWaiters
    <2>3. ~HoldsLease(c) /\ ~HoldsLease(c)'
      BY <1>2, <2>1 DEF NotifyWaiters, At, HoldsLease, LeaseStages
    <2>4. Custody'
      BY <1>2, <2>1, <2>3, CustodyKept DEF Inv, NotifyWaiters, PermitStages
    <2>. QED  BY <2>2, <2>4 DEF Inv
  <1>. QED  BY <1>1, <1>2

(* RequestPermit::drop. *)
LEMMA DropPermitInv ==
  ASSUME Inv, NEW c \in Callers, DropPermit(c)
  PROVE  Inv'
  <1>b. breaker \in BreakerStates  BY DEF Inv, TypeOK
  <1>1. req[c].answer \in Answers /\ req[c].probe \in BOOLEAN
    BY RequestFields DEF Inv
  <1>2. /\ req' \in [Callers -> Requests]
        /\ req'[c].stage = "idle"
        /\ req'[c].probe = FALSE
        /\ \A d \in Callers \ {c} : req'[d] = req[d]
    BY <1>1, IdleType, BecomeEffect DEF Inv, DropPermit, Answer
  <1>3. breaker' \in BreakerStates  BY <1>b, SectionsKeepType DEF DropPermit
  <1>4. TypeOK'  BY <1>2, <1>3 DEF Inv, TypeOK, DropPermit
  <1>5. \A d \in Callers : HoldsLease(d)' <=> HoldsLease(d)
    BY <1>2 DEF DropPermit, At, HoldsLease, LeaseStages
  <1>6. /\ ~HoldsProbe(c)'
        /\ \A d \in Callers \ {c} : HoldsProbe(d)' <=> HoldsProbe(d)
    BY <1>2 DEF HoldsProbe
  <1>7. breaker'.probe <=> breaker.probe /\ ~HoldsProbe(c)
    BY <1>b, LoanAndReturn DEF DropPermit, HoldsProbe
  <1>8. FlagHasLeader' /\ OneLeader'
    BY <1>5 DEF DropPermit, Inv, Custody, FlagHasLeader, OneLeader
  <1>9. FlagHasHolder' /\ OneHolder'
    BY <1>6, <1>7 DEF Inv, Custody, FlagHasHolder, OneHolder
  <1>10. ProbeInPermit'
    BY <1>2, <1>6 DEF Inv, Custody, ProbeInPermit
  <1>. QED  BY <1>4, <1>8, <1>9, <1>10 DEF Inv, Custody

LEMMA TickInv ==
  ASSUME Inv, Tick PROVE Inv'
  <1>b. breaker \in BreakerStates  BY DEF Inv, TypeOK
  <1>1. breaker' \in BreakerStates /\ breaker'.probe = breaker.probe
    BY <1>b, SectionsKeepType, ReportsKeepProbe DEF Tick
  <1>2. cache' \in Caches
    <2>. USE JwksAssumption DEF JwksAssumption, Inv, TypeOK, Caches, Horizon,
                                Older, AtMost
    <2>1. [cache EXCEPT !.age = Older(@, Horizon)] \in Caches  OBVIOUS
    <2>2. \A d \in Caches :
            [d EXCEPT !.since = Older(@, MinRefetch)] \in Caches  OBVIOUS
    <2>. QED  BY <2>1, <2>2 DEF Tick
  <1>3. TypeOK'  BY <1>1, <1>2 DEF Inv, TypeOK, Tick
  <1>4. Custody'
    BY <1>1 DEF Inv, Custody, Tick, FlagHasLeader, OneLeader, FlagHasHolder,
                OneHolder, ProbeInPermit, HoldsLease, HoldsProbe
  <1>. QED  BY <1>3, <1>4 DEF Inv

LEMMA NextInv == Inv /\ [Next]_vars => Inv'
  <1>. SUFFICES ASSUME Inv, [Next]_vars PROVE Inv'
    OBVIOUS
  <1>1. CASE Next
    BY <1>1, AskInv, FollowerInv, StartFetchInv, LeaderInv, LeaseDropInv,
       DropPermitInv, TickInv
    DEF Next, Run, FetchEnds, Cancel
  <1>2. CASE UNCHANGED vars
    BY <1>2 DEF vars, Inv, TypeOK, Custody, FlagHasLeader, OneLeader,
       FlagHasHolder, OneHolder, ProbeInPermit, HoldsLease, HoldsProbe
  <1>. QED  BY <1>1, <1>2

LEMMA SpecInv == Spec => []Inv
  BY InitInv, NextInv, PTL DEF Spec

----------------------------------------------------------------------------
(* Every state the client reaches is well formed; in particular no key set *)
(* is kept for longer than max_ttl.                                        *)
THEOREM TypeCorrect == Spec => []TypeOK
  <1>1. Inv => TypeOK  BY DEF Inv
  <1>. QED  BY <1>1, SpecInv, PTL

(* "Single flight. Set while exactly one task is out fetching"             *)
(* (jwks.rs:209-211), on every way out of a fetch, cancellation included.  *)
THEOREM OneFetch == Spec => []SingleFlight
  <1>1. Inv => SingleFlight
    BY DEF Inv, Custody, FlagHasLeader, OneLeader, SingleFlight
  <1>. QED  BY <1>1, SpecInv, PTL

(* The half-open probe is carried by one call and returned by it, although *)
(* the fetch's lease is dropped first.                                     *)
THEOREM OneProbe == Spec => []ProbeCustody
  <1>1. Inv => ProbeCustody
    BY DEF Inv, Custody, FlagHasHolder, OneHolder, ProbeCustody
  <1>. QED  BY <1>1, SpecInv, PTL

----------------------------------------------------------------------------
(* The fetch implements Lease.                                             *)

(* All but the start and the end of a fetch leave every lease as it is.    *)
LEMMA LeaseKept ==
  ASSUME Inv, NEW c \in Callers,
         \/ \E kid \in Kids : Ask(c, kid)
         \/ FastPath(c) \/ RefreshedMeanwhile(c) \/ JoinFetch(c)
         \/ HeldByFloor(c) \/ HeldByBreaker(c)
         \/ Register(c) \/ Recheck(c) \/ Woken(c) \/ AnswerFromCache(c)
         \/ CommitKeys(c) \/ CommitFailure(c)
         \/ NotifyWaiters(c) \/ DropPermit(c)
         \/ FetchEnds(c) \/ Cancel(c)
  PROVE  \A d \in Callers : HoldsLease(d)' <=> HoldsLease(d)
  <1>1. req \in [Callers -> Requests]  BY DEF Inv, TypeOK
  <1>2. PICK r : req' = [req EXCEPT ![c] = r]
    BY DEF Ask, FastPath, RefreshedMeanwhile, JoinFetch, HeldByFloor,
       HeldByBreaker, Register, Recheck, Woken, AnswerFromCache, CommitKeys,
       CommitFailure, NotifyWaiters, DropPermit, FetchEnds, FetchAnswers,
       FetchFails, Cancel, CancelFollower, CancelLeader, Release, Answer,
       Become, Goto
  <1>3. HoldsLease(c)' <=> HoldsLease(c)
    <2>. USE DEF HoldsLease, LeaseStages, At
    <2>1. ASSUME NEW answer, Answer(c, answer) PROVE req'[c].stage = "idle"
      BY <1>1, <2>1 DEF Answer, Become, Idle, Request
    <2>2. ASSUME NEW stage \in Stages, Goto(c, stage)
          PROVE  req'[c].stage = stage
      BY <2>2, GotoEffect DEF Inv
    <2>3. ASSUME NEW answer, Release(c, answer)
          PROVE  req'[c].stage = "releasing"
      BY <1>1, <2>3 DEF Release, Become, Request
    <2>4. CASE \E kid \in Kids : Ask(c, kid)
      BY <1>1, <2>4 DEF Ask, Become, Request
    <2>5. CASE FastPath(c) \/ RefreshedMeanwhile(c) \/ JoinFetch(c)
                \/ HeldByFloor(c) \/ HeldByBreaker(c)
      BY <2>1, <2>2, <2>5 DEF FastPath, RefreshedMeanwhile, JoinFetch,
         HeldByFloor, HeldByBreaker, MustDecide, Stages
    <2>6. CASE Register(c) \/ Recheck(c) \/ Woken(c) \/ AnswerFromCache(c)
                \/ NotifyWaiters(c) \/ DropPermit(c) \/ CancelFollower(c)
      BY <2>1, <2>2, <2>6 DEF Register, Recheck, Woken, AnswerFromCache,
         NotifyWaiters, DropPermit, CancelFollower, Stages
    <2>7. CASE CommitKeys(c) \/ CommitFailure(c) \/ CancelLeader(c)
      BY <2>3, <2>7 DEF CommitKeys, CommitFailure, CancelLeader
    <2>8. CASE FetchEnds(c)
      <3>1. CASE FetchAnswers(c)
        BY <1>1, <3>1 DEF FetchAnswers, Become, Request
      <3>2. CASE FetchFails(c)
        BY <2>2, <3>2 DEF FetchFails, Stages
      <3>. QED  BY <2>8, <3>1, <3>2 DEF FetchEnds
    <2>. QED  BY <2>4, <2>5, <2>6, <2>7, <2>8 DEF Cancel
  <1>. QED  BY <1>1, <1>2, <1>3 DEF HoldsLease

LEMMA LeaderIs ==
  ASSUME OneLeader
  PROVE  /\ \A c \in Callers : HoldsLease(c) => Leader = c
         /\ (\A c \in Callers : ~HoldsLease(c)) => Leader = NoOne
  BY DEF OneLeader, Leader

LEMMA StepLease == Inv /\ Inv' /\ [Next]_vars => [Flight!Next]_Leader
  <1>. SUFFICES ASSUME Inv, Inv', [Next]_vars PROVE [Flight!Next]_Leader
    OBVIOUS
  <1>i. /\ \A c \in Callers : HoldsLease(c) => Leader = c
        /\ (\A c \in Callers : ~HoldsLease(c)) => Leader = NoOne
    BY LeaderIs DEF Inv, Custody
  <1>j. /\ \A c \in Callers : HoldsLease(c)' => Leader' = c
        /\ (\A c \in Callers : ~HoldsLease(c)') => Leader' = NoOne
    BY DEF Inv, Custody, OneLeader, Leader
  <1>a. ASSUME \A c \in Callers : HoldsLease(c)' <=> HoldsLease(c)
        PROVE  UNCHANGED Leader
    BY <1>a, <1>i, <1>j
  <1>1. ASSUME NEW c \in Callers, StartFetch(c)
        PROVE  [Flight!Next]_Leader
    <2>1. \A d \in Callers : ~HoldsLease(d)
      BY <1>1 DEF StartFetch, MustDecide, Inv, Custody, FlagHasLeader
    <2>2. HoldsLease(c)'
      BY <1>1 DEF StartFetch, Become, Request, Inv, TypeOK, HoldsLease,
         LeaseStages
    <2>. QED  BY <1>i, <1>j, <2>1, <2>2 DEF Flight!Next, Flight!Acquire
  <1>2. ASSUME NEW c \in Callers, ClearFlag(c)
        PROVE  [Flight!Next]_Leader
    <2>1. HoldsLease(c)
      BY <1>2 DEF ClearFlag, At, HoldsLease, LeaseStages
    <2>2. ~fetching'  BY <1>2 DEF ClearFlag
    <2>3. \A d \in Callers : ~HoldsLease(d)'
      BY <2>2 DEF Inv, Custody, FlagHasLeader
    <2>4. Leader = c /\ Leader' = NoOne  BY <1>i, <1>j, <2>1, <2>3
    <2>. QED  BY <2>4, JwksAssumption
              DEF JwksAssumption, Flight!Next, Flight!Release
  <1>3. ASSUME NEW c \in Callers,
               \/ \E kid \in Kids : Ask(c, kid)
               \/ FastPath(c) \/ RefreshedMeanwhile(c) \/ JoinFetch(c)
               \/ HeldByFloor(c) \/ HeldByBreaker(c)
               \/ Register(c) \/ Recheck(c) \/ Woken(c) \/ AnswerFromCache(c)
               \/ CommitKeys(c) \/ CommitFailure(c)
               \/ NotifyWaiters(c) \/ DropPermit(c)
               \/ FetchEnds(c) \/ Cancel(c)
        PROVE  UNCHANGED Leader
    BY <1>3, <1>a, LeaseKept
  <1>4. CASE Tick \/ UNCHANGED vars
    BY <1>4, <1>a DEF Tick, vars, HoldsLease
  <1>. QED  BY <1>1, <1>2, <1>3, <1>4 DEF Next, Run

(* A fetch is a lease of one: begun only when none is under way, ended     *)
(* only by the task that began it, cancelled or not.                       *)
THEOREM ImplementsLease == Spec => FlightIsLease
  <1>1. Init => Flight!Init
    <2>. SUFFICES ASSUME Init PROVE Flight!Init
      OBVIOUS
    <2>1. \A c \in Callers : ~HoldsLease(c)
      BY DEF Init, HoldsLease, LeaseStages, Idle, Request
    <2>. QED  BY <2>1 DEF Flight!Init, Leader
  <1>2. Inv /\ Inv' /\ [Next]_vars => [Flight!Next]_Leader
    BY StepLease
  <1>. QED  BY <1>1, <1>2, SpecInv, PTL DEF Spec, FlightIsLease, Flight!Spec

----------------------------------------------------------------------------
(* What the answers rest on.                                               *)

(* The step of one task. *)
TaskStep(c) ==
  \/ \E kid \in Kids : Ask(c, kid)
  \/ Run(c)
  \/ FetchEnds(c)
  \/ Cancel(c)

LEMMA TaskFrame ==
  ASSUME TypeOK, NEW c \in Callers, TaskStep(c)
  PROVE  \A d \in Callers \ {c} : req'[d] = req[d]
  <1>1. req \in [Callers -> Requests]  BY DEF TypeOK
  <1>2. PICK r : req' = [req EXCEPT ![c] = r]
    BY DEF TaskStep, Run, Ask, FastPath, RefreshedMeanwhile, JoinFetch,
       HeldByFloor, HeldByBreaker, StartFetch, Register, Recheck, Woken,
       AnswerFromCache, CommitKeys, CommitFailure, ClearFlag, NotifyWaiters,
       DropPermit, FetchEnds, FetchAnswers, FetchFails, Cancel, CancelFollower,
       CancelLeader, Release, Answer, Become, Goto
  <1>. QED  BY <1>1, <1>2

(* Where each kind of step leaves the call.                                *)
LEMMA StepShapes ==
  ASSUME TypeOK, NEW c \in Callers
  PROVE  /\ \A answer : Answer(c, answer)
              => /\ req'[c].stage = "idle"
                 /\ req'[c].answer = answer
                 /\ req'[c].got = NoResponse
         /\ \A stage : Goto(c, stage)
              => /\ req'[c].stage = stage
                 /\ req'[c].kid = req[c].kid
                 /\ req'[c].answer = req[c].answer
                 /\ req'[c].got = req[c].got
         /\ \A answer : Release(c, answer)
              => /\ req'[c].stage = "releasing"
                 /\ req'[c].kid = req[c].kid
                 /\ req'[c].answer = answer
                 /\ req'[c].got = NoResponse
  <1>1. req \in [Callers -> Requests]  BY DEF TypeOK
  <1>2. \A r : Become(c, r) => req'[c] = r  BY <1>1 DEF Become
  <1>3. ASSUME NEW answer, Answer(c, answer)
        PROVE  /\ req'[c].stage = "idle"
               /\ req'[c].answer = answer
               /\ req'[c].got = NoResponse
    BY <1>2, <1>3 DEF Answer, Idle, Request
  <1>4. ASSUME NEW stage, Goto(c, stage)
        PROVE  /\ req'[c].stage = stage
               /\ req'[c].kid = req[c].kid
               /\ req'[c].answer = req[c].answer
               /\ req'[c].got = req[c].got
    <2>1. req'[c] = [req[c] EXCEPT !.stage = stage]
      BY <1>1, <1>4 DEF Goto
    <2>2. req[c] \in Requests  BY <1>1
    <2>. QED  BY <2>1, <2>2 DEF Requests
  <1>5. ASSUME NEW answer, Release(c, answer)
        PROVE  /\ req'[c].stage = "releasing"
               /\ req'[c].kid = req[c].kid
               /\ req'[c].answer = answer
               /\ req'[c].got = NoResponse
    BY <1>2, <1>5 DEF Release, Request
  <1>. QED  BY <1>3, <1>4, <1>5

(* A call is answered by one of these steps. *)
LEMMA OnlyAnswering ==
  ASSUME TypeOK, [Next]_vars, NEW c \in Callers,
         req[c].answer = "none", req'[c].answer # "none"
  PROVE  \/ FastPath(c) \/ RefreshedMeanwhile(c) \/ HeldByFloor(c)
         \/ HeldByBreaker(c) \/ AnswerFromCache(c)
         \/ CommitKeys(c) \/ CommitFailure(c)
  <1>1. TaskStep(c)
    <2>1. req' # req  OBVIOUS
    <2>2. PICK d \in Callers : TaskStep(d)
      BY <2>1 DEF Next, Tick, vars, TaskStep
    <2>. QED  BY <2>2, TaskFrame
  <1>. USE StepShapes
  <1>2. CASE \E kid \in Kids : Ask(c, kid)
    BY <1>2 DEF Ask, Become, Request, TypeOK
  <1>3. CASE FetchEnds(c)
    BY <1>3 DEF FetchEnds, FetchAnswers, FetchFails, Become, Request, TypeOK
  <1>4. CASE Cancel(c)
    BY <1>4 DEF Cancel, CancelFollower, CancelLeader
  <1>5. CASE Run(c)
    <2>1. ~JoinFetch(c) /\ ~Register(c) /\ ~Recheck(c) /\ ~Woken(c)
      BY DEF JoinFetch, Register, Recheck, Woken
    <2>2. ~StartFetch(c)
      BY DEF StartFetch, Become, Request, TypeOK
    <2>3. ~ClearFlag(c) /\ ~NotifyWaiters(c) /\ ~DropPermit(c)
      BY DEF ClearFlag, NotifyWaiters, DropPermit
    <2>. QED  BY <1>5, <2>1, <2>2, <2>3 DEF Run
  <1>. QED  BY <1>1, <1>2, <1>3, <1>4, <1>5 DEF TaskStep

(* Only the start of a fetch and the commit of its outcome write the cache,*)
(* open or close the breaker or count for it.                              *)
LEMMA OnlyWriting ==
  ASSUME TypeOK, NEW c \in Callers, TaskStep(c),
         ~StartFetch(c), ~CommitKeys(c), ~CommitFailure(c)
  PROVE  /\ cache' = cache
         /\ breaker'.open = breaker.open
         /\ breaker'.failures = breaker.failures
  <1>1. CASE DropPermit(c)
    BY <1>1 DEF DropPermit, ReturnProbe, TypeOK, BreakerStates
  <1>2. CASE ~DropPermit(c)
    BY <1>2 DEF TaskStep, Run, Ask, FastPath, RefreshedMeanwhile, JoinFetch,
       HeldByFloor, HeldByBreaker, Register, Recheck, Woken, AnswerFromCache,
       ClearFlag, NotifyWaiters, FetchEnds, FetchAnswers, FetchFails, Cancel,
       CancelFollower, CancelLeader
  <1>. QED  BY <1>1, <1>2

(* A call is in a fetch only by its start, and stays in it for its kid.    *)
FetchStages == {"fetching", "fetched"}

LEMMA OnlyFetching ==
  ASSUME TypeOK, NEW c \in Callers, TaskStep(c), ~StartFetch(c),
         req'[c].stage \in FetchStages
  PROVE  /\ FetchAnswers(c) \/ FetchFails(c)
         /\ req[c].stage = "fetching"
         /\ req'[c].kid = req[c].kid
  <1>. USE StepShapes DEF FetchStages
  <1>1. CASE \E kid \in Kids : Ask(c, kid)
    BY <1>1 DEF Ask, Become, Request, TypeOK
  <1>2. CASE FetchAnswers(c)
    <2>1. PICK got :
            Become(c, Request("fetched", req[c].kid, req[c].probe, got, "none"))
      BY <1>2 DEF FetchAnswers
    <2>2. req'[c].kid = req[c].kid
      BY <2>1 DEF Become, Request, TypeOK
    <2>. QED  BY <1>2, <2>2 DEF FetchAnswers, At
  <1>3. CASE FetchFails(c)
    BY <1>3 DEF FetchFails, At
  <1>4. CASE Cancel(c)
    BY <1>4 DEF Cancel, CancelFollower, CancelLeader
  <1>5. CASE Run(c)
    <2>1. ~FastPath(c) /\ ~RefreshedMeanwhile(c) /\ ~JoinFetch(c)
          /\ ~HeldByFloor(c) /\ ~HeldByBreaker(c)
      BY DEF FastPath, RefreshedMeanwhile, JoinFetch, HeldByFloor, HeldByBreaker
    <2>2. ~Register(c) /\ ~Recheck(c) /\ ~Woken(c) /\ ~AnswerFromCache(c)
      BY DEF Register, Recheck, Woken, AnswerFromCache
    <2>3. ~CommitKeys(c) /\ ~CommitFailure(c) /\ ~ClearFlag(c)
          /\ ~NotifyWaiters(c) /\ ~DropPermit(c)
      BY DEF CommitKeys, CommitFailure, ClearFlag, NotifyWaiters, DropPermit
    <2>. QED  BY <1>5, <2>1, <2>2, <2>3 DEF Run
  <1>. QED  BY <1>1, <1>2, <1>3, <1>4, <1>5 DEF TaskStep, FetchEnds

(* A task that fetches for a kid, and has not committed, found no fresh key*)
(* for it, and its own attempt has not succeeded yet.                      *)
LeaderFits(c) ==
  req[c].stage \in FetchStages => cache.failed /\ ~Fresh(req[c].kid)

(* The breaker is open only after an attempt that failed. *)
GateFits == breaker.open => cache.failed

(* A key set in hand, or on its way, lives for an advertised lifetime.     *)
Advertised(ttl) == \E max_age \in AdvertisedTtls : ttl = Lifetime(max_age)

LifetimeFits == cache.keys # {} => Advertised(cache.ttl)

ResponseFits(c) ==
  /\ At(c, "fetching") => ~req[c].got.ok
  /\ At(c, "fetched") /\ req[c].got.ok => Advertised(req[c].got.ttl)

(* A set that arrived is no older than the last attempt, as far as the     *)
(* floor can tell.                                                         *)
AttemptFits ==
  ~cache.failed =>
    \/ cache.keys = {}
    \/ cache.age <= cache.since
    \/ cache.since = MinRefetch

AnswerInv ==
  /\ Inv
  /\ \A c \in Callers : LeaderFits(c) /\ ResponseFits(c)
  /\ GateFits
  /\ LifetimeFits
  /\ AttemptFits

LEMMA InitAnswerInv == Init => AnswerInv
  <1>. SUFFICES ASSUME Init PROVE AnswerInv
    OBVIOUS
  <1>1. \A c \in Callers : req[c].stage = "idle"
    BY DEF Init, Idle, Request
  <1>. QED
    BY <1>1, InitInv DEF Init, AnswerInv, LeaderFits, ResponseFits, GateFits,
       LifetimeFits, AttemptFits, At, FetchStages, NewCache,
       NewBreaker

(* Sections of the breaker, as far as its gate and its run of failures. *)
LEMMA GateMoves ==
  ASSUME NEW b \in BreakerStates
  PROVE  /\ AfterAllow(b).open = b.open /\ AfterAllow(b).failures = b.failures
         /\ ~Recovered(b).open /\ Recovered(b).failures = 0
         /\ Elapse(b).open = b.open /\ Elapse(b).failures = b.failures
  BY DEF BreakerStates, AfterAllow, Recovered, ResetRun, CloseGate, SetGate,
         Elapse

LEMMA StartFetchAnswerInv ==
  ASSUME AnswerInv, NEW c \in Callers, StartFetch(c)
  PROVE  AnswerInv'
  <1>i. Inv /\ TypeOK /\ Inv'  BY StartFetchInv DEF AnswerInv, Inv
  <1>t. TaskStep(c)  BY DEF TaskStep, Run
  <1>1. \A d \in Callers \ {c} : req'[d] = req[d]
    BY <1>i, <1>t, TaskFrame
  <1>2. /\ req'[c].stage = "fetching"
        /\ req'[c].kid = req[c].kid
        /\ ~req'[c].got.ok
    BY <1>i DEF StartFetch, Become, Request, NoResponse, TypeOK
  <1>3. /\ cache'.keys = cache.keys
        /\ cache'.ttl = cache.ttl
        /\ cache'.age = cache.age
        /\ cache'.failed
    BY <1>i DEF StartFetch, StampAttempt, TypeOK, Caches
  <1>4. ~Fresh(req[c].kid)  BY DEF StartFetch, MustDecide
  <1>5. \A kid : Fresh(kid)' <=> Fresh(kid)  BY <1>3 DEF Fresh
  <1>6. ASSUME NEW d \in Callers PROVE LeaderFits(d)' /\ ResponseFits(d)'
    <2>1. CASE d = c
      BY <1>2, <1>3, <1>4, <1>5, <2>1
      DEF LeaderFits, ResponseFits, At, FetchStages, Fresh
    <2>2. CASE d # c
      BY <1>1, <1>3, <1>5, <2>2
      DEF AnswerInv, LeaderFits, ResponseFits, At, Fresh, Advertised
    <2>. QED  BY <2>1, <2>2
  <1>7. GateFits' /\ LifetimeFits' /\ AttemptFits'
    BY <1>3 DEF AnswerInv, GateFits, LifetimeFits, AttemptFits
  <1>. QED  BY <1>i, <1>6, <1>7 DEF AnswerInv

LEMMA CommitAnswerInv ==
  ASSUME AnswerInv, NEW c \in Callers, CommitKeys(c) \/ CommitFailure(c)
  PROVE  AnswerInv'
  <1>i. Inv /\ TypeOK /\ Inv'  BY LeaderInv DEF AnswerInv, Inv
  <1>t. TaskStep(c)  BY DEF TaskStep, Run
  <1>1. \A d \in Callers \ {c} : req'[d] = req[d]
    BY <1>i, <1>t, TaskFrame
  <1>2. req'[c].stage = "releasing"
    BY <1>i, StepShapes DEF CommitKeys, CommitFailure
  <1>3. \A d \in Callers \ {c} : req'[d].stage \notin FetchStages
    <2>1. HoldsLease(c)
      BY DEF CommitKeys, CommitFailure, At, HoldsLease, LeaseStages
    <2>2. \A d \in Callers \ {c} : ~HoldsLease(d)
      BY <1>i, <2>1 DEF Inv, Custody, OneLeader
    <2>. QED  BY <1>1, <2>2 DEF HoldsLease, LeaseStages, FetchStages
  <1>4. \A d \in Callers : LeaderFits(d)' /\ ResponseFits(d)'
    BY <1>2, <1>3 DEF LeaderFits, ResponseFits, At, FetchStages
  <1>5. CASE CommitKeys(c)
    <2>1. /\ cache'.keys = req[c].got.keys
          /\ cache'.ttl = req[c].got.ttl
          /\ cache'.age = 0
          /\ cache'.since = cache.since
      BY <1>5 DEF CommitKeys, Replaced
    <2>2. Advertised(req[c].got.ttl)
      BY <1>5 DEF CommitKeys, At, AnswerInv, ResponseFits
    <2>3. LifetimeFits'  BY <2>1, <2>2 DEF LifetimeFits, Advertised
    <2>4. cache.since \in Nat
      BY <1>i, JwksAssumption DEF JwksAssumption, TypeOK, Caches
    <2>5. AttemptFits'  BY <2>1, <2>4 DEF AttemptFits
    <2>6. breaker \in BreakerStates  BY <1>i DEF TypeOK
    <2>7. GateFits'  BY <1>5, <2>6, GateMoves DEF CommitKeys, GateFits
    <2>. QED  BY <1>i, <1>4, <2>3, <2>5, <2>7 DEF AnswerInv
  <1>6. CASE CommitFailure(c)
    <2>1. cache' = cache /\ cache.failed
      BY <1>6 DEF CommitFailure, At, AnswerInv, LeaderFits, FetchStages
    <2>2. GateFits' /\ LifetimeFits' /\ AttemptFits'
      BY <2>1 DEF AnswerInv, GateFits, LifetimeFits, Advertised, AttemptFits
    <2>. QED  BY <1>i, <1>4, <2>2 DEF AnswerInv
  <1>. QED  BY <1>5, <1>6

LEMMA OtherAnswerInv ==
  ASSUME AnswerInv, Inv', NEW c \in Callers, TaskStep(c),
         ~StartFetch(c), ~CommitKeys(c), ~CommitFailure(c)
  PROVE  AnswerInv'
  <1>i. TypeOK  BY DEF AnswerInv, Inv
  <1>1. cache' = cache /\ breaker'.open = breaker.open
    BY <1>i, OnlyWriting
  <1>2. \A d \in Callers \ {c} : req'[d] = req[d]
    BY <1>i, TaskFrame
  <1>3. \A kid : Fresh(kid)' <=> Fresh(kid)  BY <1>1 DEF Fresh
  <1>4. LeaderFits(c)' /\ ResponseFits(c)'
    <2>1. CASE req'[c].stage \in FetchStages
      <3>1. /\ FetchAnswers(c) \/ FetchFails(c)
            /\ req[c].stage = "fetching"
            /\ req'[c].kid = req[c].kid
        BY <1>i, <2>1, OnlyFetching
      <3>2. LeaderFits(c)'
        BY <1>1, <3>1 DEF AnswerInv, LeaderFits, FetchStages, Fresh
      <3>3. CASE FetchAnswers(c)
        <4>1. PICK keys \in SUBSET Kids, ttl \in AdvertisedTtls :
                Become(c, Request("fetched", req[c].kid, req[c].probe,
                  [ok |-> TRUE, keys |-> keys, ttl |-> Lifetime(ttl)], "none"))
          BY <3>3 DEF FetchAnswers
        <4>2. req'[c].got.ttl = Lifetime(ttl) /\ req'[c].stage = "fetched"
          BY <1>i, <4>1 DEF Become, Request, TypeOK
        <4>. QED  BY <3>2, <4>2 DEF ResponseFits, At, Advertised
      <3>4. CASE FetchFails(c)
        <4>1. ~req'[c].got.ok /\ req'[c].stage = "fetched"
          BY <1>i, <3>4, StepShapes DEF FetchFails, At, AnswerInv, ResponseFits
        <4>. QED  BY <3>2, <4>1 DEF ResponseFits, At
      <3>. QED  BY <3>1, <3>3, <3>4
    <2>2. CASE req'[c].stage \notin FetchStages
      BY <2>2 DEF LeaderFits, ResponseFits, At, FetchStages
    <2>. QED  BY <2>1, <2>2
  <1>5. ASSUME NEW d \in Callers PROVE LeaderFits(d)' /\ ResponseFits(d)'
    BY <1>1, <1>2, <1>4 DEF AnswerInv, LeaderFits, ResponseFits, At, Fresh,
       Advertised
  <1>6. GateFits' /\ LifetimeFits' /\ AttemptFits'
    BY <1>1 DEF AnswerInv, GateFits, LifetimeFits, Advertised, AttemptFits
  <1>. QED  BY <1>5, <1>6 DEF AnswerInv

(* Time can only make a key staler. *)
LEMMA KeysOnlyAge ==
  ASSUME TypeOK, Tick
  PROVE  /\ cache'.keys = cache.keys
         /\ cache'.ttl = cache.ttl
         /\ cache'.failed = cache.failed
         /\ cache'.age = Older(cache.age, Horizon)
         /\ cache'.since = Older(cache.since, MinRefetch)
         /\ \A kid : Fresh(kid)' => Fresh(kid)
  <1>1. /\ cache'.keys = cache.keys
        /\ cache'.ttl = cache.ttl
        /\ cache'.failed = cache.failed
        /\ cache'.age = Older(cache.age, Horizon)
        /\ cache'.since = Older(cache.since, MinRefetch)
    BY DEF Tick, TypeOK, Caches
  <1>2. /\ cache.age \in 0..Horizon
        /\ cache.ttl \in 0..MaxTtl
        /\ MaxTtl \in Nat
        /\ StaleGrace \in Nat
    BY JwksAssumption DEF JwksAssumption, TypeOK, Caches
  <1>3. cache'.age < cache.ttl => cache.age < cache.ttl
    BY <1>1, <1>2 DEF Older, AtMost, Horizon
  <1>. QED  BY <1>1, <1>3 DEF Fresh

LEMMA TickAnswerInv ==
  ASSUME AnswerInv, Tick PROVE AnswerInv'
  <1>i. Inv /\ TypeOK /\ Inv'  BY TickInv DEF AnswerInv, Inv
  <1>1. /\ cache'.keys = cache.keys
        /\ cache'.ttl = cache.ttl
        /\ cache'.failed = cache.failed
        /\ cache'.age = Older(cache.age, Horizon)
        /\ cache'.since = Older(cache.since, MinRefetch)
        /\ \A kid : Fresh(kid)' => Fresh(kid)
    BY <1>i, KeysOnlyAge
  <1>2. req' = req /\ breaker'.open = breaker.open
    BY <1>i, GateMoves DEF Tick, TypeOK
  <1>3. \A c \in Callers : LeaderFits(c)' /\ ResponseFits(c)'
    BY <1>1, <1>2 DEF AnswerInv, LeaderFits, ResponseFits, At, Advertised
  <1>4. GateFits' /\ LifetimeFits'
    BY <1>1, <1>2 DEF AnswerInv, GateFits, LifetimeFits, Advertised
  <1>5. AttemptFits'
    <2>1. /\ cache.age \in Nat
          /\ cache.since \in 0..MinRefetch
          /\ MinRefetch \in Nat
          /\ Horizon \in Nat
      BY <1>i, JwksAssumption DEF JwksAssumption, TypeOK, Caches, Horizon
    <2>2. cache.age <= cache.since \/ cache.since = MinRefetch
            => cache'.age <= cache'.since \/ cache'.since = MinRefetch
      BY <1>1, <2>1 DEF Older, AtMost
    <2>. QED  BY <1>1, <2>2 DEF AnswerInv, AttemptFits
  <1>. QED  BY <1>i, <1>3, <1>4, <1>5 DEF AnswerInv

LEMMA NextAnswerInv == AnswerInv /\ [Next]_vars => AnswerInv'
  <1>. SUFFICES ASSUME AnswerInv, [Next]_vars PROVE AnswerInv'
    OBVIOUS
  <1>1. Inv'  BY NextInv DEF AnswerInv
  <1>2. CASE Tick
    BY <1>2, TickAnswerInv
  <1>3. ASSUME NEW c \in Callers, TaskStep(c)
        PROVE  AnswerInv'
    BY <1>1, <1>3, StartFetchAnswerInv, CommitAnswerInv, OtherAnswerInv
  <1>4. CASE UNCHANGED vars
    BY <1>1, <1>4 DEF vars, AnswerInv, LeaderFits, ResponseFits, At, GateFits,
       LifetimeFits, Advertised, AttemptFits, Fresh
  <1>. QED  BY <1>2, <1>3, <1>4 DEF Next, TaskStep

LEMMA SpecAnswerInv == Spec => []AnswerInv
  BY InitAnswerInv, NextAnswerInv, PTL DEF Spec

(* The answer of each step that gives one. *)
LEMMA AnswersGiven ==
  ASSUME TypeOK, NEW c \in Callers
  PROVE  /\ FastPath(c) /\ req[c].answer = "none" /\ req'[c].answer # "none"
              => Fresh(req[c].kid) /\ req'[c].answer = "key"
         /\ RefreshedMeanwhile(c) => req'[c].answer = "key"
         /\ HeldByFloor(c)
              => req'[c].answer = IF cache.failed
                                  THEN KeyOr(req[c].kid, "unavailable")
                                  ELSE "unauthorized"
         /\ HeldByBreaker(c)
              => req'[c].answer = KeyOr(req[c].kid, "unavailable")
         /\ AnswerFromCache(c)
              => req'[c].answer = IF Fresh(req[c].kid) THEN "key"
                                  ELSE IF ~cache.failed THEN "unauthorized"
                                  ELSE KeyOr(req[c].kid, "unavailable")
         /\ CommitKeys(c)
              => req'[c].answer = IF req[c].kid \in req[c].got.keys
                                  THEN "key" ELSE "unauthorized"
         /\ CommitFailure(c)
              => req'[c].answer = KeyOr(req[c].kid, "unavailable")
  BY StepShapes DEF FastPath, RefreshedMeanwhile, HeldByFloor, HeldByBreaker,
     AnswerFromCache, CommitKeys, CommitFailure

(* "503 is for a request no key in hand can serve" (jwks.rs:241-251), on   *)
(* all four paths that give it.                                            *)
THEOREM RefusesOnlyWithoutKey == Spec => UnavailableMeansNoKey
  <1>1. ASSUME AnswerInv, [Next]_vars, NEW c \in Callers,
               Answered(c, "unavailable")
        PROVE  ~Fresh(req[c].kid) /\ ~StaleKey(req[c].kid)
    <2>i. TypeOK  BY <1>1 DEF AnswerInv, Inv
    <2>a. req[c].answer = "none" /\ req'[c].answer = "unavailable"
      BY <1>1 DEF Answered
    <2>g. /\ \/ FastPath(c) \/ RefreshedMeanwhile(c) \/ HeldByFloor(c)
             \/ HeldByBreaker(c) \/ AnswerFromCache(c)
             \/ CommitKeys(c) \/ CommitFailure(c)
          /\ ~FastPath(c) /\ ~RefreshedMeanwhile(c) /\ ~CommitKeys(c)
      BY <1>1, <2>i, <2>a, OnlyAnswering, AnswersGiven
    <2>k. KeyOr(req[c].kid, "unavailable") = "unavailable"
            => ~StaleKey(req[c].kid)
      BY DEF KeyOr
    <2>1. CASE HeldByFloor(c)
      BY <2>1, <2>i, <2>a, <2>k, AnswersGiven DEF HeldByFloor, MustDecide
    <2>2. CASE HeldByBreaker(c)
      BY <2>2, <2>i, <2>a, <2>k, AnswersGiven DEF HeldByBreaker, MustDecide
    <2>3. CASE AnswerFromCache(c)
      BY <2>3, <2>i, <2>a, <2>k, AnswersGiven
    <2>4. CASE CommitFailure(c)
      BY <1>1, <2>4, <2>i, <2>a, <2>k, AnswersGiven
      DEF CommitFailure, At, AnswerInv, LeaderFits, FetchStages
    <2>. QED  BY <2>g, <2>1, <2>2, <2>3, <2>4
  <1>2. AnswerInv /\ [Next]_vars
          => [\A c \in Callers :
                Answered(c, "unavailable")
                  => ~Fresh(req[c].kid) /\ ~StaleKey(req[c].kid)]_vars
    BY <1>1
  <1>. QED  BY <1>2, SpecAnswerInv, PTL DEF Spec, UnavailableMeansNoKey

(* What max_age makes of the header leaves no lifetime of zero             *)
(* (jwks.rs:512-520), unless it is configured so.                          *)
PositiveTtls == \A ttl \in AdvertisedTtls : Lifetime(ttl) > 0

(* A key is served past its lifetime only when the latest attempt to       *)
(* replace its set did not succeed (jwks.rs:245-249).                      *)
THEOREM ServesStaleOnlyInOutage ==
  ASSUME PositiveTtls
  PROVE  Spec => StaleOnlyInOutage
  <1>1. ASSUME AnswerInv, [Next]_vars, NEW c \in Callers, Answered(c, "key")
        PROVE  cache'.failed \/ cache'.age < cache'.ttl
    <2>i. TypeOK  BY <1>1 DEF AnswerInv, Inv
    <2>a. req[c].answer = "none" /\ req'[c].answer = "key"
      BY <1>1 DEF Answered
    <2>g. \/ FastPath(c) \/ RefreshedMeanwhile(c) \/ HeldByFloor(c)
          \/ HeldByBreaker(c) \/ AnswerFromCache(c)
          \/ CommitKeys(c) \/ CommitFailure(c)
      BY <1>1, <2>i, <2>a, OnlyAnswering
    <2>f. Fresh(req[c].kid) => cache.age < cache.ttl
      BY DEF Fresh
    <2>1. CASE FastPath(c) \/ RefreshedMeanwhile(c) \/ AnswerFromCache(c)
      <3>1. Fresh(req[c].kid) \/ cache.failed
        BY <2>1, <2>i, <2>a, AnswersGiven DEF RefreshedMeanwhile
      <3>. QED  BY <2>1, <2>f, <3>1
                DEF FastPath, RefreshedMeanwhile, AnswerFromCache
    <2>2. CASE HeldByFloor(c)
      BY <2>2, <2>i, <2>a, AnswersGiven DEF HeldByFloor
    <2>3. CASE HeldByBreaker(c)
      <3>1. breaker.open  BY <2>3 DEF HeldByBreaker, Allows
      <3>. QED  BY <1>1, <2>3, <3>1 DEF HeldByBreaker, AnswerInv, GateFits
    <2>4. CASE CommitKeys(c)
      <3>1. cache'.age = 0 /\ cache'.ttl = req[c].got.ttl
        BY <2>4 DEF CommitKeys, Replaced
      <3>2. Advertised(req[c].got.ttl)
        BY <1>1, <2>4 DEF CommitKeys, AnswerInv, ResponseFits
      <3>. QED  BY <3>1, <3>2, PositiveTtls DEF Advertised, PositiveTtls
    <2>5. CASE CommitFailure(c)
      BY <1>1, <2>5 DEF CommitFailure, At, AnswerInv, LeaderFits, FetchStages
    <2>. QED  BY <2>g, <2>1, <2>2, <2>3, <2>4, <2>5
  <1>2. AnswerInv /\ [Next]_vars
          => [\A c \in Callers :
                Answered(c, "key")
                  => cache'.failed \/ cache'.age < cache'.ttl]_vars
    BY <1>1
  <1>. QED  BY <1>2, SpecAnswerInv, PTL DEF Spec, StaleOnlyInOutage

----------------------------------------------------------------------------
(* Nobody is left to wait.                                                 *)

JoinerStages == {"joining", "registered", "waiting", "reading"}

(* A joiner starts behind a leader, and goes on from there. *)
LEMMA OnlyJoining ==
  ASSUME TypeOK, NEW c \in Callers, TaskStep(c),
         req'[c].stage \in JoinerStages \union {"releasing"}
  PROVE  \/ JoinFetch(c)
         \/ req[c].stage \in JoinerStages
         \/ CommitKeys(c) \/ CommitFailure(c) \/ CancelLeader(c)
  <1>. USE StepShapes DEF JoinerStages
  <1>1. CASE \E kid \in Kids : Ask(c, kid)
    BY <1>1 DEF Ask, Become, Request, TypeOK
  <1>2. CASE FetchEnds(c)
    BY <1>2 DEF FetchEnds, FetchAnswers, FetchFails, At, Become, Request, TypeOK
  <1>3. CASE Cancel(c)
    BY <1>3 DEF Cancel, CancelFollower
  <1>4. CASE Run(c)
    <2>1. ~FastPath(c) /\ ~RefreshedMeanwhile(c)
          /\ ~HeldByFloor(c) /\ ~HeldByBreaker(c)
      BY DEF FastPath, RefreshedMeanwhile, HeldByFloor, HeldByBreaker
    <2>2. ~StartFetch(c)
      BY DEF StartFetch, Become, Request, TypeOK
    <2>3. ~ClearFlag(c) /\ ~NotifyWaiters(c) /\ ~DropPermit(c)
      BY DEF ClearFlag, NotifyWaiters, DropPermit
    <2>4. Register(c) \/ Recheck(c) \/ Woken(c) \/ AnswerFromCache(c)
            => req[c].stage \in JoinerStages
      BY DEF Register, Recheck, Woken, AnswerFromCache, At
    <2>. QED  BY <1>4, <2>1, <2>2, <2>3, <2>4 DEF Run
  <1>. QED  BY <1>1, <1>2, <1>3, <1>4 DEF TaskStep

LEMMA TaskNoneStranded ==
  ASSUME Inv, Inv', NoneStranded, NEW c \in Callers, TaskStep(c)
  PROVE  NoneStranded'
  <1>i. Inv /\ TypeOK  BY DEF Inv
  <1>1. \A e \in Callers \ {c} : req'[e] = req[e]
    BY <1>i, TaskFrame
  <1>. SUFFICES ASSUME NEW d \in waiters', At(d, "waiting")'
                PROVE  \E e \in Callers : WillNotify(e)'
    BY DEF NoneStranded, WillNotify
  <1>d. d \in Callers  BY DEF Inv, TypeOK
  <1>2. CASE NotifyWaiters(c)
    BY <1>2 DEF NotifyWaiters
  <1>3. CASE ClearFlag(c)
    BY <1>3, <1>i, StepShapes DEF ClearFlag, WillNotify, At
  <1>4. CASE StartFetch(c)
    <2>1. HoldsLease(c)'
      BY <1>4, <1>i DEF StartFetch, Become, Request, TypeOK, HoldsLease,
         LeaseStages
    <2>. QED  BY <2>1 DEF WillNotify
  <1>5. CASE ~NotifyWaiters(c) /\ ~ClearFlag(c) /\ ~StartFetch(c)
    <2>1. \A e \in Callers : HoldsLease(e)' <=> HoldsLease(e)
      BY <1>5, <1>i, LeaseKept DEF TaskStep, Run
    <2>2. ASSUME NEW e \in Callers, WillNotify(e) PROVE WillNotify(e)'
      <3>1. CASE HoldsLease(e)  BY <2>1, <3>1 DEF WillNotify
      <3>2. CASE At(e, "notifying") /\ e # c
        BY <1>1, <3>2 DEF WillNotify, At
      <3>3. CASE At(c, "notifying")
        BY <1>5, <3>3 DEF At, TaskStep, Run, Ask, FastPath, RefreshedMeanwhile,
           JoinFetch, HeldByFloor, HeldByBreaker, MustDecide, Register, Recheck,
           Woken, AnswerFromCache, CommitKeys, CommitFailure, DropPermit,
           FetchEnds, FetchAnswers, FetchFails, Cancel, CancelFollower,
           CancelLeader
      <3>. QED  BY <2>2, <3>1, <3>2, <3>3 DEF WillNotify
    <2>3. CASE At(d, "waiting") /\ d \in waiters
      BY <2>2, <2>3 DEF NoneStranded
    <2>4. CASE ~(At(d, "waiting") /\ d \in waiters)
      <3>1. Register(c) \/ waiters' \subseteq waiters
        BY <1>5 DEF TaskStep, Run, Ask, FastPath, RefreshedMeanwhile,
           JoinFetch, HeldByFloor, HeldByBreaker, Recheck,
           Woken, AnswerFromCache, CommitKeys, CommitFailure, DropPermit,
           FetchEnds, FetchAnswers, FetchFails, Cancel, CancelFollower,
           CancelLeader
      <3>2. d = c /\ Recheck(c)
        <4>1. CASE Register(c)
          BY <1>1, <1>d, <2>4, <4>1, <1>i, StepShapes DEF Register, At
        <4>2. CASE waiters' \subseteq waiters /\ d # c
          BY <1>1, <1>d, <2>4, <4>2 DEF At
        <4>3. CASE waiters' \subseteq waiters /\ d = c
          <5>1. ~At(c, "waiting") /\ At(c, "waiting")'
            BY <2>4, <4>3
          <5>2. \/ JoinFetch(c) \/ req[c].stage \in JoinerStages
                \/ CommitKeys(c) \/ CommitFailure(c) \/ CancelLeader(c)
            BY <5>1, <1>i, OnlyJoining DEF At, JoinerStages
          <5>3. ~JoinFetch(c) /\ ~CommitKeys(c) /\ ~CommitFailure(c)
                /\ ~CancelLeader(c)
            BY <5>1, <1>i, StepShapes
            DEF At, JoinFetch, CommitKeys, CommitFailure, CancelLeader
          <5>4. req[c].stage \in {"joining", "registered", "reading"}
            BY <5>1, <5>2, <5>3 DEF At, JoinerStages
          <5>5. ~Register(c) /\ ~AnswerFromCache(c) /\ ~CancelFollower(c)
            BY <5>1, <1>i, StepShapes
            DEF At, Register, AnswerFromCache, CancelFollower
          <5>6. Recheck(c)
            BY <1>5, <5>3, <5>4, <5>5 DEF At, TaskStep, Run, Ask, FastPath,
               RefreshedMeanwhile, HeldByFloor, HeldByBreaker, MustDecide,
               Woken, DropPermit, FetchEnds, FetchAnswers, FetchFails, Cancel
          <5>. QED  BY <4>3, <5>6
        <4>. QED  BY <3>1, <4>1, <4>2, <4>3
      <3>3. fetching
        BY <3>2, <1>i, StepShapes DEF Recheck, StillFetching, At
      <3>4. PICK e \in Callers : HoldsLease(e)
        BY <3>3, <1>i DEF Inv, Custody, FlagHasLeader
      <3>. QED  BY <2>1, <3>4 DEF WillNotify
    <2>. QED  BY <2>3, <2>4
  <1>. QED  BY <1>2, <1>3, <1>4, <1>5

LEMMA NextNoneStranded ==
  Inv /\ Inv' /\ NoneStranded /\ [Next]_vars => NoneStranded'
  <1>. SUFFICES ASSUME Inv, Inv', NoneStranded, [Next]_vars
                PROVE  NoneStranded'
    OBVIOUS
  <1>1. ASSUME NEW c \in Callers, TaskStep(c)
        PROVE  NoneStranded'
    BY <1>1, TaskNoneStranded
  <1>2. CASE Tick \/ UNCHANGED vars
    <2>1. waiters' = waiters /\ req' = req  BY <1>2 DEF Tick, vars
    <2>. QED  BY <2>1 DEF NoneStranded, WillNotify, HoldsLease, At
  <1>. QED  BY <1>1, <1>2 DEF Next, TaskStep

LEMMA InitNoneStranded == Init => NoneStranded
  BY DEF Init, NoneStranded

(* "A leaked fetch_in_flight would strand every joiner behind a leader that*)
(* no longer exists", so it has "to be impossible" (jwks.rs:355-359): with *)
(* any number of joiners, cancelled leaders and delays, whoever waits has a*)
(* leader whose drop will wake it.  Delayed tasks included: no hypothesis  *)
(* on Prompt.                                                              *)
THEOREM NobodyStranded == Spec => []NoneStranded
  BY InitNoneStranded, NextNoneStranded, SpecInv, PTL DEF Spec

----------------------------------------------------------------------------
(* The gate and the run of failures.                                       *)

(* A probe is lent by an open gate, and nobody else reports while it is out*)
(* fetching.                                                               *)
ProbeFits(c) == req[c].probe /\ req[c].stage \in FetchStages => breaker.open

GateInv ==
  /\ Inv
  /\ GateMatchesRun
  /\ \A c \in Callers : ProbeFits(c)

Matched(b) == b.open <=> b.failures >= FailureThreshold

(* A whole report keeps the two together; a failed probe's does because the*)
(* gate it reopens was open.                                               *)
LEMMA ReportsMatch ==
  ASSUME FailureThreshold > 0, NEW b \in BreakerStates, Matched(b),
         NEW p \in BOOLEAN, p => b.open
  PROVE  Matched(Recovered(b)) /\ Matched(Failed(b, p))
  <1>n. FailureThreshold \in Nat /\ b.failures \in 0..FailureThreshold
    BY BreakerAssumption DEF BreakerAssumption, BreakerStates
  <1>1. Matched(Recovered(b))  BY <1>n, GateMoves DEF Matched
  <1>2. /\ CountFailure(b) \in BreakerStates
        /\ CountFailure(b).open = b.open
    BY SectionsKeepType DEF BreakerStates, CountFailure
  <1>3. CountFailure(b).failures =
          IF b.failures < FailureThreshold THEN b.failures + 1 ELSE b.failures
    BY DEF BreakerStates, CountFailure
  <1>4. /\ \A d \in BreakerStates : OpenGate(d, p).failures = d.failures
        /\ \A d \in BreakerStates : OpenGate(d, p).open
    BY DEF BreakerStates, OpenGate, SetGate
  <1>5. CASE MustOpen(b, p)
    <2>1. b.failures + 1 >= FailureThreshold
      BY <1>n, <1>5 DEF MustOpen, Matched
    <2>2. CountFailure(b).failures >= FailureThreshold
      BY <1>n, <1>3, <2>1
    <2>. QED  BY <1>1, <1>2, <1>4, <1>5, <2>2 DEF Failed, Matched
  <1>6. CASE ~MustOpen(b, p)
    <2>1. b.failures + 1 < FailureThreshold
      BY <1>n, <1>6 DEF MustOpen
    <2>2. /\ ~(b.failures >= FailureThreshold)
          /\ ~(CountFailure(b).failures >= FailureThreshold)
      BY <1>n, <1>3, <2>1
    <2>. QED  BY <1>1, <1>2, <1>6, <2>2 DEF Failed, Matched
  <1>. QED  BY <1>5, <1>6

LEMMA InitGateInv ==
  ASSUME FailureThreshold > 0
  PROVE  Init => GateInv
  <1>. SUFFICES ASSUME Init PROVE GateInv
    OBVIOUS
  <1>1. GateMatchesRun
    BY BreakerAssumption DEF BreakerAssumption, Init, GateMatchesRun, NewBreaker
  <1>2. \A c \in Callers : ProbeFits(c)
    BY DEF Init, ProbeFits, FetchStages, Idle, Request
  <1>. QED  BY <1>1, <1>2, InitInv DEF GateInv

LEMMA StartFetchGateInv ==
  ASSUME GateInv, NEW c \in Callers, StartFetch(c)
  PROVE  GateInv'
  <1>i. Inv /\ TypeOK /\ Inv' /\ breaker \in BreakerStates
    BY StartFetchInv DEF GateInv, Inv, TypeOK
  <1>1. \A d \in Callers \ {c} : req'[d] = req[d]
    BY <1>i, TaskFrame DEF TaskStep, Run
  <1>2. req'[c].probe = LendsProbe(breaker)
    BY <1>i DEF StartFetch, Become, Request, TypeOK
  <1>3. breaker'.open = breaker.open /\ breaker'.failures = breaker.failures
    BY <1>i, GateMoves DEF StartFetch
  <1>4. GateMatchesRun'  BY <1>3 DEF GateInv, GateMatchesRun
  <1>5. ProbeFits(c)'  BY <1>2, <1>3 DEF ProbeFits, LendsProbe
  <1>6. \A d \in Callers \ {c} : ProbeFits(d)'
    BY <1>1, <1>3 DEF GateInv, ProbeFits
  <1>. QED  BY <1>i, <1>4, <1>5, <1>6 DEF GateInv

LEMMA CommitGateInv ==
  ASSUME FailureThreshold > 0, GateInv, NEW c \in Callers,
         CommitKeys(c) \/ CommitFailure(c)
  PROVE  GateInv'
  <1>i. Inv /\ TypeOK /\ Inv' /\ breaker \in BreakerStates
    BY LeaderInv DEF GateInv, Inv, TypeOK
  <1>1. \A d \in Callers \ {c} : req'[d] = req[d]
    BY <1>i, TaskFrame DEF TaskStep, Run
  <1>2. req'[c].stage \notin FetchStages
    BY <1>i, StepShapes DEF CommitKeys, CommitFailure, FetchStages
  <1>3. \A d \in Callers \ {c} : req'[d].stage \notin FetchStages
    <2>1. HoldsLease(c)
      BY DEF CommitKeys, CommitFailure, At, HoldsLease, LeaseStages
    <2>2. \A d \in Callers \ {c} : ~HoldsLease(d)
      BY <1>i, <2>1 DEF Inv, Custody, OneLeader
    <2>. QED  BY <1>1, <2>2 DEF HoldsLease, LeaseStages, FetchStages
  <1>4. \A d \in Callers : ProbeFits(d)'
    BY <1>2, <1>3 DEF ProbeFits
  <1>5. Matched(breaker) /\ req[c].probe \in BOOLEAN
    BY <1>i, RequestFields DEF GateInv, GateMatchesRun, Matched
  <1>6. req[c].probe => breaker.open
    BY DEF CommitKeys, CommitFailure, At, GateInv, ProbeFits, FetchStages
  <1>7. Matched(breaker')
    BY <1>i, <1>5, <1>6, ReportsMatch DEF CommitKeys, CommitFailure
  <1>8. GateMatchesRun'  BY <1>7 DEF Matched, GateMatchesRun
  <1>. QED  BY <1>i, <1>4, <1>8 DEF GateInv

LEMMA OtherGateInv ==
  ASSUME GateInv, Inv', NEW c \in Callers, TaskStep(c),
         ~StartFetch(c), ~CommitKeys(c), ~CommitFailure(c)
  PROVE  GateInv'
  <1>i. Inv /\ TypeOK  BY DEF GateInv, Inv
  <1>1. breaker'.open = breaker.open /\ breaker'.failures = breaker.failures
    BY <1>i, OnlyWriting
  <1>2. \A d \in Callers \ {c} : req'[d] = req[d]
    BY <1>i, TaskFrame
  <1>3. ProbeFits(c)'
    <2>. SUFFICES ASSUME req'[c].stage \in FetchStages, req'[c].probe
                  PROVE  breaker.open
      BY <1>1 DEF ProbeFits
    <2>1. /\ FetchAnswers(c) \/ FetchFails(c)
          /\ req[c].stage = "fetching"
      BY <1>i, OnlyFetching
    <2>2. req'[c].probe = req[c].probe
      <3>1. CASE FetchAnswers(c)
        <4>1. PICK got :
                Become(c, Request("fetched", req[c].kid, req[c].probe, got, "none"))
          BY <3>1 DEF FetchAnswers
        <4>2. req'[c] =
                Request("fetched", req[c].kid, req[c].probe, got, "none")
          BY <1>i, <4>1 DEF Become, TypeOK
        <4>3. Request("fetched", req[c].kid, req[c].probe, got, "none").probe
                = req[c].probe
          BY Zenon DEF Request
        <4>. QED  BY <4>2, <4>3, Zenon
      <3>2. CASE FetchFails(c)
        BY <1>i, <3>2, GotoEffect DEF FetchFails, Stages
      <3>. QED  BY <2>1, <3>1, <3>2
    <2>. QED  BY <2>1, <2>2 DEF GateInv, ProbeFits, FetchStages
  <1>4. \A d \in Callers \ {c} : ProbeFits(d)'
    BY <1>1, <1>2 DEF GateInv, ProbeFits
  <1>5. GateMatchesRun'  BY <1>1 DEF GateInv, GateMatchesRun
  <1>. QED  BY <1>3, <1>4, <1>5 DEF GateInv

LEMMA NextGateInv ==
  ASSUME FailureThreshold > 0
  PROVE  GateInv /\ [Next]_vars => GateInv'
  <1>. SUFFICES ASSUME GateInv, [Next]_vars PROVE GateInv'
    OBVIOUS
  <1>i. Inv /\ TypeOK /\ Inv'  BY NextInv DEF GateInv, Inv
  <1>1. ASSUME NEW c \in Callers, TaskStep(c)
        PROVE  GateInv'
    BY <1>1, <1>i, StartFetchGateInv, CommitGateInv, OtherGateInv
  <1>2. CASE Tick \/ UNCHANGED vars
    <2>1. /\ req' = req
          /\ breaker'.open = breaker.open
          /\ breaker'.failures = breaker.failures
      BY <1>2, <1>i, GateMoves DEF Tick, vars, TypeOK
    <2>. QED  BY <1>i, <2>1 DEF GateInv, GateMatchesRun, ProbeFits
  <1>. QED  BY <1>1, <1>2 DEF Next, TaskStep

(* Rule 7 holds of the key-set client although it does not hold of the     *)
(* breaker it uses: with one fetch at a time and reports made whole under  *)
(* the write lock, the gate is open exactly when the run of failures has   *)
(* reached the threshold.  A threshold of 0 opens at the first failure and *)
(* is met by no failure at all.                                            *)
THEOREM GateTellsRun ==
  ASSUME FailureThreshold > 0
  PROVE  Spec => []GateMatchesRun
  <1>1. GateInv => GateMatchesRun  BY DEF GateInv
  <1>. QED  BY <1>1, InitGateInv, NextGateInv, PTL DEF Spec

----------------------------------------------------------------------------
(* What a joiner finds when it reads, if no task is delayed.               *)

(* Whoever follows a fetch that succeeded, and its leader until it has let *)
(* go, sees the set just committed.                                        *)
JoinerFits(c) ==
  req[c].stage \in JoinerStages \union {"releasing"}
    => cache.failed \/ cache.age = 0

JoinInv ==
  /\ AnswerInv
  /\ NoneStranded
  /\ \A c \in Callers : JoinerFits(c)

LEMMA InitJoinInv == Init => JoinInv
  <1>. SUFFICES ASSUME Init PROVE JoinInv
    OBVIOUS
  <1>1. \A c \in Callers : req[c].stage = "idle"
    BY DEF Init, Idle, Request
  <1>. QED
    BY <1>1, InitAnswerInv, InitNoneStranded
    DEF JoinInv, JoinerFits, JoinerStages

LEMMA TaskJoinerFits ==
  ASSUME JoinInv, AnswerInv', NEW c \in Callers, TaskStep(c), NEW d \in Callers
  PROVE  JoinerFits(d)'
  <1>i. TypeOK  BY DEF JoinInv, AnswerInv, Inv
  <1>1. \A e \in Callers \ {c} : req'[e] = req[e]
    BY <1>i, TaskFrame
  <1>2. CASE StartFetch(c)
    <2>1. cache'.failed
      BY <1>2, <1>i DEF StartFetch, StampAttempt, TypeOK, Caches
    <2>. QED  BY <2>1 DEF JoinerFits
  <1>3. CASE CommitKeys(c)
    <2>1. cache'.age = 0  BY <1>3 DEF CommitKeys, Replaced
    <2>. QED  BY <2>1 DEF JoinerFits
  <1>4. CASE CommitFailure(c)
    <2>1. cache' = cache /\ cache.failed
      BY <1>4 DEF CommitFailure, At, JoinInv, AnswerInv, LeaderFits, FetchStages
    <2>. QED  BY <2>1 DEF JoinerFits
  <1>5. CASE ~StartFetch(c) /\ ~CommitKeys(c) /\ ~CommitFailure(c)
    <2>1. cache' = cache  BY <1>5, <1>i, OnlyWriting
    <2>2. CASE d # c
      BY <1>1, <2>1, <2>2 DEF JoinInv, JoinerFits
    <2>3. CASE d = c
      <3>. SUFFICES ASSUME req'[c].stage \in JoinerStages \union {"releasing"}
                    PROVE  cache.failed \/ cache.age = 0
        BY <2>1, <2>3 DEF JoinerFits
      <3>1. JoinFetch(c) \/ req[c].stage \in JoinerStages \/ CancelLeader(c)
        BY <1>5, <1>i, OnlyJoining
      <3>2. CASE JoinFetch(c)
        <4>1. PICK e \in Callers : HoldsLease(e)
          BY <3>2 DEF JoinFetch, JoinInv, AnswerInv, Inv, Custody, FlagHasLeader
        <4>. QED  BY <4>1 DEF HoldsLease, LeaseStages, JoinInv, JoinerFits,
                              AnswerInv, LeaderFits, FetchStages
      <3>3. CASE req[c].stage \in JoinerStages
        BY <3>3 DEF JoinInv, JoinerFits
      <3>4. CASE CancelLeader(c)
        BY <3>4 DEF CancelLeader, JoinInv, AnswerInv, LeaderFits, FetchStages
      <3>. QED  BY <3>1, <3>2, <3>3, <3>4
    <2>. QED  BY <2>2, <2>3
  <1>. QED  BY <1>2, <1>3, <1>4, <1>5

(* The clock waits for every task that could run, so it stands still from  *)
(* a successful commit until the last joiner has read.                     *)
LEMMA TickJoinInv ==
  ASSUME Prompt, JoinInv, Tick PROVE JoinInv'
  <1>i. Inv /\ TypeOK /\ AnswerInv'
    BY TickAnswerInv DEF JoinInv, AnswerInv, Inv
  <1>1. /\ req' = req
        /\ waiters' = waiters
        /\ cache'.failed = cache.failed
        /\ \A c \in Callers : Resting(c)
    BY <1>i, KeysOnlyAge DEF Tick
  <1>2. NoneStranded'
    BY <1>1 DEF JoinInv, NoneStranded, WillNotify, HoldsLease, At
  <1>3. ASSUME NEW c \in Callers PROVE JoinerFits(c)'
    <2>. SUFFICES ASSUME req[c].stage \in JoinerStages \union {"releasing"}
                  PROVE  cache.failed
      BY <1>1 DEF JoinerFits
    <2>1. At(c, "waiting") /\ c \in waiters
      BY <1>1 DEF Resting, At, JoinerStages
    <2>2. PICK d \in Callers : WillNotify(d)
      BY <2>1 DEF JoinInv, NoneStranded
    <2>3. At(d, "fetching")
      BY <1>1, <2>2 DEF Resting, WillNotify, HoldsLease, LeaseStages, At
    <2>. QED  BY <2>3 DEF JoinInv, AnswerInv, LeaderFits, FetchStages, At
  <1>. QED  BY <1>i, <1>2, <1>3 DEF JoinInv

LEMMA NextJoinInv ==
  ASSUME Prompt
  PROVE  JoinInv /\ [Next]_vars => JoinInv'
  <1>. SUFFICES ASSUME JoinInv, [Next]_vars PROVE JoinInv'
    OBVIOUS
  <1>1. AnswerInv'  BY NextAnswerInv DEF JoinInv
  <1>2. CASE Tick
    BY <1>2, TickJoinInv
  <1>3. ASSUME NEW c \in Callers, TaskStep(c)
        PROVE  JoinInv'
    <2>1. \A d \in Callers : JoinerFits(d)'
      BY <1>1, <1>3, TaskJoinerFits
    <2>2. NoneStranded'
      BY <1>1, <1>3, TaskNoneStranded DEF JoinInv, AnswerInv
    <2>. QED  BY <1>1, <2>1, <2>2 DEF JoinInv
  <1>4. CASE UNCHANGED vars
    BY <1>1, <1>4 DEF vars, JoinInv, JoinerFits, NoneStranded,
       WillNotify, HoldsLease, At
  <1>. QED  BY <1>2, <1>3, <1>4 DEF Next, TaskStep

(* The set lives at least as long as the floor holds the next attempt. *)
LongLived == \A ttl \in AdvertisedTtls : Lifetime(ttl) >= MinRefetch

(* "A key set that arrives fine and simply lacks the token's kid is a bad  *)
(* credential (401)": if no task is delayed and every lifetime outlasts the*)
(* floor, 401 is for a kid that is not in the last set, on the floor's path*)
(* and the joiner's too.  Without LongLived it is false: an expired set    *)
(* inside the floor refuses the kids it has.                               *)
THEOREM RefusesOnlyAbsentKids ==
  ASSUME Prompt, PositiveTtls, LongLived
  PROVE  Spec => UnauthorizedMeansAbsent
  <1>1. ASSUME JoinInv, [Next]_vars, NEW c \in Callers,
               Answered(c, "unauthorized")
        PROVE  req[c].kid \notin cache'.keys
    <2>i. TypeOK /\ AnswerInv  BY <1>1 DEF JoinInv, AnswerInv, Inv
    <2>a. req[c].answer = "none" /\ req'[c].answer = "unauthorized"
      BY <1>1 DEF Answered
    <2>k. KeyOr(req[c].kid, "unavailable") # "unauthorized"
      BY DEF KeyOr
    <2>g. /\ \/ FastPath(c) \/ RefreshedMeanwhile(c) \/ HeldByFloor(c)
             \/ HeldByBreaker(c) \/ AnswerFromCache(c)
             \/ CommitKeys(c) \/ CommitFailure(c)
          /\ ~FastPath(c) /\ ~RefreshedMeanwhile(c)
          /\ ~HeldByBreaker(c) /\ ~CommitFailure(c)
      BY <1>1, <2>i, <2>a, <2>k, OnlyAnswering, AnswersGiven
    <2>t. /\ cache.age \in Nat
          /\ cache.since \in Nat
          /\ MinRefetch \in Nat
      BY <2>i, JwksAssumption DEF JwksAssumption, TypeOK, Caches, Horizon
    <2>l. ASSUME cache.keys # {}
          PROVE  /\ cache.ttl \in Nat
                 /\ cache.ttl > 0
                 /\ cache.ttl >= MinRefetch
      <3>1. Advertised(cache.ttl)
        BY <2>i, <2>l DEF AnswerInv, LifetimeFits
      <3>2. cache.ttl \in Nat
        BY <2>i, JwksAssumption DEF JwksAssumption, TypeOK, Caches
      <3>. QED  BY <3>1, <3>2, PositiveTtls, LongLived
                DEF Advertised, PositiveTtls, LongLived
    <2>1. CASE HeldByFloor(c)
      <3>1. /\ ~cache.failed
            /\ cache.since < MinRefetch
            /\ ~Fresh(req[c].kid)
            /\ cache' = cache
        BY <2>1, <2>i, <2>a, <2>k, AnswersGiven
        DEF HeldByFloor, MustDecide, FloorActive
      <3>2. ASSUME req[c].kid \in cache.keys PROVE FALSE
        <4>1. cache.age <= cache.since
          BY <3>1, <3>2, <2>i, <2>t DEF AnswerInv, AttemptFits
        <4>. QED  BY <3>1, <3>2, <4>1, <2>l, <2>t DEF Fresh
      <3>. QED  BY <3>1, <3>2
    <2>2. CASE AnswerFromCache(c)
      <3>1. /\ ~cache.failed
            /\ ~Fresh(req[c].kid)
            /\ cache' = cache
        BY <2>2, <2>i, <2>a, <2>k, AnswersGiven DEF AnswerFromCache
      <3>2. cache.age = 0
        BY <1>1, <2>2, <3>1
        DEF AnswerFromCache, At, JoinInv, JoinerFits, JoinerStages
      <3>. QED  BY <3>1, <3>2, <2>l DEF Fresh
    <2>3. CASE CommitKeys(c)
      BY <2>3, <2>i, <2>a, AnswersGiven DEF CommitKeys, Replaced
    <2>. QED  BY <2>g, <2>1, <2>2, <2>3
  <1>2. JoinInv /\ [Next]_vars
          => [\A c \in Callers :
                Answered(c, "unauthorized")
                  => req[c].kid \notin cache'.keys]_vars
    BY <1>1
  <1>3. Spec => []JoinInv
    BY InitJoinInv, NextJoinInv, PTL DEF Spec
  <1>. QED  BY <1>2, <1>3, PTL DEF Spec, UnauthorizedMeansAbsent

----------------------------------------------------------------------------
(* The client with the IdP around it.                                      *)

LEMMA EnvSteps ==
  ASSUME EnvNext
  PROVE  \/ \E c \in Callers : TaskStep(c) /\ ClientStep
         \/ UNCHANGED vars /\ IdpAnswers
         \/ Tick /\ TimeStep
         \/ UNCHANGED vars /\ Rotate
  BY DEF EnvNext, ClientStep, TaskStep, IdpAnswers, TimeStep, Rotate

(* It adds nothing to what the client may do. *)
LEMMA EnvIsClient == EnvSpec => Spec
  <1>1. EnvInit => Init  BY DEF EnvInit
  <1>2. [EnvNext]_allVars => [Next]_vars
    <2>. SUFFICES ASSUME [EnvNext]_allVars PROVE [Next]_vars
      OBVIOUS
    <2>1. CASE EnvNext
      BY <2>1, EnvSteps DEF TaskStep, Next
    <2>2. CASE UNCHANGED allVars
      BY <2>2 DEF allVars
    <2>. QED  BY <2>1, <2>2
  <1>. QED  BY <1>1, <1>2, PTL DEF EnvSpec, Spec

(* So the runs with rotation check what the theorems above prove. *)
COROLLARY HoldsWithRotation ==
  EnvSpec => /\ []SingleFlight /\ []ProbeCustody /\ []NoneStranded
             /\ FlightIsLease
  BY EnvIsClient, OneFetch, OneProbe, NobodyStranded, ImplementsLease, PTL

(* And the gate tells the run under rotation. *)
COROLLARY GateTellsRunWithRotation ==
  ASSUME FailureThreshold > 0
  PROVE  EnvSpec => []GateMatchesRun
  BY EnvIsClient, GateTellsRun, PTL

(* 401 is for an absent kid under rotation too. *)
COROLLARY RefusesOnlyAbsentKidsWithRotation ==
  ASSUME Prompt, PositiveTtls, LongLived
  PROVE  EnvSpec => UnauthorizedMeansAbsent
  BY EnvIsClient, RefusesOnlyAbsentKids, PTL

(* spacing is what last_attempt_at says. *)
SpacingFits == spacing = cache.since

(* "Two fetches start at least min_refetch_interval apart"                 *)
(* (jwks.rs:166-168), for any kids asked for and fetches cancelled: no     *)
(* commit, no cancellation and no failure sets the floor's clock back.     *)
THEOREM FloorSpacesFetches == EnvSpec => FloorHolds
  <1>1. EnvInit => SpacingFits
    BY DEF EnvInit, Init, NewCache, SpacingFits
  <1>2. ASSUME TypeOK, SpacingFits, [EnvNext]_allVars PROVE SpacingFits'
    <2>1. ASSUME ClientStep PROVE SpacingFits'
      <3>1. PICK c \in Callers :
              /\ TaskStep(c)
              /\ spacing' = IF StartFetch(c) THEN 0 ELSE spacing
        BY <2>1 DEF ClientStep, TaskStep
      <3>2. CASE StartFetch(c)
        BY <1>2, <3>1, <3>2
        DEF StartFetch, StampAttempt, TypeOK, Caches, SpacingFits
      <3>3. CASE ~StartFetch(c)
        <4>1. cache'.since = cache.since
          <5>1. CASE CommitKeys(c)  BY <5>1 DEF CommitKeys, Replaced
          <5>2. CASE CommitFailure(c)  BY <5>2 DEF CommitFailure
          <5>. QED  BY <1>2, <3>1, <3>3, <5>1, <5>2, OnlyWriting
        <4>. QED  BY <1>2, <3>1, <3>3, <4>1 DEF SpacingFits
      <3>. QED  BY <3>2, <3>3
    <2>2. CASE TimeStep
      BY <1>2, <2>2, KeysOnlyAge DEF TimeStep, SpacingFits
    <2>3. CASE IdpAnswers \/ Rotate \/ UNCHANGED allVars
      BY <1>2, <2>3 DEF IdpAnswers, Rotate, allVars, history, vars, SpacingFits
    <2>. QED  BY <1>2, <2>1, <2>2, <2>3 DEF EnvNext
  <1>3. ASSUME TypeOK, SpacingFits, NEW c \in Callers, StartFetch(c)
        PROVE  spacing >= MinRefetch
    <2>1. cache.since \in Nat /\ MinRefetch \in Nat
      BY <1>3, JwksAssumption DEF JwksAssumption, TypeOK, Caches
    <2>2. ~(cache.since < MinRefetch)
      BY <1>3 DEF StartFetch, FloorActive
    <2>. QED  BY <1>3, <2>1, <2>2 DEF SpacingFits
  <1>4. TypeOK /\ SpacingFits /\ [EnvNext]_allVars => SpacingFits'
    BY <1>2
  <1>5. TypeOK /\ SpacingFits
          => [(\E c \in Callers : StartFetch(c)) => spacing >= MinRefetch]_allVars
    BY <1>3
  <1>. QED
    BY <1>1, <1>4, <1>5, EnvIsClient, TypeCorrect, PTL DEF EnvSpec, FloorHolds

(* Who heard of a success has not read it yet, and it is still the latest  *)
(* outcome.                                                                *)
HeardFits ==
  \A d \in heard :
    /\ d \in Callers
    /\ req[d].stage \in {"waiting", "reading"}
    /\ ~cache.failed

LEMMA StepHeardFits ==
  TypeOK /\ HeardFits /\ [EnvNext]_allVars => HeardFits'
  <1>. SUFFICES ASSUME TypeOK, HeardFits, [EnvNext]_allVars PROVE HeardFits'
    OBVIOUS
  <1>1. ASSUME ClientStep, NEW d \in heard'
        PROVE  /\ d \in Callers
               /\ req'[d].stage \in {"waiting", "reading"}
               /\ ~cache'.failed
    <2>1. PICK c \in Callers :
            /\ TaskStep(c)
            /\ d \in Callers
            /\ ~At(d, "idle")'
            /\ ~StartFetch(c)
            /\ d \in heard \/ Hears(d, c)
      BY <1>1 DEF ClientStep, TaskStep
    <2>2. req[d].stage \in {"waiting", "reading"}
      BY <2>1 DEF HeardFits, Hears, At
    <2>3. ~cache'.failed
      <3>1. CASE CommitKeys(c)  BY <3>1 DEF CommitKeys, Replaced
      <3>2. CASE ~CommitKeys(c)
        <4>1. d \in heard  BY <2>1, <3>2 DEF Hears
        <4>2. cache' = cache
          <5>1. CASE CommitFailure(c)  BY <5>1 DEF CommitFailure
          <5>. QED  BY <2>1, <3>2, <5>1, OnlyWriting
        <4>. QED  BY <4>1, <4>2 DEF HeardFits
      <3>. QED  BY <3>1, <3>2
    <2>4. req'[d].stage \in {"waiting", "reading"}
      <3>1. CASE d # c  BY <2>1, <2>2, <3>1, TaskFrame
      <3>2. CASE d = c
        <4>1. \/ Woken(c) \/ AnswerFromCache(c) \/ CancelFollower(c)
          BY <2>1, <2>2, <3>2 DEF TaskStep, Run, Ask, FastPath,
             RefreshedMeanwhile, JoinFetch, HeldByFloor, HeldByBreaker,
             MustDecide, Register, Recheck, CommitKeys, CommitFailure,
             ClearFlag, NotifyWaiters, DropPermit, FetchEnds, FetchAnswers,
             FetchFails, Cancel, CancelLeader, At
        <4>2. ~AnswerFromCache(c) /\ ~CancelFollower(c)
          BY <2>1, <3>2, StepShapes DEF AnswerFromCache, CancelFollower, At
        <4>. QED  BY <3>2, <4>1, <4>2, StepShapes DEF Woken
      <3>. QED  BY <3>1, <3>2
    <2>. QED  BY <2>1, <2>3, <2>4
  <1>2. CASE TimeStep
    <2>1. cache'.failed = cache.failed /\ req' = req /\ heard' = heard
      BY <1>2, KeysOnlyAge DEF TimeStep, Tick
    <2>. QED  BY <2>1 DEF HeardFits
  <1>3. CASE IdpAnswers \/ Rotate \/ UNCHANGED allVars
    BY <1>3 DEF IdpAnswers, Rotate, allVars, history, vars, HeardFits
  <1>. QED  BY <1>1, <1>2, <1>3 DEF EnvNext, HeardFits

(* answer_from_cache "reads the outcome the leader committed"              *)
(* (jwks.rs:270-273): whoever waited for a fetch that succeeded is not told*)
(* that the endpoint is unreachable, before another attempt begins.        *)
THEOREM JoinersHearTheirLeader == EnvSpec => JoinerHears
  <1>1. EnvInit => HeardFits
    BY DEF EnvInit, HeardFits
  <1>2. ASSUME TypeOK, HeardFits, [EnvNext]_allVars, NEW c \in heard,
               Answered(c, "unavailable")
        PROVE  FALSE
    <2>a. req[c].answer = "none" /\ req'[c].answer = "unavailable"
      BY <1>2 DEF Answered
    <2>n. [Next]_vars
      <3>1. CASE EnvNext  BY <3>1, EnvSteps DEF TaskStep, Next
      <3>2. CASE UNCHANGED allVars  BY <3>2 DEF allVars
      <3>. QED  BY <1>2, <3>1, <3>2
    <2>h. /\ c \in Callers
          /\ req[c].stage \in {"waiting", "reading"}
          /\ ~cache.failed
      BY <1>2 DEF HeardFits
    <2>1. \/ FastPath(c) \/ RefreshedMeanwhile(c) \/ HeldByFloor(c)
          \/ HeldByBreaker(c) \/ AnswerFromCache(c)
          \/ CommitKeys(c) \/ CommitFailure(c)
      BY <1>2, <2>a, <2>h, <2>n, OnlyAnswering
    <2>2. AnswerFromCache(c)
      BY <2>1, <2>h DEF FastPath, RefreshedMeanwhile, HeldByFloor,
         HeldByBreaker, MustDecide, CommitKeys, CommitFailure, At
    <2>. QED  BY <1>2, <2>2, <2>a, <2>h, AnswersGiven
  <1>3. TypeOK /\ HeardFits /\ [EnvNext]_allVars
          => [\A c \in heard : ~Answered(c, "unavailable")]_allVars
    BY <1>2
  <1>. QED
    BY <1>1, <1>3, StepHeardFits, EnvIsClient, TypeCorrect, PTL
    DEF EnvSpec, JoinerHears

(* A kid in the cache has been gone for no longer than the set that has it *)
(* is old and its answer was under way; a kid in an answer, on its way or  *)
(* in hand, for no longer than the fetch has lasted.                       *)
GoneType ==
  /\ published \subseteq Kids
  /\ gone \in [Kids -> 0..LongGone]
  /\ \A k \in published : gone[k] = 0

WireType ==
  /\ onWire \subseteq SUBSET Kids
  /\ flight \in 0..HttpTimeout

WireIsNew(c) ==
  At(c, "fetching") => \A keys \in onWire : \A k \in keys : gone[k] <= flight

ResponseIsNew(c) ==
  At(c, "fetched") /\ req[c].got.ok
    => \A k \in req[c].got.keys : gone[k] <= flight

CacheIsAsOld == \A k \in cache.keys : gone[k] <= cache.age + HttpTimeout

RevocationInv ==
  /\ GoneType
  /\ WireType
  /\ CacheIsAsOld
  /\ \A c \in Callers : WireIsNew(c) /\ ResponseIsNew(c)

LEMMA Bounds ==
  /\ Horizon \in Nat
  /\ HttpTimeout \in Nat
  /\ LongGone = Horizon + HttpTimeout
  BY JwksAssumption, HttpTimeoutAssumption
  DEF JwksAssumption, HttpTimeoutAssumption, Horizon, LongGone

LEMMA InitRevocationInv == EnvInit => RevocationInv
  <1>. SUFFICES ASSUME EnvInit PROVE RevocationInv
    OBVIOUS
  <1>1. \A c \in Callers : req[c].stage = "idle"
    BY DEF EnvInit, Init, Idle, Request
  <1>2. cache.keys = {}  BY DEF EnvInit, Init, NewCache
  <1>3. \A c \in Callers : WireIsNew(c) /\ ResponseIsNew(c)
    BY <1>1 DEF WireIsNew, ResponseIsNew, At
  <1>4. GoneType /\ WireType  BY Bounds DEF EnvInit, GoneType, WireType
  <1>. QED  BY <1>2, <1>3, <1>4 DEF RevocationInv, CacheIsAsOld

LEMMA ClientRevocationInv ==
  ASSUME AnswerInv, RevocationInv, ClientStep
  PROVE  RevocationInv'
  <1>i. TypeOK /\ Custody  BY DEF AnswerInv, Inv
  <1>1. PICK c \in Callers :
          /\ TaskStep(c)
          /\ Honest(c)
          /\ flight' = IF StartFetch(c) THEN 0 ELSE flight
          /\ onWire' = IF StartFetch(c) THEN {} ELSE onWire
    BY DEF ClientStep, TaskStep
  <1>2. published' = published /\ gone' = gone
    BY DEF ClientStep
  <1>3. GoneType'  BY <1>2 DEF RevocationInv, GoneType
  <1>4. WireType'  BY <1>1, Bounds DEF RevocationInv, WireType
  <1>5. CacheIsAsOld'
    <2>1. CASE StartFetch(c)
      <3>1. cache'.keys = cache.keys /\ cache'.age = cache.age
        BY <1>i, <2>1 DEF StartFetch, StampAttempt, TypeOK, Caches
      <3>. QED  BY <1>2, <3>1 DEF RevocationInv, CacheIsAsOld
    <2>2. CASE CommitKeys(c)
      <3>1. cache'.keys = req[c].got.keys /\ cache'.age = 0
        BY <2>2 DEF CommitKeys, Replaced
      <3>2. \A k \in req[c].got.keys : gone[k] <= flight
        BY <2>2 DEF CommitKeys, RevocationInv, ResponseIsNew
      <3>3. flight \in 0..HttpTimeout  BY DEF RevocationInv, WireType
      <3>4. \A k \in req[c].got.keys : gone[k] \in 0..LongGone
        BY <1>i, RequestFields DEF Responses, RevocationInv, GoneType
      <3>. QED  BY <1>2, <3>1, <3>2, <3>3, <3>4, Bounds DEF CacheIsAsOld
    <2>3. CASE ~StartFetch(c) /\ ~CommitKeys(c)
      <3>1. cache' = cache
        <4>1. CASE CommitFailure(c)  BY <4>1 DEF CommitFailure
        <4>. QED  BY <1>i, <1>1, <2>3, <4>1, OnlyWriting
      <3>. QED  BY <1>2, <3>1 DEF RevocationInv, CacheIsAsOld
    <2>. QED  BY <2>1, <2>2, <2>3
  <1>6. CASE StartFetch(c)
    <2>1. onWire' = {}  BY <1>1, <1>6
    <2>2. \A d \in Callers : ~At(d, "fetched")
      BY <1>i, <1>6
      DEF StartFetch, MustDecide, Custody, FlagHasLeader, HoldsLease,
          LeaseStages, At
    <2>3. ~At(c, "fetched")'
      BY <1>i, <1>6 DEF StartFetch, Become, Request, TypeOK, At
    <2>4. ASSUME NEW d \in Callers PROVE ~At(d, "fetched")'
      BY <1>i, <1>1, <2>2, <2>3, TaskFrame DEF At
    <2>5. \A d \in Callers : WireIsNew(d)' /\ ResponseIsNew(d)'
      BY <2>1, <2>4 DEF WireIsNew, ResponseIsNew
    <2>. QED  BY <1>3, <1>4, <1>5, <2>5 DEF RevocationInv
  <1>7. CASE ~StartFetch(c)
    <2>w. flight' = flight /\ onWire' = onWire  BY <1>1, <1>7
    <2>1. ASSUME NEW d \in Callers \ {c}
          PROVE  WireIsNew(d)' /\ ResponseIsNew(d)'
      <3>1. req'[d] = req[d]  BY <1>i, <1>1, TaskFrame
      <3>. QED
        BY <1>2, <2>w, <3>1 DEF RevocationInv, WireIsNew, ResponseIsNew, At
    <2>2. WireIsNew(c)'
      <3>. SUFFICES ASSUME At(c, "fetching")'
                    PROVE  \A keys \in onWire : \A k \in keys : gone[k] <= flight
        BY <1>2, <2>w DEF WireIsNew
      <3>1. At(c, "fetching")
        BY <1>i, <1>1, <1>7, OnlyFetching DEF FetchStages, At
      <3>. QED  BY <3>1 DEF RevocationInv, WireIsNew
    <2>3. ResponseIsNew(c)'
      <3>. SUFFICES ASSUME At(c, "fetched")', req'[c].got.ok
                    PROVE  \A k \in req'[c].got.keys : gone[k] <= flight
        BY <1>2, <2>w DEF ResponseIsNew
      <3>1. At(c, "fetching")
        BY <1>i, <1>1, <1>7, OnlyFetching DEF FetchStages, At
      <3>2. onWire = {req'[c].got.keys}
        BY <1>1, <3>1 DEF Honest
      <3>. QED  BY <3>1, <3>2 DEF RevocationInv, WireIsNew
    <2>4. \A d \in Callers : WireIsNew(d)' /\ ResponseIsNew(d)'
      BY <2>1, <2>2, <2>3
    <2>. QED  BY <1>3, <1>4, <1>5, <2>4 DEF RevocationInv
  <1>. QED  BY <1>6, <1>7

(* What the IdP puts into its answer has not been gone at all. *)
LEMMA AnswerRevocationInv ==
  ASSUME RevocationInv, IdpAnswers
  PROVE  RevocationInv'
  <1>1. /\ onWire' = {published}
        /\ UNCHANGED <<published, flight, gone, cache, req>>
    BY DEF IdpAnswers, vars, history
  <1>2. \A k \in published : gone[k] = 0 /\ published \subseteq Kids
    BY DEF RevocationInv, GoneType
  <1>3. flight \in 0..HttpTimeout  BY DEF RevocationInv, WireType
  <1>4. ASSUME NEW c \in Callers PROVE WireIsNew(c)' /\ ResponseIsNew(c)'
    <2>1. WireIsNew(c)'  BY <1>1, <1>2, <1>3, Bounds DEF WireIsNew
    <2>2. ResponseIsNew(c)'
      BY <1>1 DEF RevocationInv, ResponseIsNew, At
    <2>. QED  BY <2>1, <2>2
  <1>5. GoneType'  BY <1>1 DEF RevocationInv, GoneType
  <1>6. WireType'  BY <1>1 DEF RevocationInv, GoneType, WireType
  <1>7. CacheIsAsOld'  BY <1>1 DEF RevocationInv, CacheIsAsOld
  <1>. QED  BY <1>4, <1>5, <1>6, <1>7 DEF RevocationInv

LEMMA TimeRevocationInv ==
  ASSUME Prompt, AnswerInv, RevocationInv, TimeStep
  PROVE  RevocationInv'
  <1>i. TypeOK  BY DEF AnswerInv, Inv
  <1>1. /\ \A c \in Callers : Resting(c)
        /\ req' = req
        /\ published' = published
        /\ onWire' = onWire
        /\ Fetching => flight < HttpTimeout
        /\ flight' = Older(flight, HttpTimeout)
        /\ gone' = [k \in Kids |-> IF k \in published THEN 0
                                   ELSE Older(gone[k], LongGone)]
        /\ cache'.keys = cache.keys
        /\ cache'.age = Older(cache.age, Horizon)
    BY <1>i, KeysOnlyAge DEF TimeStep, Tick
  <1>2. \A bound \in Nat : \A n \in 0..bound : Older(n, bound) \in 0..bound
    BY DEF Older, AtMost
  <1>3. GoneType'
    <2>1. LongGone \in Nat  BY Bounds
    <2>. QED  BY <1>1, <1>2, <2>1 DEF RevocationInv, GoneType
  <1>4. WireType'  BY <1>1, <1>2, Bounds DEF RevocationInv, WireType
  <1>5. ASSUME NEW k \in Kids
        PROVE  /\ gone[k] \in 0..LongGone
               /\ gone'[k] \in Nat
               /\ gone'[k] <= gone[k] + 1
    <2>1. gone[k] \in 0..LongGone  BY DEF RevocationInv, GoneType
    <2>2. gone'[k] \in {0, Older(gone[k], LongGone)}  BY <1>1
    <2>. QED  BY <2>1, <2>2, Bounds DEF Older, AtMost
  <1>6. CacheIsAsOld'
    <2>. SUFFICES ASSUME NEW k \in cache.keys
                  PROVE  gone'[k] <= cache'.age + HttpTimeout
      BY <1>1 DEF CacheIsAsOld
    <2>1. k \in Kids /\ cache.age \in 0..Horizon
      BY <1>i DEF TypeOK, Caches
    <2>2. gone[k] <= cache.age + HttpTimeout
      BY DEF RevocationInv, CacheIsAsOld
    <2>3. gone'[k] \in 0..LongGone
      BY <1>3, <2>1 DEF GoneType, LongGone, Horizon
    <2>4. CASE cache.age < Horizon
      <3>1. cache'.age = cache.age + 1
        BY <1>1, <2>1, <2>4, Bounds DEF Older, AtMost
      <3>. QED  BY <1>5, <2>1, <2>2, <3>1, Bounds
    <2>5. CASE cache.age = Horizon
      <3>1. cache'.age = Horizon
        BY <1>1, <2>5, Bounds DEF Older, AtMost
      <3>. QED  BY <2>3, <3>1, Bounds
    <2>. QED  BY <2>1, <2>4, <2>5, Bounds
  <1>7. ASSUME NEW c \in Callers PROVE WireIsNew(c)' /\ ResponseIsNew(c)'
    <2>1. ResponseIsNew(c)'
      BY <1>1 DEF ResponseIsNew, Resting, At
    <2>2. WireIsNew(c)'
      <3>. SUFFICES ASSUME At(c, "fetching"),
                           NEW keys \in onWire, NEW k \in keys
                    PROVE  gone'[k] <= flight'
        BY <1>1 DEF WireIsNew, At
      <3>1. k \in Kids /\ flight \in 0..HttpTimeout
        BY DEF RevocationInv, WireType
      <3>2. gone[k] <= flight  BY DEF RevocationInv, WireIsNew
      <3>3. flight < HttpTimeout  BY <1>1 DEF Fetching
      <3>4. flight' = flight + 1
        BY <1>1, <3>1, <3>3, Bounds DEF Older, AtMost
      <3>. QED  BY <1>5, <3>1, <3>2, <3>4, Bounds
    <2>. QED  BY <2>1, <2>2
  <1>. QED  BY <1>3, <1>4, <1>6, <1>7 DEF RevocationInv

LEMMA RotateRevocationInv ==
  ASSUME AnswerInv, RevocationInv, Rotate
  PROVE  RevocationInv'
  <1>i. TypeOK  BY DEF AnswerInv, Inv
  <1>1. /\ published' \subseteq Kids
        /\ gone' = [k \in Kids |-> IF k \in published' THEN 0 ELSE gone[k]]
        /\ UNCHANGED <<onWire, flight, cache, req>>
    BY DEF Rotate, vars, wire
  <1>2. GoneType'  BY <1>1, Bounds DEF RevocationInv, GoneType
  <1>3. WireType'  BY <1>1 DEF RevocationInv, WireType
  <1>4. ASSUME NEW k \in Kids PROVE gone'[k] \in {0, gone[k]}
    BY <1>1
  <1>5. flight \in Nat  BY Bounds DEF RevocationInv, WireType
  <1>6. CacheIsAsOld'
    <2>1. cache.keys \subseteq Kids /\ cache.age \in Nat
      BY <1>i, Bounds DEF TypeOK, Caches
    <2>. QED
      BY <1>1, <1>4, <2>1, Bounds DEF RevocationInv, CacheIsAsOld
  <1>7. ASSUME NEW c \in Callers PROVE WireIsNew(c)' /\ ResponseIsNew(c)'
    <2>1. req[c].got.keys \subseteq Kids
      BY <1>i, RequestFields DEF Responses
    <2>2. ResponseIsNew(c)'
      BY <1>1, <1>4, <1>5, <2>1 DEF RevocationInv, ResponseIsNew, At
    <2>3. onWire \subseteq SUBSET Kids  BY DEF RevocationInv, WireType
    <2>4. WireIsNew(c)'
      BY <1>1, <1>4, <1>5, <2>3 DEF RevocationInv, WireIsNew, At
    <2>. QED  BY <2>2, <2>4
  <1>. QED  BY <1>2, <1>3, <1>6, <1>7 DEF RevocationInv

LEMMA NextRevocationInv ==
  ASSUME Prompt
  PROVE  AnswerInv /\ RevocationInv /\ [EnvNext]_allVars => RevocationInv'
  <1>. SUFFICES ASSUME AnswerInv, RevocationInv, [EnvNext]_allVars
                PROVE  RevocationInv'
    OBVIOUS
  <1>1. CASE EnvNext
    BY <1>1, ClientRevocationInv, AnswerRevocationInv, TimeRevocationInv,
       RotateRevocationInv
    DEF EnvNext
  <1>2. CASE UNCHANGED allVars
    BY <1>2 DEF allVars, vars, wire, history, RevocationInv, GoneType, WireType,
                CacheIsAsOld, WireIsNew, ResponseIsNew, At
  <1>. QED  BY <1>1, <1>2

(* A rotated-out key stops working: if no task is delayed, nobody is given *)
(* a key that left the published set max_ttl + stale_grace + http_timeout  *)
(* or longer ago, whatever fetches fail, are cancelled, answer late or     *)
(* carry a longer max-age (jwks.rs:246-250, 299-306, 488).                 *)
THEOREM RotatedKeysDie ==
  ASSUME Prompt, Horizon > 0
  PROVE  EnvSpec => RevocationBound
  <1>1. ASSUME AnswerInv, RevocationInv, [EnvNext]_allVars,
               NEW c \in Callers, Answered(c, "key")
        PROVE  gone[req[c].kid] < LongGone
    <2>i. TypeOK  BY <1>1 DEF AnswerInv, Inv
    <2>a. req[c].answer = "none" /\ req'[c].answer = "key"
      BY <1>1 DEF Answered
    <2>n. [Next]_vars
      <3>1. CASE EnvNext  BY <3>1, EnvSteps DEF TaskStep, Next
      <3>2. CASE UNCHANGED allVars  BY <3>2 DEF allVars
      <3>. QED  BY <1>1, <3>1, <3>2
    <2>t. /\ cache.age \in Nat
          /\ cache.ttl \in 0..MaxTtl
          /\ MaxTtl \in Nat
          /\ StaleGrace \in Nat
      BY <2>i, JwksAssumption DEF JwksAssumption, TypeOK, Caches, Horizon
    <2>u. \A k \in Kids : gone[k] \in 0..LongGone
      BY <1>1 DEF RevocationInv, GoneType
    <2>s. Fresh(req[c].kid) \/ StaleKey(req[c].kid)
            => gone[req[c].kid] < LongGone
      <3>1. Fresh(req[c].kid) \/ StaleKey(req[c].kid)
              => req[c].kid \in cache.keys /\ cache.age < Horizon
        BY <2>t DEF Fresh, StaleKey, WithinGrace, Horizon
      <3>2. req[c].kid \in cache.keys
              => gone[req[c].kid] <= cache.age + HttpTimeout
        BY <1>1 DEF RevocationInv, CacheIsAsOld
      <3>3. cache.keys \subseteq Kids  BY <2>i DEF TypeOK, Caches
      <3>. QED  BY <2>t, <2>u, <3>1, <3>2, <3>3, Bounds
    <2>k. KeyOr(req[c].kid, "unavailable") = "key" => StaleKey(req[c].kid)
      BY DEF KeyOr
    <2>g. \/ FastPath(c) \/ RefreshedMeanwhile(c) \/ HeldByFloor(c)
          \/ HeldByBreaker(c) \/ AnswerFromCache(c)
          \/ CommitKeys(c) \/ CommitFailure(c)
      BY <1>1, <2>i, <2>a, <2>n, OnlyAnswering
    <2>1. CASE ~CommitKeys(c)
      <3>1. Fresh(req[c].kid) \/ StaleKey(req[c].kid)
        BY <2>1, <2>i, <2>a, <2>g, <2>k, AnswersGiven DEF RefreshedMeanwhile
      <3>. QED  BY <2>s, <3>1
    <2>2. CASE CommitKeys(c)
      <3>1. req[c].kid \in req[c].got.keys
        BY <2>2, <2>i, <2>a, AnswersGiven
      <3>2. gone[req[c].kid] <= flight
        BY <1>1, <2>2, <3>1 DEF CommitKeys, RevocationInv, ResponseIsNew
      <3>3. req[c].got.keys \subseteq Kids
        BY <2>i, RequestFields DEF Responses
      <3>4. flight \in 0..HttpTimeout  BY <1>1 DEF RevocationInv, WireType
      <3>. QED  BY <2>u, <3>1, <3>2, <3>3, <3>4, Bounds
    <2>. QED  BY <2>1, <2>2
  <1>2. AnswerInv /\ RevocationInv /\ [EnvNext]_allVars
          => [\A c \in Callers :
                Answered(c, "key") => gone[req[c].kid] < LongGone]_allVars
    BY <1>1
  <1>. QED
    BY <1>2, InitRevocationInv, NextRevocationInv, EnvIsClient, SpecAnswerInv,
       PTL DEF EnvSpec, RevocationBound
=============================================================================
