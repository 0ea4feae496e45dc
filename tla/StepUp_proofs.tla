---------------------------- MODULE StepUp_proofs ---------------------------
(***************************************************************************)
(* Step-up keeps its promises for any number of requests, tokens and       *)
(* purposes: one action per token, no token wasted but by a fault, refusals*)
(* that are true and sessions cleared only when elevated.                  *)
(***************************************************************************)
EXTENDS StepUp, TLAPS

(* Where a request stands tells what it has been through. *)
Untouched(c) ==
  req[c].stage \in {"introspecting", "judged", "presenting", "consuming"}
    => ~req[c].spent /\ ~req[c].faulty

ModeOfStage(c) ==
  /\ req[c].stage \in {"introspecting", "judged"} => req[c].mode = "session"
  /\ req[c].stage \in {"presenting", "consuming", "ruled"}
       => req[c].mode = "single_use"
  /\ req[c].stage \in {"consuming", "ruled"} => req[c].token \in Tokens
  /\ req[c].mode = "session" => ~req[c].spent
  /\ At(c, "cleared") /\ req[c].mode = "single_use"
       => req[c].spent /\ req[c].token \in Tokens

(* What a reply says of the token its request presented. *)
ReplyTellsSpent(c) ==
  At(c, "ruled") =>
    /\ req[c].reply # "none"
    /\ req[c].reply = "consumed" => req[c].spent
    /\ req[c].reply = "conflict" => ~req[c].spent /\ ~req[c].faulty
    /\ req[c].reply \in Unreadable => req[c].faulty
    /\ req[c].spent /\ req[c].token \notin cut => req[c].reply = "consumed"

(* An answer that calls the session elevated was given while it was, and   *)
(* after the request began.                                                *)
SeenIsHeld(c) ==
  /\ account = {"active", "elevated"} /\ ~At(c, "idle") => req[c].held
  /\ At(c, "judged") /\ ElevatedUntil(req[c].body) => req[c].held
  /\ At(c, "cleared") /\ req[c].mode = "session"
       => req[c].held /\ "named" \in req[c].body

RequestGood(c) ==
  Untouched(c) /\ ModeOfStage(c) /\ ReplyTellsSpent(c) /\ SeenIsHeld(c)

RequestInv == \A c \in Callers : RequestGood(c)

(* A token has at most one holder, and none before it is spent or after it *)
(* was used.                                                               *)
HolderOfSpent ==
  \A c \in Callers, t \in Tokens : Holds(c, t) =>
    /\ token[t] = "spent"
    /\ acted[t] = <<>>
    /\ req[c].purpose = IssuedFor[t]

OneHolder ==
  \A c, d \in Callers, t \in Tokens : Holds(c, t) /\ Holds(d, t) => c = d

ActedIsSpent == \A t \in Tokens : acted[t] # <<>> => token[t] = "spent"

StraysAreCut == \A s \in strays : s[1] \in cut

TokenInv ==
  HolderOfSpent /\ OneHolder /\ ActedIsSpent /\ StraysAreCut /\ LostOnlyByFault

Inv == TypeOK /\ RequestInv /\ TokenInv

----------------------------------------------------------------------------
(* The pieces requests are made of. *)

LEMMA RequestFields ==
  ASSUME TypeOK, NEW c \in Callers
  PROVE  /\ req[c].stage \in Stages
         /\ req[c].mode \in Modes
         /\ req[c].purpose \in Purposes
         /\ req[c].token \in Tokens \union {NoToken}
         /\ req[c].body \in Bodies
         /\ req[c].reply \in Replies \union {"none"}
         /\ req[c].spent \in BOOLEAN
         /\ req[c].faulty \in BOOLEAN
         /\ req[c].held \in BOOLEAN
         /\ req[c].answer \in Answers
  BY DEF TypeOK, Requests

LEMMA NewType ==
  ASSUME NEW stage \in Stages, NEW mode \in Modes, NEW purpose \in Purposes,
         NEW t \in Tokens \union {NoToken}
  PROVE  New(stage, mode, purpose, t) \in Requests
  BY DEF New, Requests, Bodies, Replies, Unreadable, Answers

LEMMA IdleType ==
  ASSUME NEW answer \in Answers
  PROVE  /\ Idle(answer) \in Requests
         /\ Idle(answer).stage = "idle"
         /\ Idle(answer).mode = "session"
         /\ Idle(answer).spent = FALSE
         /\ Idle(answer).faulty = FALSE
         /\ Idle(answer).answer = answer
         /\ \A faulty \in BOOLEAN :
              LET r == [Idle(answer) EXCEPT !.faulty = faulty] IN
              /\ r \in Requests
              /\ r.stage = "idle"
              /\ r.mode = "session"
              /\ r.spent = FALSE
              /\ r.faulty = faulty
              /\ r.answer = answer
  <1>1. AnyPurpose \in Purposes
    BY PurposesAssumption DEF PurposesAssumption, AnyPurpose
  <1>2. New("idle", "session", AnyPurpose, NoToken) \in Requests
    BY <1>1, NewType DEF Stages, Modes
  <1>3. Idle(answer) \in Requests
    BY <1>2 DEF Idle, Requests
  <1>4. /\ Idle(answer).stage = "idle"
        /\ Idle(answer).mode = "session"
        /\ Idle(answer).spent = FALSE
        /\ Idle(answer).faulty = FALSE
        /\ Idle(answer).answer = answer
    BY DEF Idle, New
  <1>5. ASSUME NEW r \in Requests, NEW faulty \in BOOLEAN
        PROVE  LET f == [r EXCEPT !.faulty = faulty] IN
               /\ f \in Requests
               /\ f.stage = r.stage /\ f.mode = r.mode
               /\ f.spent = r.spent /\ f.answer = r.answer
               /\ f.faulty = faulty
    BY DEF Requests
  <1>. QED  BY <1>3, <1>4, <1>5

(* A step of one request. *)
LEMMA OneRequest ==
  ASSUME TypeOK, NEW c \in Callers, NEW r \in Requests,
         req' = [req EXCEPT ![c] = r]
  PROVE  /\ req' \in [Callers -> Requests]
         /\ req'[c] = r
         /\ \A d \in Callers \ {c} : req'[d] = req[d]
  BY DEF TypeOK

(* What a step of c may do while the others stay as they are. *)
LEMMA OthersStayGood ==
  ASSUME RequestInv, NEW c \in Callers,
         \A d \in Callers \ {c} : req'[d] = req[d],
         account' = account, cut \subseteq cut', RequestGood(c)'
  PROVE  RequestInv'
  <1>. SUFFICES ASSUME NEW d \in Callers, d # c PROVE RequestGood(d)'
    BY DEF RequestInv
  <1>. RequestGood(d) /\ req'[d] = req[d]  BY DEF RequestInv
  <1>. QED
    BY DEF RequestGood, Untouched, ModeOfStage, ReplyTellsSpent, SeenIsHeld, At

LEMMA IdleIsGood ==
  ASSUME NEW c \in Callers,
         req'[c].stage = "idle", req'[c].mode = "session", req'[c].spent = FALSE
  PROVE  RequestGood(c)' /\ \A t \in Tokens : ~Holds(c, t)'
  BY DEF RequestGood, Untouched, ModeOfStage, ReplyTellsSpent, SeenIsHeld, At,
         Holds

(* A step of c that leaves every token as it is: c may lose what it holds, *)
(* to a fault, and gains nothing.                                          *)
LEMMA TokensKept ==
  ASSUME TokenInv, NEW c \in Callers,
         \A d \in Callers \ {c} : req'[d] = req[d],
         UNCHANGED <<token, acted>>, cut \subseteq cut', StraysAreCut',
         \A t \in Tokens :
           Holds(c, t)' => Holds(c, t) /\ req'[c].purpose = req[c].purpose,
         \A t \in Tokens : Holds(c, t) => Holds(c, t)' \/ t \in cut'
  PROVE  TokenInv'
  <1>1. \A d \in Callers \ {c}, t \in Tokens : Holds(d, t)' <=> Holds(d, t)
    BY DEF Holds
  <1>2. HolderOfSpent'
    <2>. SUFFICES ASSUME NEW d \in Callers, NEW t \in Tokens, Holds(d, t)'
                  PROVE  /\ token[t] = "spent"
                         /\ acted[t] = <<>>
                         /\ req'[d].purpose = IssuedFor[t]
      BY DEF HolderOfSpent
    <2>. QED  BY <1>1 DEF TokenInv, HolderOfSpent
  <1>3. OneHolder'  BY <1>1 DEF TokenInv, OneHolder
  <1>4. ActedIsSpent'  BY DEF TokenInv, ActedIsSpent
  <1>5. LostOnlyByFault'
    <2>. SUFFICES ASSUME NEW t \in Tokens,
                         token[t] = "spent", acted[t] = <<>>, t \notin cut'
                  PROVE  \E d \in Callers : Holds(d, t)'
      BY DEF LostOnlyByFault
    <2>1. PICK d \in Callers : Holds(d, t)
      BY DEF TokenInv, LostOnlyByFault
    <2>. QED  BY <1>1, <2>1
  <1>. QED  BY <1>2, <1>3, <1>4, <1>5 DEF TokenInv

LEMMA InitInv == Init => Inv
  <1>. SUFFICES ASSUME Init PROVE Inv
    OBVIOUS
  <1>1. \A c \in Callers : /\ req[c] \in Requests
                           /\ req[c].stage = "idle"
                           /\ req[c].mode = "session"
                           /\ req[c].spent = FALSE
    BY IdleType DEF Init, Answers
  <1>2. TypeOK
    <2>1. req \in [Callers -> Requests]  BY <1>1 DEF Init
    <2>2. acted \in [Tokens -> Seq(Purposes)]  BY DEF Init
    <2>. QED  BY <2>1, <2>2 DEF Init, TypeOK, TokenStates
  <1>3. RequestInv
    BY <1>1 DEF RequestInv, RequestGood, Untouched, ModeOfStage,
       ReplyTellsSpent, SeenIsHeld, At
  <1>4. \A c \in Callers, t \in Tokens : ~Holds(c, t)
    BY <1>1 DEF Holds
  <1>5. TokenInv
    BY <1>4 DEF Init, TokenInv, HolderOfSpent, OneHolder, ActedIsSpent,
       StraysAreCut, LostOnlyByFault
  <1>. QED  BY <1>2, <1>3, <1>5 DEF Inv

----------------------------------------------------------------------------
(* The steps.                                                              *)

(* A step of c that changes neither a token nor the account.               *)
LEMMA RequestStep ==
  ASSUME Inv, NEW c \in Callers, NEW r \in Requests,
         req' = [req EXCEPT ![c] = r],
         UNCHANGED <<token, account, acted>>,
         strays' \subseteq Tokens \X Purposes, StraysAreCut',
         cut \subseteq cut', cut' \subseteq Tokens, RequestGood(c)',
         \A t \in Tokens :
           Holds(c, t)' => Holds(c, t) /\ r.purpose = req[c].purpose,
         \A t \in Tokens : Holds(c, t) => Holds(c, t)' \/ t \in cut'
  PROVE  Inv'
  <1>1. /\ req' \in [Callers -> Requests]
        /\ req'[c] = r
        /\ \A d \in Callers \ {c} : req'[d] = req[d]
    BY OneRequest DEF Inv
  <1>2. TypeOK'  BY <1>1 DEF Inv, TypeOK
  <1>3. RequestInv'  BY <1>1, OthersStayGood DEF Inv
  <1>4. TokenInv'  BY <1>1, TokensKept DEF Inv
  <1>. QED  BY <1>2, <1>3, <1>4 DEF Inv

(* A step of c that changes nothing else, and neither takes nor loses.     *)
LEMMA QuietStep ==
  ASSUME Inv, NEW c \in Callers, NEW r \in Requests,
         req' = [req EXCEPT ![c] = r],
         UNCHANGED <<authServer, history>>, RequestGood(c)',
         \A t \in Tokens : Holds(c, t)' <=> Holds(c, t),
         \A t \in Tokens : Holds(c, t) => r.purpose = req[c].purpose
  PROVE  Inv'
  <1>1. strays' \subseteq Tokens \X Purposes /\ StraysAreCut' /\ cut' \subseteq Tokens
    BY DEF Inv, TypeOK, TokenInv, StraysAreCut, authServer, history
  <1>. QED  BY <1>1, RequestStep DEF authServer, history

(* A request that starts afresh, or is answered, holding nothing.          *)
LEMMA BeginInv ==
  ASSUME Inv, NEW c \in Callers, NEW stage \in {"introspecting", "presenting"},
         NEW mode \in Modes, NEW p \in Purposes,
         NEW t \in Tokens \union {NoToken}, Begin(c, stage, mode, p, t),
         stage = "presenting" <=> mode = "single_use"
  PROVE  Inv'
  <1>. DEFINE r == New(stage, mode, p, t)
  <1>1. r \in Requests  BY NewType DEF Stages
  <1>2. /\ r.stage = stage /\ r.mode = mode /\ r.spent = FALSE
        /\ r.faulty = FALSE /\ r.held = (account = {"active", "elevated"})
    BY DEF New
  <1>3. req' = [req EXCEPT ![c] = r] /\ At(c, "idle")
        /\ UNCHANGED <<authServer, history>>
    BY DEF Begin
  <1>4. req'[c] = r  BY <1>1, <1>3, OneRequest DEF Inv
  <1>. HIDE DEF r
  <1>5. RequestGood(c)'
    BY <1>2, <1>3, <1>4 DEF RequestGood, Untouched, ModeOfStage,
       ReplyTellsSpent, SeenIsHeld, At, authServer, Modes
  <1>6. \A u \in Tokens : ~Holds(c, u)' /\ ~Holds(c, u)
    BY <1>2, <1>3, <1>4 DEF Holds, At
  <1>. QED  BY <1>1, <1>3, <1>5, <1>6, QuietStep

LEMMA RefusedType ==
  ASSUME TypeOK, NEW c \in Callers, NEW error \in {"required", "unavailable"},
         Refuse(c, error)
  PROVE  \E r \in Requests :
           /\ req' = [req EXCEPT ![c] = r]
           /\ r.stage = "idle" /\ r.mode = "session" /\ r.spent = FALSE
           /\ r.faulty = req[c].faulty /\ r.answer = IntoResponse(error)
  <1>1. IntoResponse(error) \in Answers  BY DEF IntoResponse, Answers
  <1>2. req[c].faulty \in BOOLEAN  BY RequestFields
  <1>. DEFINE r == [Idle(IntoResponse(error)) EXCEPT !.faulty = req[c].faulty]
  <1>3. /\ Idle(IntoResponse(error)) \in Requests
        /\ Idle(IntoResponse(error)).stage = "idle"
        /\ Idle(IntoResponse(error)).mode = "session"
        /\ Idle(IntoResponse(error)).spent = FALSE
        /\ Idle(IntoResponse(error)).answer = IntoResponse(error)
    BY <1>1, IdleType
  <1>5. /\ r \in Requests
        /\ r.stage = "idle" /\ r.mode = "session" /\ r.spent = FALSE
        /\ r.faulty = req[c].faulty /\ r.answer = IntoResponse(error)
    BY <1>2, <1>3 DEF Requests
  <1>4. req' = [req EXCEPT ![c] = r]  BY DEF Refuse
  <1>. QED  BY <1>4, <1>5

LEMMA UnansweredType ==
  ASSUME NEW c \in Callers, Unanswered(c)
  PROVE  \E r \in Requests :
           /\ req' = [req EXCEPT ![c] = r]
           /\ r.stage = "idle" /\ r.mode = "session" /\ r.spent = FALSE
           /\ r.faulty = TRUE /\ r.answer = "503"
  <1>1. IntoResponse("unavailable") = "503" /\ "503" \in Answers
    BY DEF IntoResponse, Answers
  <1>. QED  BY <1>1, IdleType DEF Unanswered

(* An answer to one who holds nothing. *)
LEMMA AnswerInv ==
  ASSUME Inv, NEW c \in Callers, NEW r \in Requests,
         req' = [req EXCEPT ![c] = r], r.stage = "idle", r.mode = "session",
         r.spent = FALSE, UNCHANGED <<token, account, acted>>,
         strays' \subseteq Tokens \X Purposes, StraysAreCut',
         cut \subseteq cut', cut' \subseteq Tokens,
         \A t \in Tokens : Holds(c, t) => t \in cut'
  PROVE  Inv'
  <1>1. req'[c] = r  BY OneRequest DEF Inv
  <1>2. RequestGood(c)' /\ \A t \in Tokens : ~Holds(c, t)'
    BY <1>1, IdleIsGood
  <1>. QED  BY <1>2, RequestStep

LEMMA BeginSessionInv ==
  ASSUME Inv, NEW c \in Callers, BeginSession(c) PROVE Inv'
  <1>1. AnyPurpose \in Purposes
    BY PurposesAssumption DEF PurposesAssumption, AnyPurpose
  <1>. QED  BY <1>1, BeginInv DEF BeginSession, Modes

LEMMA BeginSingleUseInv ==
  ASSUME Inv, NEW c \in Callers, BeginSingleUse(c) PROVE Inv'
  BY BeginInv DEF BeginSingleUse, Modes

LEMMA IdpAnswersInv ==
  ASSUME Inv, NEW c \in Callers, IdpAnswers(c) PROVE Inv'
  <1>1. PICK body \in Bodies :
          /\ body \subseteq account \union {"named"}
          /\ req' = [req EXCEPT ![c] =
                       [@ EXCEPT !.stage = "judged", !.body = body]]
    BY DEF IdpAnswers
  <1>. DEFINE r == [[req[c] EXCEPT !.stage = "judged"] EXCEPT !.body = body]
  <1>2. req[c] \in Requests  BY DEF Inv, TypeOK
  <1>3. /\ r \in Requests /\ r.stage = "judged" /\ r.body = body
        /\ r.mode = req[c].mode /\ r.purpose = req[c].purpose
        /\ r.token = req[c].token /\ r.spent = req[c].spent
        /\ r.faulty = req[c].faulty /\ r.held = req[c].held
    BY <1>2 DEF Requests, Stages
  <1>4. req' = [req EXCEPT ![c] = r]  BY <1>1
  <1>. HIDE DEF r
  <1>5. req'[c] = r  BY <1>3, <1>4, OneRequest DEF Inv
  <1>6. At(c, "introspecting") /\ UNCHANGED <<authServer, history>>
    BY DEF IdpAnswers
  <1>7. RequestGood(c)  BY DEF Inv, RequestInv
  <1>8. ElevatedUntil(body) => account = {"active", "elevated"}
    <2>. SUFFICES ASSUME ElevatedUntil(body)
                  PROVE  account = {"active", "elevated"}
      OBVIOUS
    <2>1. "active" \in account /\ "elevated" \in account
      BY <1>1 DEF ElevatedUntil
    <2>2. account \subseteq {"active", "elevated"}
      BY DEF Inv, TypeOK, Accounts
    <2>. QED  BY <2>1, <2>2
  <1>9. RequestGood(c)'
    BY <1>3, <1>5, <1>6, <1>7, <1>8 DEF RequestGood, Untouched, ModeOfStage,
       ReplyTellsSpent, SeenIsHeld, At, authServer
  <1>10. \A t \in Tokens : ~Holds(c, t) /\ ~Holds(c, t)'
    BY <1>3, <1>5, <1>6 DEF Holds, At
  <1>. QED  BY <1>3, <1>4, <1>6, <1>9, <1>10, QuietStep

LEMMA IntrospectFailsInv ==
  ASSUME Inv, NEW c \in Callers, IntrospectFails(c) PROVE Inv'
  <1>1. PICK r \in Requests :
          /\ req' = [req EXCEPT ![c] = r]
          /\ r.stage = "idle" /\ r.mode = "session" /\ r.spent = FALSE
    BY UnansweredType DEF IntrospectFails
  <1>2. \A t \in Tokens : ~Holds(c, t)
    BY DEF IntrospectFails, Holds
  <1>3. strays' \subseteq Tokens \X Purposes /\ StraysAreCut' /\ cut' \subseteq Tokens
    BY DEF IntrospectFails, Inv, TypeOK, TokenInv, StraysAreCut, authServer,
       history
  <1>. QED  BY <1>1, <1>2, <1>3, AnswerInv DEF IntrospectFails, authServer, history

(* A refusal, of one who holds nothing, that changes nothing else. *)
LEMMA RefuseInv ==
  ASSUME Inv, NEW c \in Callers, NEW error \in {"required", "unavailable"},
         Refuse(c, error), UNCHANGED <<authServer, history>>,
         \A t \in Tokens : Holds(c, t) => t \in cut
  PROVE  Inv'
  <1>1. PICK r \in Requests :
          /\ req' = [req EXCEPT ![c] = r]
          /\ r.stage = "idle" /\ r.mode = "session" /\ r.spent = FALSE
    BY RefusedType DEF Inv
  <1>2. strays' \subseteq Tokens \X Purposes /\ StraysAreCut' /\ cut' \subseteq Tokens
    BY DEF Inv, TypeOK, TokenInv, StraysAreCut, authServer, history
  <1>. QED  BY <1>1, <1>2, AnswerInv DEF authServer, history

(* A step of c to another stage, with its other fields as they are. *)
LEMMA Staged ==
  ASSUME TypeOK, NEW c \in Callers, NEW stage \in Stages,
         req' = [req EXCEPT ![c] = [@ EXCEPT !.stage = stage]]
  PROVE  \E r \in Requests :
           /\ req' = [req EXCEPT ![c] = r]
           /\ req'[c] = r /\ r.stage = stage
           /\ r.mode = req[c].mode /\ r.purpose = req[c].purpose
           /\ r.token = req[c].token /\ r.body = req[c].body
           /\ r.reply = req[c].reply /\ r.spent = req[c].spent
           /\ r.faulty = req[c].faulty /\ r.held = req[c].held
  <1>. DEFINE r == [req[c] EXCEPT !.stage = stage]
  <1>1. req[c] \in Requests  BY DEF TypeOK
  <1>2. /\ r \in Requests /\ r.stage = stage
        /\ r.mode = req[c].mode /\ r.purpose = req[c].purpose
        /\ r.token = req[c].token /\ r.body = req[c].body
        /\ r.reply = req[c].reply /\ r.spent = req[c].spent
        /\ r.faulty = req[c].faulty /\ r.held = req[c].held
    BY <1>1 DEF Requests
  <1>3. req' = [req EXCEPT ![c] = r]  OBVIOUS
  <1>. HIDE DEF r
  <1>. QED  BY <1>2, <1>3, OneRequest

LEMMA RequireStepUpInv ==
  ASSUME Inv, NEW c \in Callers, RequireStepUp(c) PROVE Inv'
  <1>1. At(c, "judged") /\ UNCHANGED <<authServer, history>>
    BY DEF RequireStepUp
  <1>2. RequestGood(c)  BY DEF Inv, RequestInv
  <1>3. \A t \in Tokens : ~Holds(c, t)  BY <1>1 DEF Holds, At
  <1>4. CASE Elevation(req[c].body)
    <2>1. req' = [req EXCEPT ![c] = [@ EXCEPT !.stage = "cleared"]]
      BY <1>4 DEF RequireStepUp
    <2>2. PICK r \in Requests :
           /\ req' = [req EXCEPT ![c] = r]
           /\ req'[c] = r /\ r.stage = "cleared"
           /\ r.mode = req[c].mode /\ r.purpose = req[c].purpose
           /\ r.token = req[c].token /\ r.body = req[c].body
           /\ r.reply = req[c].reply /\ r.spent = req[c].spent
           /\ r.faulty = req[c].faulty /\ r.held = req[c].held
      BY <2>1, Staged DEF Inv, Stages
    <2>3. "named" \in req[c].body /\ ElevatedUntil(req[c].body)
      BY <1>4 DEF Elevation, VerdictActive
    <2>4. RequestGood(c)'
      BY <1>1, <1>2, <2>2, <2>3 DEF RequestGood, Untouched, ModeOfStage,
         ReplyTellsSpent, SeenIsHeld, At, authServer
    <2>5. \A t \in Tokens : ~Holds(c, t)'
      BY <1>1, <1>2, <2>2 DEF Holds, At, RequestGood, Untouched
    <2>. QED  BY <1>1, <1>3, <2>2, <2>4, <2>5, QuietStep
  <1>5. CASE ~Elevation(req[c].body)
    BY <1>1, <1>3, <1>5, RefuseInv DEF RequireStepUp
  <1>. QED  BY <1>4, <1>5

LEMMA TokenMissingInv ==
  ASSUME Inv, NEW c \in Callers, TokenMissing(c) PROVE Inv'
  <1>1. At(c, "presenting") /\ Refuse(c, "required")
        /\ UNCHANGED <<authServer, history>>
    BY DEF TokenMissing
  <1>2. \A t \in Tokens : ~Holds(c, t)  BY <1>1 DEF Holds, At
  <1>. QED  BY <1>1, <1>2, RefuseInv

LEMMA ConsumeInv ==
  ASSUME Inv, NEW c \in Callers, Consume(c) PROVE Inv'
  <1>1. /\ At(c, "presenting") /\ req[c].token # NoToken
        /\ req' = [req EXCEPT ![c] = [@ EXCEPT !.stage = "consuming"]]
        /\ UNCHANGED <<authServer, history>>
    BY DEF Consume
  <1>2. PICK r \in Requests :
           /\ req' = [req EXCEPT ![c] = r]
           /\ req'[c] = r /\ r.stage = "consuming"
           /\ r.mode = req[c].mode /\ r.purpose = req[c].purpose
           /\ r.token = req[c].token /\ r.body = req[c].body
           /\ r.reply = req[c].reply /\ r.spent = req[c].spent
           /\ r.faulty = req[c].faulty /\ r.held = req[c].held
    BY <1>1, Staged DEF Inv, Stages
  <1>3. RequestGood(c)  BY DEF Inv, RequestInv
  <1>4. req[c].token \in Tokens  BY <1>1, RequestFields DEF Inv
  <1>5. RequestGood(c)'
    BY <1>1, <1>2, <1>3, <1>4 DEF RequestGood, Untouched, ModeOfStage,
       ReplyTellsSpent, SeenIsHeld, At, authServer
  <1>6. \A t \in Tokens : ~Holds(c, t)' /\ ~Holds(c, t)
    BY <1>1, <1>2 DEF Holds, At
  <1>. QED  BY <1>1, <1>2, <1>5, <1>6, QuietStep

(* The auth server's ruling is the one step that takes a token. *)
LEMMA AuthServerRulesInv ==
  ASSUME Inv, NEW c \in Callers, AuthServerRules(c) PROVE Inv'
  <1>. DEFINE t == req[c].token
              spends == Spends(t, req[c].purpose)
              reply == IF spends THEN "consumed" ELSE "conflict"
              r == [[[req[c] EXCEPT !.stage = "ruled"] EXCEPT !.spent = spends]
                      EXCEPT !.reply = reply]
  <1>1. /\ At(c, "consuming")
        /\ IF spends THEN Spend(t) ELSE UNCHANGED token
        /\ req' = [req EXCEPT ![c] = r]
        /\ UNCHANGED <<account, strays, history>>
    BY DEF AuthServerRules
  <1>2. RequestGood(c) /\ TypeOK /\ RequestInv /\ TokenInv
    BY DEF Inv, RequestInv
  <1>3. t \in Tokens /\ ~req[c].spent /\ ~req[c].faulty
    BY <1>1, <1>2 DEF RequestGood, ModeOfStage, Untouched, At
  <1>4. spends \in BOOLEAN /\ reply \in Replies
    BY DEF Spends, Replies
  <1>5. req[c] \in Requests  BY <1>2 DEF TypeOK
  <1>6. /\ r \in Requests /\ r.stage = "ruled" /\ r.spent = spends
        /\ r.reply = reply /\ r.mode = req[c].mode
        /\ r.purpose = req[c].purpose /\ r.token = t
        /\ r.faulty = req[c].faulty /\ r.held = req[c].held
    <2>. HIDE DEF spends, reply
    <2>. QED  BY <1>4, <1>5 DEF Requests, Stages
  <1>. HIDE DEF r
  <1>7. /\ req' \in [Callers -> Requests] /\ req'[c] = r
        /\ \A d \in Callers \ {c} : req'[d] = req[d]
    BY <1>1, <1>2, <1>6, OneRequest
  <1>8. RequestGood(c)'
    <2>1. ~r.faulty /\ (reply = "consumed" <=> spends) /\ reply # "none"
          /\ reply \notin Unreadable
      BY <1>3, <1>6 DEF Unreadable
    <2>. HIDE DEF reply, spends
    <2>. QED
      BY <1>1, <1>2, <1>3, <1>6, <1>7, <2>1 DEF RequestGood, Untouched,
         ModeOfStage, ReplyTellsSpent, SeenIsHeld, At
  <1>9. RequestInv'
    BY <1>1, <1>2, <1>7, <1>8, OthersStayGood DEF history
  <1>10. \A d \in Callers \ {c}, u \in Tokens : Holds(d, u)' <=> Holds(d, u)
    BY <1>7 DEF Holds
  <1>11. \A u \in Tokens : ~Holds(c, u)  BY <1>1 DEF Holds, At
  <1>12. StraysAreCut' /\ UNCHANGED <<acted, cut>>
    BY <1>1, <1>2 DEF TokenInv, StraysAreCut, history
  <1>13. CASE ~spends
    <2>1. UNCHANGED token  BY <1>1, <1>13
    <2>2. \A u \in Tokens : ~Holds(c, u)'
      BY <1>6, <1>7, <1>13 DEF Holds
    <2>3. TypeOK'  BY <1>1, <1>2, <1>7, <2>1 DEF TypeOK, history
    <2>4. TokenInv'
      <3>. HIDE DEF spends, t
      <3>. QED  BY <1>2, <1>7, <1>11, <1>12, <2>1, <2>2, TokensKept
    <2>. QED  BY <1>9, <2>3, <2>4 DEF Inv
  <1>14. CASE spends
    <2>1. token[t] = "live" /\ IssuedFor[t] = req[c].purpose
      BY <1>14 DEF Spends
    <2>2. /\ token' \in [Tokens -> TokenStates] /\ token'[t] = "spent"
          /\ \A u \in Tokens \ {t} : token'[u] = token[u]
      <3>. HIDE DEF t
      <3>. QED  BY <1>1, <1>2, <1>3, <1>14 DEF Spend, TypeOK, TokenStates
    <2>3. \A u \in Tokens : Holds(c, u)' <=> u = t
      BY <1>3, <1>6, <1>7, <1>14 DEF Holds
    <2>4. acted[t] = <<>> /\ \A d \in Callers : ~Holds(d, t)
      BY <1>2, <1>3, <2>1 DEF TokenInv, ActedIsSpent, HolderOfSpent
    <2>5. TypeOK'  BY <1>1, <1>2, <1>7, <2>2 DEF TypeOK, history
    <2>. HIDE DEF spends, t
    <2>6. HolderOfSpent'
      <3>. SUFFICES ASSUME NEW d \in Callers, NEW u \in Tokens, Holds(d, u)'
                    PROVE  /\ token'[u] = "spent"
                           /\ acted[u] = <<>>
                           /\ req'[d].purpose = IssuedFor[u]
        BY <1>12 DEF HolderOfSpent
      <3>1. CASE u = t
        <4>1. d = c  BY <1>10, <2>4, <3>1
        <4>. QED  BY <1>6, <1>7, <2>1, <2>2, <2>4, <3>1, <4>1
      <3>2. CASE u # t
        <4>1. d # c  BY <2>3, <3>2
        <4>2. Holds(d, u)  BY <1>10, <4>1
        <4>. QED  BY <1>2, <1>7, <2>2, <3>2, <4>1, <4>2
                  DEF TokenInv, HolderOfSpent
      <3>. QED  BY <3>1, <3>2
    <2>7. OneHolder'
      <3>. SUFFICES ASSUME NEW d \in Callers, NEW e \in Callers,
                           NEW u \in Tokens, Holds(d, u)', Holds(e, u)'
                    PROVE  d = e
        BY DEF OneHolder
      <3>1. CASE u = t  BY <1>10, <2>4, <3>1
      <3>2. CASE u # t
        BY <1>2, <1>10, <2>3, <3>2 DEF TokenInv, OneHolder
      <3>. QED  BY <3>1, <3>2
    <2>8. ActedIsSpent'
      BY <1>2, <1>12, <2>2 DEF TokenInv, ActedIsSpent
    <2>9. LostOnlyByFault'
      <3>. SUFFICES ASSUME NEW u \in Tokens, token'[u] = "spent",
                           acted[u] = <<>>, u \notin cut
                    PROVE  \E d \in Callers : Holds(d, u)'
        BY <1>12 DEF LostOnlyByFault
      <3>1. CASE u = t  BY <2>3, <3>1
      <3>2. CASE u # t
        <4>1. PICK d \in Callers : Holds(d, u)
          BY <1>2, <2>2, <3>2 DEF TokenInv, LostOnlyByFault
        <4>. QED  BY <1>10, <1>11, <4>1
      <3>. QED  BY <3>1, <3>2
    <2>. QED  BY <1>9, <1>12, <2>5, <2>6, <2>7, <2>8, <2>9 DEF Inv, TokenInv
  <1>. HIDE DEF spends
  <1>. QED  BY <1>13, <1>14

(* Whoever leaves the auth server's call may leave it on its way. *)
LEMMA LeaveCallCuts ==
  ASSUME Inv, NEW c \in Callers, LeaveCall(c)
  PROVE  /\ UNCHANGED <<token, account, acted>>
         /\ strays' \subseteq Tokens \X Purposes
         /\ StraysAreCut'
         /\ cut \subseteq cut' /\ cut' \subseteq Tokens
         /\ \A t \in Tokens : Holds(c, t) => t \in cut'
  <1>1. /\ req[c].token \in Tokens \union {NoToken}
        /\ req[c].purpose \in Purposes /\ RequestGood(c)
    BY RequestFields DEF Inv, RequestInv
  <1>2. At(c, "consuming") => req[c].token \in Tokens
    BY <1>1 DEF RequestGood, ModeOfStage, At
  <1>3. /\ strays' = IF At(c, "consuming")
                     THEN strays \union {<<req[c].token, req[c].purpose>>}
                     ELSE strays
        /\ cut' = cut \union ({req[c].token} \ {NoToken})
        /\ UNCHANGED <<token, account, acted>>
    BY DEF LeaveCall
  <1>4. strays' \subseteq Tokens \X Purposes
    BY <1>1, <1>2, <1>3 DEF Inv, TypeOK
  <1>5. StraysAreCut'
    BY <1>2, <1>3, NoTokenAssumption
       DEF Inv, TokenInv, StraysAreCut, NoTokenAssumption
  <1>6. cut' \subseteq Tokens /\ cut \subseteq cut'
    BY <1>1, <1>3 DEF Inv, TypeOK
  <1>7. \A t \in Tokens : Holds(c, t) => t \in cut'
    BY <1>3, NoTokenAssumption DEF Holds, NoTokenAssumption
  <1>. QED  BY <1>3, <1>4, <1>5, <1>6, <1>7

LEMMA ReplyGarbledInv ==
  ASSUME Inv, NEW c \in Callers, ReplyGarbled(c) PROVE Inv'
  <1>1. PICK reply \in Unreadable :
          req' = [req EXCEPT ![c] = [@ EXCEPT !.stage = "ruled",
                                       !.reply = reply, !.faulty = TRUE]]
    BY DEF ReplyGarbled
  <1>2. /\ req[c].stage \in {"consuming", "ruled"}
        /\ LeaveCall(c)
    BY DEF ReplyGarbled
  <1>w. /\ UNCHANGED <<token, account, acted>>
        /\ strays' \subseteq Tokens \X Purposes /\ StraysAreCut'
        /\ cut \subseteq cut' /\ cut' \subseteq Tokens
        /\ \A t \in Tokens : Holds(c, t) => t \in cut'
    BY <1>2, LeaveCallCuts
  <1>. DEFINE r == [[[req[c] EXCEPT !.stage = "ruled"] EXCEPT !.reply = reply]
                      EXCEPT !.faulty = TRUE]
  <1>3. req[c] \in Requests /\ RequestGood(c)
    BY DEF Inv, TypeOK, RequestInv
  <1>4. /\ r \in Requests /\ r.stage = "ruled" /\ r.reply = reply
        /\ r.faulty = TRUE /\ r.mode = req[c].mode /\ r.spent = req[c].spent
        /\ r.purpose = req[c].purpose /\ r.token = req[c].token
        /\ r.held = req[c].held
    BY <1>3 DEF Requests, Stages, Replies
  <1>5. req' = [req EXCEPT ![c] = r]  BY <1>1
  <1>. HIDE DEF r
  <1>6. req'[c] = r  BY <1>4, <1>5, OneRequest DEF Inv
  <1>7. req[c].token \in Tokens
    BY <1>2, <1>3 DEF RequestGood, ModeOfStage
  <1>8. RequestGood(c)'
    <2>1. req[c].stage # "idle" /\ account' = account /\ req[c].token \in cut'
      BY <1>2, <1>7, <1>w, NoTokenAssumption DEF LeaveCall, NoTokenAssumption
    <2>2. reply # "none" /\ reply # "consumed" /\ reply # "conflict"
      BY DEF Unreadable
    <2>. QED
      BY <1>2, <1>3, <1>4, <1>6, <2>1, <2>2 DEF RequestGood, Untouched,
         ModeOfStage, ReplyTellsSpent, SeenIsHeld, At
  <1>9. /\ cut \subseteq cut' /\ cut' \subseteq Tokens
        /\ strays' \subseteq Tokens \X Purposes /\ StraysAreCut'
        /\ UNCHANGED <<token, account, acted>>
    BY <1>w
  <1>10. \A t \in Tokens : Holds(c, t)' => Holds(c, t)
    BY <1>2, <1>3, <1>4, <1>6 DEF Holds, RequestGood, Untouched
  <1>. QED  BY <1>4, <1>5, <1>8, <1>9, <1>10, <1>w, RequestStep

LEMMA NoReplyInv ==
  ASSUME Inv, NEW c \in Callers, NoReply(c) PROVE Inv'
  <1>1. PICK r \in Requests :
          /\ req' = [req EXCEPT ![c] = r]
          /\ r.stage = "idle" /\ r.mode = "session" /\ r.spent = FALSE
    BY UnansweredType DEF NoReply
  <1>. QED  BY <1>1, LeaveCallCuts, AnswerInv DEF NoReply

LEMMA CancelRequestInv ==
  ASSUME Inv, NEW c \in Callers, CancelRequest(c) PROVE Inv'
  <1>1. PICK r \in Requests :
          /\ req' = [req EXCEPT ![c] = r]
          /\ r.stage = "idle" /\ r.mode = "session" /\ r.spent = FALSE
    BY IdleType DEF CancelRequest, Answer, Answers
  <1>. QED  BY <1>1, LeaveCallCuts, AnswerInv DEF CancelRequest

(* A ruling either clears the one who holds the token, or finds its        *)
(* request holding nothing, or holding what a fault has cut.               *)
LEMMA ReadRulingInv ==
  ASSUME Inv, NEW c \in Callers, ReadRuling(c) PROVE Inv'
  <1>1. At(c, "ruled") /\ UNCHANGED <<authServer, history>>
    BY DEF ReadRuling
  <1>2. RequestGood(c)  BY DEF Inv, RequestInv
  <1>3. CASE Ruling(req[c].reply) = "spent"
    <2>1. req' = [req EXCEPT ![c] = [@ EXCEPT !.stage = "cleared"]]
      BY <1>3 DEF ReadRuling
    <2>2. PICK r \in Requests :
           /\ req' = [req EXCEPT ![c] = r]
           /\ req'[c] = r /\ r.stage = "cleared"
           /\ r.mode = req[c].mode /\ r.purpose = req[c].purpose
           /\ r.token = req[c].token /\ r.body = req[c].body
           /\ r.reply = req[c].reply /\ r.spent = req[c].spent
           /\ r.faulty = req[c].faulty /\ r.held = req[c].held
      BY <2>1, Staged DEF Inv, Stages
    <2>3. req[c].reply = "consumed"  BY <1>3 DEF Ruling
    <2>4. RequestGood(c)'
      BY <1>1, <1>2, <2>2, <2>3 DEF RequestGood, Untouched, ModeOfStage,
         ReplyTellsSpent, SeenIsHeld, At, authServer
    <2>5. \A t \in Tokens : Holds(c, t)' <=> Holds(c, t)
      BY <1>1, <2>2 DEF Holds, At
    <2>. QED  BY <1>1, <2>2, <2>4, <2>5, QuietStep
  <1>4. CASE Ruling(req[c].reply) # "spent"
    <2>1. Ruling(req[c].reply) \in {"required", "unavailable"}
      BY <1>4 DEF Ruling
    <2>2. \A t \in Tokens : Holds(c, t) => t \in cut
      BY <1>1, <1>2, <1>4 DEF Holds, Ruling, RequestGood, ReplyTellsSpent
    <2>3. Refuse(c, Ruling(req[c].reply))  BY <1>4 DEF ReadRuling
    <2>. QED  BY <1>1, <2>1, <2>2, <2>3, RefuseInv
  <1>. QED  BY <1>3, <1>4

(* The one who holds the token runs its action, and holds it no more. *)
LEMMA ActInv ==
  ASSUME Inv, NEW c \in Callers, Act(c) PROVE Inv'
  <1>1. /\ At(c, "cleared") /\ Answer(c, "acted")
        /\ UNCHANGED <<authServer, cut>>
    BY DEF Act
  <1>2. PICK r \in Requests :
          /\ req' = [req EXCEPT ![c] = r]
          /\ r.stage = "idle" /\ r.mode = "session" /\ r.spent = FALSE
    BY <1>1, IdleType DEF Answer, Answers
  <1>3. TypeOK /\ RequestGood(c) /\ RequestInv /\ TokenInv
    BY DEF Inv, RequestInv
  <1>4. CASE req[c].mode = "session"
    <2>1. UNCHANGED acted  BY <1>4 DEF Act
    <2>2. \A t \in Tokens : ~Holds(c, t)
      BY <1>3, <1>4 DEF Holds, RequestGood, ModeOfStage
    <2>3. /\ UNCHANGED <<token, account, acted>> /\ StraysAreCut'
          /\ strays' \subseteq Tokens \X Purposes
          /\ cut \subseteq cut' /\ cut' \subseteq Tokens
      BY <1>1, <1>3, <2>1 DEF TypeOK, TokenInv, StraysAreCut, authServer
    <2>. QED  BY <1>2, <2>2, <2>3, AnswerInv
  <1>5. CASE req[c].mode # "session"
    <2>. DEFINE t == req[c].token  p == req[c].purpose
    <2>1. req[c].mode = "single_use" /\ t \in Tokens /\ req[c].spent
      BY <1>1, <1>3, <1>5, RequestFields DEF RequestGood, ModeOfStage, Modes
    <2>2. Holds(c, t)  BY <1>1, <2>1 DEF Holds, At
    <2>3. p \in Purposes  BY <1>3, RequestFields
    <2>4. acted' = [acted EXCEPT ![t] = Append(@, p)]
      BY <1>5 DEF Act
    <2>5. /\ req' \in [Callers -> Requests] /\ req'[c] = r
          /\ \A d \in Callers \ {c} : req'[d] = req[d]
      BY <1>2, <1>3, OneRequest
    <2>6. /\ RequestGood(c)'
          /\ \A u \in Tokens : ~Holds(c, u)'
      BY <1>2, <2>5, IdleIsGood
    <2>7. \A u \in Tokens : Holds(c, u) <=> u = t
      BY <2>1, <2>2 DEF Holds
    <2>8. \A d \in Callers, u \in Tokens :
            Holds(d, u)' <=> Holds(d, u) /\ d # c
      BY <2>5, <2>6 DEF Holds
    <2>9. token[t] = "spent" /\ acted[t] = <<>>
      BY <1>3, <2>1, <2>2 DEF TokenInv, HolderOfSpent
    <2>. HIDE DEF t, p
    <2>10. /\ acted' \in [Tokens -> Seq(Purposes)]
           /\ acted'[t] # <<>>
           /\ \A u \in Tokens \ {t} : acted'[u] = acted[u]
      <3>1. acted[t] \in Seq(Purposes)  BY <1>3, <2>1 DEF TypeOK
      <3>2. Append(acted[t], p) \in Seq(Purposes)
            /\ Append(acted[t], p) # <<>>
        BY <2>3, <2>9, <3>1
      <3>. QED  BY <1>3, <2>1, <2>4, <3>2 DEF TypeOK
    <2>11. TypeOK'
      BY <1>1, <1>3, <2>5, <2>10 DEF TypeOK, authServer
    <2>12. RequestInv'
      BY <1>1, <1>3, <2>5, <2>6, OthersStayGood DEF authServer
    <2>13. HolderOfSpent'
      <3>. SUFFICES ASSUME NEW d \in Callers, NEW u \in Tokens, Holds(d, u)'
                    PROVE  /\ token[u] = "spent"
                           /\ acted'[u] = <<>>
                           /\ req'[d].purpose = IssuedFor[u]
        BY <1>1 DEF HolderOfSpent, authServer
      <3>1. Holds(d, u) /\ d # c  BY <2>8
      <3>2. u # t
        BY <1>3, <2>1, <2>7, <3>1 DEF TokenInv, OneHolder
      <3>. QED
        BY <1>3, <2>5, <2>10, <3>1, <3>2 DEF TokenInv, HolderOfSpent
    <2>14. OneHolder'  BY <1>3, <2>8 DEF TokenInv, OneHolder
    <2>15. ActedIsSpent'
      BY <1>1, <1>3, <2>9, <2>10 DEF TokenInv, ActedIsSpent, authServer
    <2>16. StraysAreCut'
      BY <1>1, <1>3 DEF TokenInv, StraysAreCut, authServer
    <2>17. LostOnlyByFault'
      <3>. SUFFICES ASSUME NEW u \in Tokens, token[u] = "spent",
                           acted'[u] = <<>>, u \notin cut
                    PROVE  \E d \in Callers : Holds(d, u)'
        BY <1>1 DEF LostOnlyByFault, authServer
      <3>1. u # t /\ acted[u] = <<>>  BY <2>10
      <3>2. PICK d \in Callers : Holds(d, u)
        BY <1>3, <3>1 DEF TokenInv, LostOnlyByFault
      <3>3. d # c  BY <2>7, <3>1, <3>2
      <3>. QED  BY <2>8, <3>2, <3>3
    <2>. QED
      BY <2>11, <2>12, <2>13, <2>14, <2>15, <2>16, <2>17 DEF Inv, TokenInv
  <1>. QED  BY <1>4, <1>5

(* No caller's step: a token nobody has spent moves on, to be spent only   *)
(* where a cut-off call left it.                                           *)
LEMMA TokenMoves ==
  ASSUME Inv, NEW t \in Tokens, NEW s \in TokenStates,
         token' = [token EXCEPT ![t] = s], token[t] # "spent",
         s = "spent" => t \in cut,
         strays' \subseteq strays, UNCHANGED <<account, req, history>>
  PROVE  Inv'
  <1>1. /\ token' \in [Tokens -> TokenStates] /\ token'[t] = s
        /\ \A u \in Tokens \ {t} : token'[u] = token[u]
    BY DEF Inv, TypeOK
  <1>2. TypeOK'  BY <1>1 DEF Inv, TypeOK, history
  <1>3. RequestInv'
    BY DEF Inv, RequestInv, RequestGood, Untouched, ModeOfStage,
       ReplyTellsSpent, SeenIsHeld, At, history
  <1>4. \A d \in Callers, u \in Tokens : Holds(d, u)' <=> Holds(d, u)
    BY DEF Holds
  <1>5. acted[t] = <<>> /\ \A d \in Callers : ~Holds(d, t)
    BY DEF Inv, TokenInv, ActedIsSpent, HolderOfSpent
  <1>6. HolderOfSpent'
    BY <1>1, <1>4, <1>5 DEF Inv, TokenInv, HolderOfSpent, history
  <1>7. OneHolder'  BY <1>4 DEF Inv, TokenInv, OneHolder
  <1>8. ActedIsSpent'
    BY <1>1, <1>5 DEF Inv, TokenInv, ActedIsSpent, history
  <1>9. StraysAreCut'  BY DEF Inv, TokenInv, StraysAreCut, history
  <1>10. LostOnlyByFault'
    BY <1>1, <1>4 DEF Inv, TokenInv, LostOnlyByFault, history
  <1>. QED
    BY <1>2, <1>3, <1>6, <1>7, <1>8, <1>9, <1>10 DEF Inv, TokenInv

LEMMA IssueInv ==
  ASSUME Inv, NEW t \in Tokens, Issue(t) PROVE Inv'
  BY TokenMoves DEF Issue, TokenStates

LEMMA ExpireInv ==
  ASSUME Inv, NEW t \in Tokens, Expire(t) PROVE Inv'
  BY TokenMoves DEF Expire, TokenStates

LEMMA StrayArrivesInv ==
  ASSUME Inv, StrayArrives PROVE Inv'
  <1>1. PICK s \in strays :
          /\ strays' = strays \ {s}
          /\ IF Spends(s[1], s[2]) THEN Spend(s[1]) ELSE UNCHANGED token
          /\ UNCHANGED <<account, req, history>>
    BY DEF StrayArrives
  <1>2. s[1] \in Tokens /\ s[1] \in cut
    BY DEF Inv, TypeOK, TokenInv, StraysAreCut
  <1>3. CASE Spends(s[1], s[2])
    <2>1. token[s[1]] = "live" /\ token' = [token EXCEPT ![s[1]] = "spent"]
      BY <1>1, <1>3 DEF Spends, Spend
    <2>. DEFINE t == s[1]
    <2>2. t \in Tokens /\ t \in cut /\ token[t] # "spent"
          /\ token' = [token EXCEPT ![t] = "spent"]
      BY <1>2, <2>1
    <2>3. strays' \subseteq strays /\ UNCHANGED <<account, req, history>>
      BY <1>1
    <2>4. "spent" \in TokenStates  BY DEF TokenStates
    <2>. HIDE DEF t
    <2>. QED  BY <2>2, <2>3, <2>4, TokenMoves
  <1>4. CASE ~Spends(s[1], s[2])
    <2>1. UNCHANGED <<token, account, req, history>> /\ strays' \subseteq strays
      BY <1>1, <1>4
    <2>. QED
      BY <2>1 DEF Inv, TypeOK, RequestInv, RequestGood, Untouched, ModeOfStage,
         ReplyTellsSpent, SeenIsHeld, At, TokenInv, HolderOfSpent, OneHolder,
         ActedIsSpent, StraysAreCut, LostOnlyByFault, Holds, history
  <1>. QED  BY <1>3, <1>4

(* The account changes under requests that keep all but their memory of it. *)
LEMMA AccountChangesInv ==
  ASSUME Inv, AccountChanges PROVE Inv'
  <1>1. /\ account' \in Accounts
        /\ UNCHANGED <<token, strays, history>>
        /\ req' = [c \in Callers |->
                     IF account' = {"active", "elevated"} /\ ~At(c, "idle")
                     THEN [req[c] EXCEPT !.held = TRUE] ELSE req[c]]
    BY DEF AccountChanges
  <1>2. \A c \in Callers :
          /\ req'[c] \in Requests
          /\ req'[c].stage = req[c].stage /\ req'[c].mode = req[c].mode
          /\ req'[c].purpose = req[c].purpose /\ req'[c].token = req[c].token
          /\ req'[c].body = req[c].body /\ req'[c].reply = req[c].reply
          /\ req'[c].spent = req[c].spent /\ req'[c].faulty = req[c].faulty
          /\ req[c].held => req'[c].held
          /\ account' = {"active", "elevated"} /\ ~At(c, "idle")
               => req'[c].held
    <2>. SUFFICES ASSUME NEW c \in Callers
                  PROVE
          /\ req'[c] \in Requests
          /\ req'[c].stage = req[c].stage /\ req'[c].mode = req[c].mode
          /\ req'[c].purpose = req[c].purpose /\ req'[c].token = req[c].token
          /\ req'[c].body = req[c].body /\ req'[c].reply = req[c].reply
          /\ req'[c].spent = req[c].spent /\ req'[c].faulty = req[c].faulty
          /\ req[c].held => req'[c].held
          /\ account' = {"active", "elevated"} /\ ~At(c, "idle")
               => req'[c].held
      OBVIOUS
    <2>1. req[c] \in Requests  BY DEF Inv, TypeOK
    <2>2. CASE account' = {"active", "elevated"} /\ ~At(c, "idle")
      <3>1. req'[c] = [req[c] EXCEPT !.held = TRUE]  BY <1>1, <2>2
      <3>. QED  BY <2>1, <3>1 DEF Requests
    <2>3. CASE ~(account' = {"active", "elevated"} /\ ~At(c, "idle"))
      <3>1. req'[c] = req[c]  BY <1>1, <2>3
      <3>. QED  BY <2>1, <2>3, <3>1
    <2>. QED  BY <2>2, <2>3
  <1>3. TypeOK'
    <2>1. req' \in [Callers -> Requests]  BY <1>1, <1>2
    <2>. QED  BY <1>1, <2>1 DEF Inv, TypeOK, history
  <1>4. RequestInv'
    <2>. SUFFICES ASSUME NEW c \in Callers PROVE RequestGood(c)'
      BY DEF RequestInv
    <2>1. RequestGood(c) /\ cut' = cut  BY <1>1 DEF Inv, RequestInv, history
    <2>2. Untouched(c)' /\ ModeOfStage(c)' /\ ReplyTellsSpent(c)'
      BY <1>2, <2>1 DEF RequestGood, Untouched, ModeOfStage, ReplyTellsSpent, At
    <2>3. SeenIsHeld(c)'
      BY <1>2, <2>1 DEF RequestGood, SeenIsHeld, At, ElevatedUntil
    <2>. QED  BY <2>2, <2>3 DEF RequestGood
  <1>5. \A c \in Callers, t \in Tokens : Holds(c, t)' <=> Holds(c, t)
    BY <1>2 DEF Holds
  <1>6. TokenInv'
    BY <1>1, <1>2, <1>5 DEF Inv, TokenInv, HolderOfSpent, OneHolder,
       ActedIsSpent, StraysAreCut, LostOnlyByFault, history
  <1>. QED  BY <1>3, <1>4, <1>6 DEF Inv

LEMMA StutterInv == ASSUME Inv, UNCHANGED vars PROVE Inv'
  BY DEF vars, authServer, history, Inv, TypeOK, RequestInv, RequestGood,
     Untouched, ModeOfStage, ReplyTellsSpent, SeenIsHeld, At, TokenInv,
     HolderOfSpent, OneHolder, ActedIsSpent, StraysAreCut, LostOnlyByFault, Holds

LEMMA NextInv == Inv /\ [Next]_vars => Inv'
  <1>. SUFFICES ASSUME Inv, [Next]_vars PROVE Inv'
    OBVIOUS
  <1>1. ASSUME NEW c \in Callers, BeginSession(c) PROVE Inv'
    BY <1>1, BeginSessionInv
  <1>2. ASSUME NEW c \in Callers, IdpAnswers(c) PROVE Inv'
    BY <1>2, IdpAnswersInv
  <1>3. ASSUME NEW c \in Callers, IntrospectFails(c) PROVE Inv'
    BY <1>3, IntrospectFailsInv
  <1>4. ASSUME NEW c \in Callers, RequireStepUp(c) PROVE Inv'
    BY <1>4, RequireStepUpInv
  <1>5. ASSUME NEW c \in Callers, BeginSingleUse(c) PROVE Inv'
    BY <1>5, BeginSingleUseInv
  <1>6. ASSUME NEW c \in Callers, TokenMissing(c) PROVE Inv'
    BY <1>6, TokenMissingInv
  <1>7. ASSUME NEW c \in Callers, Consume(c) PROVE Inv'
    BY <1>7, ConsumeInv
  <1>8. ASSUME NEW c \in Callers, AuthServerRules(c) PROVE Inv'
    BY <1>8, AuthServerRulesInv
  <1>9. ASSUME NEW c \in Callers, ReplyGarbled(c) PROVE Inv'
    BY <1>9, ReplyGarbledInv
  <1>10. ASSUME NEW c \in Callers, NoReply(c) PROVE Inv'
    BY <1>10, NoReplyInv
  <1>11. ASSUME NEW c \in Callers, ReadRuling(c) PROVE Inv'
    BY <1>11, ReadRulingInv
  <1>12. ASSUME NEW c \in Callers, Act(c) PROVE Inv'
    BY <1>12, ActInv
  <1>13. ASSUME NEW c \in Callers, CancelRequest(c) PROVE Inv'
    BY <1>13, CancelRequestInv
  <1>14. ASSUME NEW t \in Tokens, Issue(t) \/ Expire(t) PROVE Inv'
    BY <1>14, IssueInv, ExpireInv
  <1>15. CASE StrayArrives  BY <1>15, StrayArrivesInv
  <1>16. CASE AccountChanges  BY <1>16, AccountChangesInv
  <1>17. CASE UNCHANGED vars  BY <1>17, StutterInv
  <1>. QED
    BY <1>1, <1>2, <1>3, <1>4, <1>5, <1>6, <1>7, <1>8, <1>9, <1>10, <1>11,
       <1>12, <1>13, <1>14, <1>15, <1>16, <1>17 DEF Next

LEMMA SpecInv == Spec => []Inv
  BY InitInv, NextInv, PTL DEF Spec

----------------------------------------------------------------------------
(* Every reachable state has the types the model declares. *)
THEOREM TypeCorrect == Spec => []TypeOK
  <1>1. Inv => TypeOK  BY DEF Inv
  <1>. QED  BY <1>1, SpecInv, PTL

(* consume never spends a token and then refuses: a token spent with no    *)
(* action to show for it was cut off by a fault, or its holder may still   *)
(* act (step_up.rs:175-190).                                               *)
THEOREM NoTokenWasted == Spec => []LostOnlyByFault
  <1>1. Inv => LostOnlyByFault  BY DEF Inv, TokenInv
  <1>. QED  BY <1>1, SpecInv, PTL

(* A session is cleared only after a moment, since its request began, at   *)
(* which the account was active and elevated, and for a named admin.       *)
THEOREM ClearedSessions == Spec => []ClearedWasElevated
  <1>1. Inv => ClearedWasElevated
    BY DEF Inv, RequestInv, RequestGood, SeenIsHeld, ClearedWasElevated
  <1>. QED  BY <1>1, SpecInv, PTL

----------------------------------------------------------------------------
(* What a step of the model does to a request.                             *)

(* A step that gives c an answer is one of these, made for c. *)
LEMMA AnsweringSteps ==
  ASSUME Inv, [Next]_vars, NEW c \in Callers, ~At(c, "idle"), At(c, "idle")'
  PROVE  \/ IntrospectFails(c)
         \/ RequireStepUp(c)
         \/ TokenMissing(c)
         \/ NoReply(c)
         \/ ReadRuling(c)
         \/ Act(c)
         \/ CancelRequest(c)
  <1>1. req \in [Callers -> Requests]  BY DEF Inv, TypeOK
  <1>2. req'[c] # req[c]  BY DEF At
  <1>3. ASSUME NEW d \in Callers, BeginSession(d) \/ BeginSingleUse(d)
        PROVE  FALSE
    BY <1>1, <1>2, <1>3 DEF BeginSession, BeginSingleUse, Begin, At
  <1>4. ASSUME NEW d \in Callers, IdpAnswers(d) PROVE FALSE
    <2>1. PICK body \in Bodies :
            req' = [req EXCEPT ![d] =
                      [@ EXCEPT !.stage = "judged", !.body = body]]
      BY <1>4 DEF IdpAnswers
    <2>. QED  BY <1>1, <1>2, <2>1 DEF Requests, At
  <1>5. ASSUME NEW d \in Callers, Consume(d) \/ AuthServerRules(d)
        PROVE  FALSE
    <2>1. ASSUME Consume(d) PROVE FALSE
      BY <1>1, <1>2, <2>1 DEF Consume, Requests, At
    <2>2. ASSUME AuthServerRules(d) PROVE FALSE
      <3>1. PICK spent, reply :
              req' = [req EXCEPT ![d] = [@ EXCEPT !.stage = "ruled",
                                           !.spent = spent, !.reply = reply]]
        BY <2>2 DEF AuthServerRules
      <3>. QED  BY <1>1, <1>2, <3>1 DEF Requests, At
    <2>. QED  BY <1>5, <2>1, <2>2
  <1>6. ASSUME NEW d \in Callers, ReplyGarbled(d) PROVE FALSE
    <2>1. PICK reply \in Unreadable :
            req' = [req EXCEPT ![d] = [@ EXCEPT !.stage = "ruled",
                                         !.reply = reply, !.faulty = TRUE]]
      BY <1>6 DEF ReplyGarbled
    <2>. QED  BY <1>1, <1>2, <2>1 DEF Requests, At
  <1>7. ASSUME NEW d \in Callers,
               \/ IntrospectFails(d)
               \/ RequireStepUp(d)
               \/ TokenMissing(d)
               \/ NoReply(d)
               \/ ReadRuling(d)
               \/ Act(d)
               \/ CancelRequest(d)
        PROVE  d = c
    BY <1>1, <1>2, <1>7 DEF IntrospectFails, Unanswered, RequireStepUp,
       TokenMissing, NoReply, ReadRuling, Act, CancelRequest, Refuse, Answer
  <1>8. ASSUME NEW t \in Tokens, Issue(t) \/ Expire(t) PROVE FALSE
    BY <1>2, <1>8 DEF Issue, Expire
  <1>9. CASE StrayArrives  BY <1>2, <1>9 DEF StrayArrives
  <1>10. CASE AccountChanges
    BY <1>1, <1>10 DEF AccountChanges, Requests, At
  <1>11. CASE UNCHANGED vars  BY <1>2, <1>11 DEF vars
  <1>. QED
    BY <1>3, <1>4, <1>5, <1>6, <1>7, <1>8, <1>9, <1>10, <1>11 DEF Next

(* 403 only when every call was answered and none spent the token; 503     *)
(* only when one was not (step_up.rs:14-16).                               *)
THEOREM RefusalsAreTrue == Spec => RefusalTellsWhy
  <1>1. ASSUME Inv, [Next]_vars, NEW c \in Callers
        PROVE  /\ Answered(c, "403") => ~req[c].spent /\ ~req'[c].faulty
               /\ Answered(c, "503") => req'[c].faulty
    <2>. SUFFICES ASSUME ~At(c, "idle"), At(c, "idle")'
                  PROVE  /\ req'[c].answer = "403"
                              => ~req[c].spent /\ ~req'[c].faulty
                         /\ req'[c].answer = "503" => req'[c].faulty
      BY DEF Answered
    <2>1. RequestGood(c) /\ TypeOK  BY <1>1 DEF Inv, RequestInv
    <2>2. CASE IntrospectFails(c) \/ NoReply(c)
      <3>1. Unanswered(c)  BY <2>2 DEF IntrospectFails, NoReply
      <3>2. PICK r \in Requests :
              req' = [req EXCEPT ![c] = r] /\ r.faulty = TRUE /\ r.answer = "503"
        BY <3>1, UnansweredType
      <3>3. req'[c] = r  BY <2>1, <3>2, OneRequest
      <3>. QED  BY <3>2, <3>3
    <2>3. ASSUME NEW error \in {"required", "unavailable"}, Refuse(c, error)
          PROVE  /\ req'[c].faulty = req[c].faulty
                 /\ req'[c].answer = IntoResponse(error)
      <3>1. PICK r \in Requests :
              /\ req' = [req EXCEPT ![c] = r]
              /\ r.faulty = req[c].faulty /\ r.answer = IntoResponse(error)
        BY <2>1, <2>3, RefusedType
      <3>2. req'[c] = r  BY <2>1, <3>1, OneRequest
      <3>. QED  BY <3>1, <3>2
    <2>4. CASE RequireStepUp(c)
      <3>1. Refuse(c, "required") /\ At(c, "judged")
        <4>1. req' # [req EXCEPT ![c] = [@ EXCEPT !.stage = "cleared"]]
          BY <2>1, Staged DEF At, Stages
        <4>. QED  BY <2>4, <4>1 DEF RequireStepUp
      <3>2. ~req[c].spent /\ ~req[c].faulty
        BY <2>1, <3>1 DEF RequestGood, Untouched, At
      <3>. QED  BY <2>3, <3>1, <3>2 DEF IntoResponse
    <2>5. CASE TokenMissing(c)
      <3>1. Refuse(c, "required") /\ At(c, "presenting")
        BY <2>5 DEF TokenMissing
      <3>2. ~req[c].spent /\ ~req[c].faulty
        BY <2>1, <3>1 DEF RequestGood, Untouched, At
      <3>. QED  BY <2>3, <3>1, <3>2 DEF IntoResponse
    <2>6. CASE ReadRuling(c)
      <3>1. At(c, "ruled") /\ Ruling(req[c].reply) # "spent"
            /\ Refuse(c, Ruling(req[c].reply))
        <4>1. req' # [req EXCEPT ![c] = [@ EXCEPT !.stage = "cleared"]]
          BY <2>1, Staged DEF At, Stages
        <4>. QED  BY <2>6, <4>1 DEF ReadRuling
      <3>2. CASE req[c].reply = "conflict"
        <4>1. Ruling(req[c].reply) = "required"  BY <3>2 DEF Ruling
        <4>2. ~req[c].spent /\ ~req[c].faulty
          BY <2>1, <3>1, <3>2 DEF RequestGood, ReplyTellsSpent, At
        <4>. QED  BY <2>3, <3>1, <4>1, <4>2 DEF IntoResponse
      <3>3. CASE req[c].reply # "conflict"
        <4>1. Ruling(req[c].reply) = "unavailable"
          BY <3>1, <3>3 DEF Ruling
        <4>2. req[c].reply \in Unreadable
          BY <2>1, <3>1, <3>3, RequestFields
             DEF RequestGood, ReplyTellsSpent, At, Ruling, Replies
        <4>3. req[c].faulty
          BY <2>1, <3>1, <4>2 DEF RequestGood, ReplyTellsSpent, At
        <4>. QED  BY <2>3, <3>1, <4>1, <4>3 DEF IntoResponse
      <3>. QED  BY <3>2, <3>3
    <2>7. CASE Act(c) \/ CancelRequest(c)
      <3>1. PICK answer \in {"acted", "none"} :
              req' = [req EXCEPT ![c] = Idle(answer)]
        BY <2>7 DEF Act, CancelRequest, Answer
      <3>2. Idle(answer).answer = answer  BY IdleType DEF Answers
      <3>3. req'[c] = Idle(answer)  BY <2>1, <3>1 DEF TypeOK
      <3>. QED  BY <3>2, <3>3
    <2>. QED  BY <1>1, <2>2, <2>4, <2>5, <2>6, <2>7, AnsweringSteps
  <1>2. Inv /\ [Next]_vars
          => [\A c \in Callers :
                /\ Answered(c, "403") => ~req[c].spent /\ ~req'[c].faulty
                /\ Answered(c, "503") => req'[c].faulty]_vars
    BY <1>1
  <1>. QED  BY <1>2, SpecInv, PTL DEF Spec, RefusalTellsWhy

----------------------------------------------------------------------------
(* One action per token: each token is a OneTimeGrant.                     *)

Held(t) == \E c \in Callers : Holds(c, t)

(* GrantState(t), arm by arm. *)
GrantArms(t) ==
  /\ token[t] = "unissued" => GrantState(t) = "unissued"
  /\ token[t] = "live" => GrantState(t) = "open"
  /\ token[t] = "expired" => GrantState(t) = "lapsed"
  /\ token[t] = "spent" /\ acted[t] # <<>> => GrantState(t) = "used"
  /\ token[t] = "spent" /\ acted[t] = <<>> /\ Held(t) => GrantState(t) = "held"
  /\ token[t] = "spent" /\ acted[t] = <<>> /\ ~Held(t)
       => GrantState(t) = "lapsed"
  /\ token[t] # "spent" => acted[t] = <<>>

GrantsDefined == \A t \in Tokens : GrantArms(t)

(* The arms exclude each other: the state of a grant is well defined. *)
LEMMA GrantStates == Inv => GrantsDefined
  <1>. SUFFICES ASSUME Inv, NEW t \in Tokens PROVE GrantArms(t)
    BY DEF GrantsDefined
  <1>1. token[t] # "spent" => acted[t] = <<>>
    BY DEF Inv, TokenInv, ActedIsSpent
  <1>2. Held(t) => token[t] = "spent" /\ acted[t] = <<>>
    BY DEF Held, Inv, TokenInv, HolderOfSpent
  <1>. QED  BY <1>1, <1>2 DEF GrantArms, GrantState, Held

(* All a step can do to a token. *)
Stays(t) == UNCHANGED <<token[t], acted[t]>> /\ (Held(t)' => Held(t))

Moves(t) ==
  /\ acted'[t] = acted[t]
  /\ \/ token[t] = "unissued" /\ token'[t] = "live"
     \/ token[t] = "live" /\ token'[t] \in {"spent", "expired"}

Used(t) ==
  /\ Held(t) /\ acted[t] = <<>> /\ token[t] = "spent" /\ token'[t] = "spent"
  /\ acted'[t] = Append(acted[t], IssuedFor[t])

LEMMA GrantStep ==
  ASSUME Inv, Inv', GrantsDefined, GrantsDefined', NEW t \in Tokens,
         Stays(t) \/ Moves(t) \/ Used(t)
  PROVE  [Grant(t)!Next]_<<GrantState(t), acted[t]>>
  <1>1. token[t] \in TokenStates /\ token'[t] \in TokenStates
    BY DEF Inv, TypeOK
  <1>2. GrantArms(t) /\ GrantArms(t)'
    BY DEF GrantsDefined
  <1>3. CASE Stays(t)
    BY <1>1, <1>2, <1>3
       DEF GrantArms, Stays, TokenStates, Grant!Next, Grant!Lapse
  <1>4. CASE Moves(t)
    BY <1>1, <1>2, <1>4
       DEF GrantArms, Moves, Grant!Next, Grant!Issue, Grant!Take, Grant!Lapse
  <1>5. CASE Used(t)
    <2>1. acted'[t] # <<>>
      BY <1>5, IssuedForAssumption DEF Used, IssuedForAssumption
    <2>. QED
      BY <1>2, <1>5, <2>1 DEF GrantArms, Used, Grant!Next, Grant!Use
  <1>. QED  BY <1>3, <1>4, <1>5

(* A step that answers c leaves it holding nothing. *)
LEMMA AnsweredHoldNothing ==
  ASSUME TypeOK, NEW c \in Callers, NEW t \in Tokens,
         \/ Unanswered(c)
         \/ \E error \in {"required", "unavailable"} : Refuse(c, error)
         \/ \E answer \in Answers : Answer(c, answer)
  PROVE  ~Holds(c, t)'
  <1>1. \E r \in Requests : req' = [req EXCEPT ![c] = r] /\ r.stage = "idle"
    <2>1. CASE Unanswered(c)  BY <2>1, UnansweredType
    <2>2. CASE \E error \in {"required", "unavailable"} : Refuse(c, error)
      BY <2>2, RefusedType
    <2>3. CASE \E answer \in Answers : Answer(c, answer)
      <3>1. PICK answer \in Answers : Answer(c, answer)  BY <2>3
      <3>2. Idle(answer) \in Requests /\ Idle(answer).stage = "idle"
        BY IdleType
      <3>. QED  BY <3>1, <3>2 DEF Answer
    <2>. QED  BY <2>1, <2>2, <2>3
  <1>2. req'[c].stage = "idle"  BY <1>1, OneRequest
  <1>. QED  BY <1>2 DEF Holds

LEMMA TokenSteps ==
  ASSUME Inv, Inv', [Next]_vars, NEW t \in Tokens
  PROVE  Stays(t) \/ Moves(t) \/ Used(t)
  <1>1. TypeOK /\ req \in [Callers -> Requests]
        /\ token \in [Tokens -> TokenStates]
        /\ acted \in [Tokens -> Seq(Purposes)]
    BY DEF Inv, TypeOK
  <1>2. ASSUME NEW c \in Callers,
               \/ BeginSession(c) \/ IdpAnswers(c) \/ IntrospectFails(c)
               \/ RequireStepUp(c) \/ BeginSingleUse(c) \/ TokenMissing(c)
               \/ Consume(c) \/ ReplyGarbled(c) \/ NoReply(c)
               \/ ReadRuling(c) \/ CancelRequest(c)
        PROVE  Stays(t)
    <2>1. UNCHANGED <<token, acted>>
      BY <1>2 DEF BeginSession, IdpAnswers, IntrospectFails, RequireStepUp,
         BeginSingleUse, Begin, TokenMissing, Consume, ReplyGarbled, NoReply,
         ReadRuling, CancelRequest, LeaveCall, authServer, history
    <2>2. \A d \in Callers \ {c} : req'[d] = req[d]
      <3>1. \E r : req' = [req EXCEPT ![c] = r]
        BY <1>2 DEF BeginSession, IdpAnswers, IntrospectFails, RequireStepUp,
           BeginSingleUse, Begin, TokenMissing, Consume, ReplyGarbled, NoReply,
           ReadRuling, CancelRequest, Refuse, Unanswered, Answer
      <3>. QED  BY <1>1, <3>1
    <2>3. Holds(c, t)' => Holds(c, t)
      <3>1. CASE BeginSession(c) \/ BeginSingleUse(c)
        BY <1>1, <3>1 DEF BeginSession, BeginSingleUse, Begin, New, Holds
      <3>2. CASE IdpAnswers(c)
        <4>1. PICK body \in Bodies :
                req' = [req EXCEPT ![c] =
                          [@ EXCEPT !.stage = "judged", !.body = body]]
          BY <3>2 DEF IdpAnswers
        <4>2. req'[c].stage = "judged"  BY <1>1, <4>1 DEF Requests
        <4>. QED  BY <4>2 DEF Holds
      <3>3. CASE Consume(c)
        <4>1. req'[c].stage = "consuming"
          BY <1>1, <3>3, Staged DEF Consume, Stages
        <4>. QED  BY <4>1 DEF Holds
      <3>4. CASE ReplyGarbled(c)
        <4>1. PICK reply \in Unreadable :
                req' = [req EXCEPT ![c] = [@ EXCEPT !.stage = "ruled",
                                             !.reply = reply, !.faulty = TRUE]]
          BY <3>4 DEF ReplyGarbled
        <4>2. req'[c].token = req[c].token /\ req'[c].spent = req[c].spent
          BY <1>1, <4>1 DEF Requests
        <4>3. req[c].stage = "consuming" => ~req[c].spent
          BY DEF Inv, RequestInv, RequestGood, Untouched
        <4>. QED  BY <3>4, <4>2, <4>3 DEF ReplyGarbled, Holds
      <3>5. CASE RequireStepUp(c)
        <4>1. ~req[c].spent
          BY <3>5 DEF RequireStepUp, At, Inv, RequestInv, RequestGood, Untouched
        <4>2. CASE Refuse(c, "required")
          BY <1>1, <4>2, AnsweredHoldNothing
        <4>3. CASE req' = [req EXCEPT ![c] = [@ EXCEPT !.stage = "cleared"]]
          <5>1. req'[c].spent = req[c].spent
            BY <1>1, <4>3, Staged DEF Stages
          <5>. QED  BY <4>1, <5>1 DEF Holds
        <4>. QED  BY <3>5, <4>2, <4>3 DEF RequireStepUp
      <3>6. CASE ReadRuling(c)
        <4>1. CASE Ruling(req[c].reply) # "spent"
          <5>1. Ruling(req[c].reply) \in {"required", "unavailable"}
            BY <4>1 DEF Ruling
          <5>2. Refuse(c, Ruling(req[c].reply))
            BY <3>6, <4>1 DEF ReadRuling
          <5>. QED  BY <1>1, <5>1, <5>2, AnsweredHoldNothing
        <4>2. CASE Ruling(req[c].reply) = "spent"
          <5>1. req' = [req EXCEPT ![c] = [@ EXCEPT !.stage = "cleared"]]
            BY <3>6, <4>2 DEF ReadRuling
          <5>2. req'[c].token = req[c].token /\ req'[c].spent = req[c].spent
            BY <1>1, <5>1, Staged DEF Stages
          <5>. QED  BY <3>6, <5>2 DEF ReadRuling, At, Holds
        <4>. QED  BY <4>1, <4>2
      <3>7. CASE IntrospectFails(c) \/ TokenMissing(c) \/ NoReply(c)
                 \/ CancelRequest(c)
        <4>1. \/ Unanswered(c)
              \/ Refuse(c, "required")
              \/ Answer(c, "none")
          BY <3>7 DEF IntrospectFails, TokenMissing, NoReply, CancelRequest
        <4>2. "none" \in Answers  BY DEF Answers
        <4>. QED  BY <1>1, <4>1, <4>2, AnsweredHoldNothing
      <3>. QED  BY <1>2, <3>1, <3>2, <3>3, <3>4, <3>5, <3>6, <3>7
    <2>. QED  BY <2>1, <2>2, <2>3 DEF Stays, Held, Holds
  <1>3. ASSUME NEW c \in Callers, AuthServerRules(c)
        PROVE  Stays(t) \/ Moves(t)
    <2>1. /\ At(c, "consuming")
          /\ IF Spends(req[c].token, req[c].purpose)
             THEN Spend(req[c].token) ELSE UNCHANGED token
          /\ UNCHANGED acted
          /\ req' = [req EXCEPT ![c] =
                       [@ EXCEPT !.stage = "ruled",
                          !.spent = Spends(req[c].token, req[c].purpose),
                          !.reply = IF Spends(req[c].token, req[c].purpose)
                                    THEN "consumed" ELSE "conflict"]]
      BY <1>3 DEF AuthServerRules, history
    <2>2. CASE Spends(req[c].token, req[c].purpose) /\ req[c].token = t
      <3>1. token[t] = "live" /\ token' = [token EXCEPT ![t] = "spent"]
        BY <2>1, <2>2 DEF Spends, Spend
      <3>. QED  BY <1>1, <2>1, <3>1 DEF Moves
    <2>3. CASE ~(Spends(req[c].token, req[c].purpose) /\ req[c].token = t)
      <3>1. token'[t] = token[t]
        BY <1>1, <2>1, <2>3 DEF Spend
      <3>2. /\ req'[c].token = req[c].token
            /\ req'[c].spent = Spends(req[c].token, req[c].purpose)
        <4>. HIDE DEF Spends
        <4>. QED  BY <1>1, <2>1 DEF Requests
      <3>3. ~Holds(c, t)'  BY <2>3, <3>2 DEF Holds
      <3>4. \A d \in Callers \ {c} : req'[d] = req[d]  BY <1>1, <2>1
      <3>. QED  BY <2>1, <3>1, <3>3, <3>4 DEF Stays, Held, Holds
    <2>. QED  BY <2>2, <2>3
  <1>4. ASSUME NEW c \in Callers, Act(c)
        PROVE  Stays(t) \/ Used(t)
    <2>1. /\ At(c, "cleared") /\ UNCHANGED token
          /\ acted' = IF req[c].mode = "session" THEN acted
                      ELSE [acted EXCEPT ![req[c].token] =
                              Append(@, req[c].purpose)]
          /\ Answer(c, "acted")
      BY <1>4 DEF Act, authServer
    <2>2. ~Holds(c, t)'
      <3>1. "acted" \in Answers  BY DEF Answers
      <3>. QED  BY <1>1, <2>1, <3>1, AnsweredHoldNothing
    <2>3. \A d \in Callers \ {c} : req'[d] = req[d]
      BY <1>1, <2>1 DEF Answer
    <2>4. RequestGood(c) /\ req[c].mode \in Modes
      BY <1>1, RequestFields DEF Inv, RequestInv
    <2>5. CASE req[c].mode = "single_use" /\ req[c].token = t
      <3>1. Holds(c, t)
        BY <2>1, <2>4, <2>5 DEF RequestGood, ModeOfStage, At, Holds
      <3>2. token[t] = "spent" /\ acted[t] = <<>>
            /\ req[c].purpose = IssuedFor[t]
        BY <3>1 DEF Inv, TokenInv, HolderOfSpent
      <3>3. acted' = [acted EXCEPT ![t] = Append(@, req[c].purpose)]
        BY <2>1, <2>5
      <3>4. acted'[t] = Append(acted[t], IssuedFor[t])
        BY <1>1, <3>2, <3>3
      <3>. QED  BY <2>1, <3>1, <3>2, <3>4 DEF Used, Held
    <2>6. CASE ~(req[c].mode = "single_use" /\ req[c].token = t)
      <3>1. acted'[t] = acted[t]
        BY <1>1, <2>1, <2>4, <2>6 DEF Modes
      <3>. QED  BY <2>1, <2>2, <2>3, <3>1 DEF Stays, Held, Holds
    <2>. QED  BY <2>5, <2>6
  <1>5. ASSUME NEW u \in Tokens, Issue(u) \/ Expire(u)
        PROVE  Stays(t) \/ Moves(t)
    BY <1>1, <1>5 DEF Issue, Expire, Stays, Moves, Held, Holds, history
  <1>6. CASE StrayArrives
    <2>1. PICK s \in strays :
            /\ IF Spends(s[1], s[2]) THEN Spend(s[1]) ELSE UNCHANGED token
            /\ UNCHANGED <<req, history>>
      BY <1>6 DEF StrayArrives
    <2>2. CASE Spends(s[1], s[2]) /\ s[1] = t
      BY <1>1, <2>1, <2>2 DEF Spends, Spend, Moves, history
    <2>3. CASE ~(Spends(s[1], s[2]) /\ s[1] = t)
      <3>1. token'[t] = token[t]  BY <1>1, <2>1, <2>3 DEF Spend
      <3>. QED  BY <2>1, <3>1 DEF Stays, Held, Holds, history
    <2>. QED  BY <2>2, <2>3
  <1>7. CASE AccountChanges
    <2>1. /\ UNCHANGED <<token, acted>>
          /\ \A c \in Callers :
               /\ req'[c].stage = req[c].stage
               /\ req'[c].token = req[c].token
               /\ req'[c].spent = req[c].spent
      BY <1>1, <1>7 DEF AccountChanges, history, Requests
    <2>. QED  BY <2>1 DEF Stays, Held, Holds
  <1>8. CASE UNCHANGED vars
    BY <1>8 DEF vars, authServer, history, Stays, Held, Holds
  <1>. QED
    BY <1>2, <1>3, <1>4, <1>5, <1>6, <1>7, <1>8 DEF Next

(* However requests race for a token and replies are lost, late or         *)
(* garbled, at most one action runs on it, by the request whose call spent *)
(* it, for what it was issued for: every token is a OneTimeGrant           *)
(* (step_up.rs:8-12, 142-144).                                             *)
THEOREM EveryTokenIsAGrant == Spec => OneActionPerToken
  <1>1. Init => \A t \in Tokens : Grant(t)!Init
    <2>. SUFFICES ASSUME Init, NEW t \in Tokens PROVE Grant(t)!Init
      OBVIOUS
    <2>1. token[t] = "unissued" /\ acted[t] = <<>>  BY DEF Init
    <2>2. GrantArms(t)  BY InitInv, GrantStates DEF GrantsDefined
    <2>. QED  BY <2>1, <2>2 DEF GrantArms, Grant!Init
  <1>2. Inv /\ Inv' /\ GrantsDefined /\ GrantsDefined' /\ [Next]_vars
          => [\A t \in Tokens :
                [Grant(t)!Next]_<<GrantState(t), acted[t]>>]_vars
    BY TokenSteps, GrantStep
  <1>. QED
    BY <1>1, <1>2, SpecInv, GrantStates, PTL DEF Spec, OneActionPerToken
=============================================================================
