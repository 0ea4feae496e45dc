------------------------------- MODULE StepUp -------------------------------
(***************************************************************************)
(* Step-up (rust/src/step_up.rs, and the elevation that                    *)
(* rust/src/introspect.rs and introspect_client.rs read): requests for     *)
(* critical actions, and the auth server that elevates sessions and spends *)
(* single-use tokens over a network that loses, delays and garbles.        *)
(*                                                                         *)
(* A purpose stands for the admin, the action and the resource of a        *)
(* consume call, which the auth server compares with those the token was   *)
(* issued for.                                                             *)
(***************************************************************************)
EXTENDS Sequences

CONSTANTS
  Callers,    \* the requests a service has in hand at once
  Tokens,
  NoToken,    \* the header is missing, blank or not readable
  Purposes,
  IssuedFor   \* IssuedFor[t]: the purpose the auth server issues t for

ASSUME IssuedForAssumption == IssuedFor \in [Tokens -> Purposes]
ASSUME NoTokenAssumption == NoToken \notin Tokens
ASSUME PurposesAssumption == Purposes # {}

VARIABLES
  token,    \* token[t]: what the auth server holds of t
  account,  \* what it holds of the admin
  strays,   \* consume calls under way whose caller has gone
  req,      \* req[c]: the request of c
  acted,    \* acted[t]: the purposes of the actions run on t, in order
  cut       \* tokens some call with which was cut off or answered unreadably

authServer == <<token, account, strays>>
history == <<acted, cut>>
vars == <<authServer, req, history>>

TokenStates == {"unissued", "live", "spent", "expired"}

Accounts == SUBSET {"active", "elevated"}

(* active: true; an adminId; an integer stepUpElevatedUntil. *)
Bodies == SUBSET {"active", "named", "elevated"}

Modes == {"session", "single_use"}

Stages ==
  {"idle",
   "introspecting", "judged",  \* session: before and after the IdP's body
   "presenting",               \* single use: the header is not read yet
   "consuming", "ruled",       \* before and after the auth server's reply
   "cleared"}                  \* the service may run the action

(* 2xx with consumed:true, 409, another status, a 2xx that is not JSON, a  *)
(* 2xx without consumed:true.                                              *)
Unreadable == {"failure", "malformed", "silent"}
Replies == {"consumed", "conflict"} \union Unreadable

Answers == {"none", "acted", "403", "503"}

Requests ==
  [stage : Stages, mode : Modes, purpose : Purposes,
   token : Tokens \union {NoToken}, body : Bodies,
   reply : Replies \union {"none"},
   spent : BOOLEAN,   \* its own call spent the token
   faulty : BOOLEAN,  \* one of its calls failed or cannot be read
   held : BOOLEAN,    \* the account was active and elevated since it began
   answer : Answers]

New(stage, mode, purpose, t) ==
  [stage |-> stage, mode |-> mode, purpose |-> purpose, token |-> t,
   body |-> {}, reply |-> "none", spent |-> FALSE, faulty |-> FALSE,
   held |-> account = {"active", "elevated"}, answer |-> "none"]

AnyPurpose == CHOOSE p \in Purposes : TRUE

Idle(answer) ==
  [New("idle", "session", AnyPurpose, NoToken)
     EXCEPT !.held = FALSE, !.answer = answer]

Init ==
  /\ token = [t \in Tokens |-> "unissued"]
  /\ account \in Accounts
  /\ strays = {}
  /\ req = [c \in Callers |-> Idle("none")]
  /\ acted = [t \in Tokens |-> <<>>]
  /\ cut = {}

At(c, stage) == req[c].stage = stage

Answer(c, answer) == req' = [req EXCEPT ![c] = Idle(answer)]

Begin(c, stage, mode, purpose, t) ==
  /\ At(c, "idle")
  /\ req' = [req EXCEPT ![c] = New(stage, mode, purpose, t)]
  /\ UNCHANGED <<authServer, history>>

IntoResponse(error) == IF error = "required" THEN "403" ELSE "503"

Refuse(c, error) ==
  req' = [req EXCEPT ![c] =
            [Idle(IntoResponse(error)) EXCEPT !.faulty = req[c].faulty]]

(* No reply came in time, or the call could not be made. *)
Unanswered(c) ==
  req' = [req EXCEPT ![c] =
            [Idle(IntoResponse("unavailable")) EXCEPT !.faulty = TRUE]]

----------------------------------------------------------------------------
(* Session mode: introspect_with_step_up, then require_step_up. *)
BeginSession(c) == Begin(c, "introspecting", "session", AnyPurpose, NoToken)

(* It answers by what it knows; it may leave the adminId out. *)
IdpAnswers(c) ==
  /\ At(c, "introspecting")
  /\ \E body \in Bodies :
       /\ body \subseteq account \union {"named"}
       /\ req' = [req EXCEPT ![c] =
                    [@ EXCEPT !.stage = "judged", !.body = body]]
  /\ UNCHANGED <<authServer, history>>

(* fetch fails: unreachable, late, non-2xx, not JSON, or the breaker open. *)
IntrospectFails(c) ==
  /\ req[c].stage \in {"introspecting", "judged"}
  /\ Unanswered(c)
  /\ UNCHANGED <<authServer, history>>

ElevatedUntil(body) == {"active", "elevated"} \subseteq body

VerdictActive(body) == {"active", "named"} \subseteq body

Elevation_AnyVerdict(body) == ElevatedUntil(body)

Elevation(body) == VerdictActive(body) /\ ElevatedUntil(body)

RequireStepUp(c) ==
  /\ At(c, "judged")
  /\ IF Elevation(req[c].body)
     THEN req' = [req EXCEPT ![c] = [@ EXCEPT !.stage = "cleared"]]
     ELSE Refuse(c, "required")
  /\ UNCHANGED <<authServer, history>>

----------------------------------------------------------------------------
(* Single-use mode: require_single_use_step_up. *)
BeginSingleUse(c) ==
  \E p \in Purposes, t \in Tokens \union {NoToken} :
    Begin(c, "presenting", "single_use", p, t)

TokenMissing(c) ==
  /\ At(c, "presenting")
  /\ req[c].token = NoToken
  /\ Refuse(c, "required")
  /\ UNCHANGED <<authServer, history>>

Consume(c) ==
  /\ At(c, "presenting")
  /\ req[c].token # NoToken
  /\ req' = [req EXCEPT ![c] = [@ EXCEPT !.stage = "consuming"]]
  /\ UNCHANGED <<authServer, history>>

Spends(t, p) == token[t] = "live" /\ IssuedFor[t] = p

Spend(t) == token' = [token EXCEPT ![t] = "spent"]

AuthServerRules(c) ==
  /\ At(c, "consuming")
  /\ LET spends == Spends(req[c].token, req[c].purpose) IN
     /\ IF spends THEN Spend(req[c].token) ELSE UNCHANGED token
     /\ req' = [req EXCEPT ![c] =
                  [@ EXCEPT !.stage = "ruled", !.spent = spends,
                            !.reply = IF spends THEN "consumed"
                                      ELSE "conflict"]]
  /\ UNCHANGED <<account, strays, history>>

(* A call that is on its way when its caller hears no more of it may still *)
(* arrive.                                                                 *)
LeaveCall(c) ==
  /\ strays' = IF At(c, "consuming")
               THEN strays \union {<<req[c].token, req[c].purpose>>}
               ELSE strays
  /\ cut' = cut \union ({req[c].token} \ {NoToken})
  /\ UNCHANGED <<token, account, acted>>

(* What comes back is not the auth server's ruling, made or not. *)
ReplyGarbled(c) ==
  /\ req[c].stage \in {"consuming", "ruled"}
  /\ \E reply \in Unreadable :
       req' = [req EXCEPT ![c] =
                 [@ EXCEPT !.stage = "ruled", !.reply = reply, !.faulty = TRUE]]
  /\ LeaveCall(c)

(* The call cannot be sent, or has no reply within the timeout. *)
NoReply_Retried(c) ==
  /\ req[c].stage \in {"consuming", "ruled"}
  /\ req' = [req EXCEPT ![c] =
               [@ EXCEPT !.stage = "presenting", !.faulty = TRUE]]
  /\ LeaveCall(c)

NoReply(c) ==
  /\ req[c].stage \in {"consuming", "ruled"}
  /\ Unanswered(c)
  /\ LeaveCall(c)

Ruling_AnyOther2xx(reply) ==
  CASE reply \in {"consumed", "silent", "malformed"} -> "spent"
    [] reply = "conflict" -> "required"
    [] OTHER -> "unavailable"

Ruling(reply) ==
  CASE reply = "consumed" -> "spent"
    [] reply = "conflict" -> "required"
    [] OTHER -> "unavailable"

ReadRuling_ElevatedToo(c) ==
  /\ At(c, "ruled")
  /\ LET ruling == Ruling(req[c].reply) IN
     IF ruling = "spent" /\ "elevated" \in account
     THEN req' = [req EXCEPT ![c] = [@ EXCEPT !.stage = "cleared"]]
     ELSE Refuse(c, "required")
  /\ UNCHANGED <<authServer, history>>

ReadRuling(c) ==
  /\ At(c, "ruled")
  /\ LET ruling == Ruling(req[c].reply) IN
     IF ruling = "spent"
     THEN req' = [req EXCEPT ![c] = [@ EXCEPT !.stage = "cleared"]]
     ELSE Refuse(c, ruling)
  /\ UNCHANGED <<authServer, history>>

----------------------------------------------------------------------------
(* The service runs the action, whether or not it then succeeds. *)
Act(c) ==
  /\ At(c, "cleared")
  /\ Answer(c, "acted")
  /\ acted' = IF req[c].mode = "session" THEN acted
              ELSE [acted EXCEPT ![req[c].token] = Append(@, req[c].purpose)]
  /\ UNCHANGED <<authServer, cut>>

(* The client goes away: the handler's future is dropped. *)
CancelRequest(c) ==
  /\ ~At(c, "idle")
  /\ Answer(c, "none")
  /\ LeaveCall(c)

(* The auth server. *)
StrayArrives ==
  \E s \in strays :
    /\ strays' = strays \ {s}
    /\ IF Spends(s[1], s[2]) THEN Spend(s[1]) ELSE UNCHANGED token
    /\ UNCHANGED <<account, req, history>>

Issue(t) ==
  /\ token[t] = "unissued"
  /\ token' = [token EXCEPT ![t] = "live"]
  /\ UNCHANGED <<account, strays, req, history>>

Expire(t) ==
  /\ token[t] = "live"
  /\ token' = [token EXCEPT ![t] = "expired"]
  /\ UNCHANGED <<account, strays, req, history>>

AccountChanges ==
  /\ account' \in Accounts \ {account}
  /\ req' = [c \in Callers |->
               IF account' = {"active", "elevated"} /\ ~At(c, "idle")
               THEN [req[c] EXCEPT !.held = TRUE] ELSE req[c]]
  /\ UNCHANGED <<token, strays, history>>

Next ==
  \/ \E c \in Callers :
       \/ BeginSession(c)
       \/ IdpAnswers(c)
       \/ IntrospectFails(c)
       \/ RequireStepUp(c)
       \/ BeginSingleUse(c)
       \/ TokenMissing(c)
       \/ Consume(c)
       \/ AuthServerRules(c)
       \/ ReplyGarbled(c)
       \/ NoReply(c)
       \/ ReadRuling(c)
       \/ Act(c)
       \/ CancelRequest(c)
  \/ \E t \in Tokens : Issue(t) \/ Expire(t)
  \/ StrayArrives
  \/ AccountChanges

Spec == Init /\ [][Next]_vars

----------------------------------------------------------------------------
TypeOK ==
  /\ token \in [Tokens -> TokenStates]
  /\ account \in Accounts
  /\ strays \subseteq Tokens \X Purposes
  /\ req \in [Callers -> Requests]
  /\ acted \in [Tokens -> Seq(Purposes)]
  /\ cut \subseteq Tokens

(* The one whose call spent t, and who may still run its action. *)
Holds(c, t) ==
  /\ req[c].token = t
  /\ req[c].spent
  /\ req[c].stage \in {"ruled", "cleared"}

GrantState(t) ==
  CASE token[t] = "unissued" -> "unissued"
    [] token[t] = "live" -> "open"
    [] token[t] = "expired" -> "lapsed"
    [] acted[t] # <<>> -> "used"
    [] \E c \in Callers : Holds(c, t) -> "held"
    [] OTHER -> "lapsed"

Grant(t) == INSTANCE OneTimeGrant
  WITH Purpose <- IssuedFor[t], state <- GrantState(t), uses <- acted[t]

(* "a token is spent whether or not what follows succeeds" and for "exactly*)
(* these four values" (step_up.rs:8-12, 142-144): however requests race for*)
(* a token and replies are lost, late or garbled, at most one action runs  *)
(* on it, by the request whose call spent it, for what it was issued for.  *)
OneActionPerToken ==
  /\ \A t \in Tokens : Grant(t)!Init
  /\ [][ \A t \in Tokens :
           [Grant(t)!Next]_<<GrantState(t), acted[t]>> ]_vars

(* A token is lost, spent with no action to show for it, only when some    *)
(* call with it was cut off or answered unreadably: consume never spends   *)
(* one and then refuses (step_up.rs:175-190).                              *)
LostOnlyByFault ==
  \A t \in Tokens :
    token[t] = "spent" /\ acted[t] = <<>> /\ t \notin cut
      => \E c \in Callers : Holds(c, t)

Answered(c, answer) ==
  ~At(c, "idle") /\ At(c, "idle")' /\ req'[c].answer = answer

(* What the caller is told is true (step_up.rs:14-16): 403, go and confirm *)
(* by email, only when every call of the request was answered and none     *)
(* spent its token; 503, try again, only when one was not.                 *)
RefusalTellsWhy ==
  [][ \A c \in Callers :
        /\ Answered(c, "403") => ~req[c].spent /\ ~req'[c].faulty
        /\ Answered(c, "503") => req'[c].faulty ]_vars

(* A session is cleared only by an answer that names its admin, and only if*)
(* the account was active and elevated at one moment since the request     *)
(* began (introspect.rs:60-73, introspect_client.rs:103-118).              *)
ClearedWasElevated ==
  \A c \in Callers :
    At(c, "cleared") /\ req[c].mode = "session"
      => req[c].held /\ "named" \in req[c].body
=============================================================================
