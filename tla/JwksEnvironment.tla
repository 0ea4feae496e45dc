--------------------------- MODULE JwksEnvironment --------------------------
(***************************************************************************)
(* AdminJwksClient together with an IdP that rotates its keys, the answer  *)
(* on its way between the two, and the history that end-to-end claims are  *)
(* about.                                                                  *)
(***************************************************************************)
EXTENDS AdminJwksClient

CONSTANT HttpTimeout    \* http_timeout

ASSUME HttpTimeoutAssumption == HttpTimeout \in Nat

VARIABLES
  published,  \* the kids in the key set the IdP serves
  onWire,     \* {keys} once the IdP has put keys into its answer, else {}
  flight,     \* time since the last fetch started, up to HttpTimeout
  gone,       \* gone[kid]: time since kid was last published, up to LongGone
  spacing,    \* time since the last fetch started, up to MinRefetch
  heard       \* joiners whose fetch succeeded and is the latest attempt

wire == <<onWire, flight>>
history == <<gone, spacing, heard>>
allVars == <<vars, published, wire, history>>

LongGone == Horizon + HttpTimeout

EnvInit ==
  /\ Init
  /\ published \in SUBSET Kids
  /\ onWire = {}
  /\ flight = HttpTimeout
  /\ gone = [k \in Kids |-> IF k \in published THEN 0 ELSE LongGone]
  /\ spacing = MinRefetch
  /\ heard = {}

Fetching == \E c \in Callers : At(c, "fetching")

(* A response carries what the IdP put into it, which may be the set of any*)
(* moment since the fetch started.                                         *)
Honest(c) ==
  At(c, "fetching") /\ At(c, "fetched")' /\ req'[c].got.ok
    => onWire = {req'[c].got.keys}

Hears(d, c) == At(d, "waiting") /\ CommitKeys(c)

ClientStep ==
  /\ \E c \in Callers :
       /\ \/ \E kid \in Kids : Ask(c, kid)
          \/ Run(c)
          \/ FetchEnds(c)
          \/ Cancel(c)
       /\ Honest(c)
       /\ heard' = {d \in Callers :
                      /\ ~At(d, "idle")'
                      /\ ~StartFetch(c)
                      /\ d \in heard \/ Hears(d, c)}
       /\ spacing' = IF StartFetch(c) THEN 0 ELSE spacing
       /\ flight' = IF StartFetch(c) THEN 0 ELSE flight
       /\ onWire' = IF StartFetch(c) THEN {} ELSE onWire
  /\ UNCHANGED <<published, gone>>

(* The key set is read; the answer has yet to arrive. *)
IdpAnswers ==
  /\ Fetching
  /\ onWire = {}
  /\ onWire' = {published}
  /\ UNCHANGED <<vars, published, flight, history>>

(* The timeout is of the whole request, the body included: a fetch that has*)
(* lasted so long ends before time goes on.                                *)
TimeStep ==
  /\ Tick
  /\ Prompt /\ Fetching => flight < HttpTimeout
  /\ flight' = Older(flight, HttpTimeout)
  /\ gone' = [k \in Kids |-> IF k \in published THEN 0
                             ELSE Older(gone[k], LongGone)]
  /\ spacing' = Older(spacing, MinRefetch)
  /\ UNCHANGED <<published, onWire, heard>>

Rotate ==
  /\ published' \in SUBSET Kids
  /\ gone' = [k \in Kids |-> IF k \in published' THEN 0 ELSE gone[k]]
  /\ UNCHANGED <<vars, wire, spacing, heard>>

EnvNext == ClientStep \/ IdpAnswers \/ TimeStep \/ Rotate

EnvSpec == EnvInit /\ [][EnvNext]_allVars

----------------------------------------------------------------------------
(* A rotated-out key stops working: no request is given a key that left the*)
(* published set max_ttl + stale_grace + http_timeout or longer ago,       *)
(* whatever fetches fail or are cancelled (jwks.rs:246-250).  The set's age*)
(* counts from its commit (jwks.rs:488), not from the IdP's reading of it, *)
(* so the time the answer was under way comes on top.                      *)
RevocationBound ==
  [][ \A c \in Callers : Answered(c, "key") => gone[req[c].kid] < LongGone ]_allVars

(* However many unknown kids are asked for and fetches cancelled, two      *)
(* fetches start at least min_refetch_interval apart (jwks.rs:166-168).    *)
FloorHolds ==
  [][ (\E c \in Callers : StartFetch(c)) => spacing >= MinRefetch ]_allVars

(* answer_from_cache "reads the outcome the leader committed"              *)
(* (jwks.rs:270-273): a joiner woken by a fetch that succeeded is not told *)
(* that the endpoint is unreachable, however late it reads and whoever is  *)
(* cancelled, unless another leader has begun the next attempt by then.    *)
JoinerHears ==
  [][ \A c \in heard : ~Answered(c, "unavailable") ]_allVars
=============================================================================
