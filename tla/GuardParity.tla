----------------------------- MODULE GuardParity ----------------------------
(***************************************************************************)
(* One request decided three times over: by the Rust guard                 *)
(* (rust/src/guard.rs), by the npm core with the route's requirement       *)
(* (js/src/core/authorize.ts) and by the two NestJS guards in sequence     *)
(* (js/src/nest/).  The contract is one and the decisions are to agree.    *)
(*                                                                         *)
(* The introspection reply is drawn with the request; whether it is asked  *)
(* for is part of each decision.  Names are members of small sets, arrays  *)
(* of features are sets: both sides deduplicate and sort.                  *)
(***************************************************************************)
EXTENDS FiniteSets, Functions

CONSTANTS
  Sites, Index,      \* names of sites; the first key of a JSON array, "0"
  Features,
  Site, Feature      \* what the route requires

ASSUME RouteAssumption ==
  Site \in Sites /\ Index \notin Sites /\ Feature \in Features

VARIABLES input, outcome

decisionVars == <<input, outcome>>

----------------------------------------------------------------------------
(* Inputs: JSON as it arrives. *)

Scalar == [kind |-> "scalar", items |-> {}]

Absent == [kind |-> "absent", items |-> {}]

Values ==
  {Scalar, Absent}
    \union [kind : {"array", "object"}, items : {F \in SUBSET Features :
                                                   Cardinality(F) <= 1}]

(* The siteAccess claim or field.  An array's first element is under Index.*)
RawAccess ==
  LET Entries == [Sites \union {Index} -> Values]
  IN  {[kind |-> "scalar", entries |-> [k \in Sites \union {Index} |-> Absent]]}
        \union {[kind |-> "object", entries |-> e] :
                  e \in {f \in Entries : f[Index] = Absent}}
        \union {[kind |-> "array", entries |-> e] :
                  e \in {f \in Entries : \A s \in Sites : f[s] = Absent}}

Roles == {"super_admin", "admin"}

Claims == [role : Roles, siteAccess : RawAccess]

(* failed: no 2xx, or a body that is not JSON.  null, scalar: JSON that is *)
(* no object.  inactive: an object whose active is not true.               *)
ReplyKinds == {"failed", "null", "scalar", "inactive", "active"}

NoReply(kind) ==
  [kind |-> kind, adminId |-> "token's", role |-> "admin",
   siteAccess |-> [kind |-> "scalar",
                   entries |-> [k \in Sites \union {Index} |-> Absent]]]

Replies ==
  {NoReply(kind) : kind \in ReplyKinds \ {"active"}}
    \union [kind : {"active"}, adminId : {"token's", "another", "blank", "empty"},
            role : Roles, siteAccess : RawAccess]

(* What the offline verification meets when the key set is fetched for it. *)
(* malformed: no token, or one without a kid.  forged: a signature, issuer *)
(* or type that is not the IdP's.  first, last of two: signed with one of  *)
(* two keys the IdP publishes under its kid.                               *)
KeySetFaults ==
  {"no-connection", "timeout", "non-2xx", "not-JSON", "not-a-key-set"}

Credentials ==
  {"good", "malformed", "forged", "expired", "unknown-kid",
   "first-of-two", "last-of-two"}
    \union KeySetFaults

(* Rust's verification, 0 when it succeeds.  Of two keys with one kid the  *)
(* last of the document is in the map; whatever goes wrong before there is *)
(* a map is the endpoint's failure.                                        *)
VerifyToken_FaultIsToken(credential) ==
  IF credential \in {"good", "last-of-two"} THEN 0 ELSE 401

VerifyToken(credential) ==
  IF credential \in {"good", "last-of-two"} THEN 0
  ELSE IF credential \in KeySetFaults THEN 503
  ELSE 401

(* The npm core's: jose raises an error of one of its classes, or, without *)
(* a connection, fetch does.                                               *)
JoseRaises(credential) ==
  CASE credential = "expired"                            -> "JWTExpired"
    [] credential = "unknown-kid"                        -> "JWKSNoMatchingKey"
    [] credential = "timeout"                            -> "JWKSTimeout"
    [] credential \in {"non-2xx", "not-JSON"}            -> "JOSEError"
    [] credential = "no-connection"                      -> "Error"
    [] credential = "not-a-key-set"                      -> "JWKSInvalid"
    [] credential \in {"first-of-two", "last-of-two"}    -> "JWKSMultipleMatchingKeys"
    [] OTHER                                             -> "JWSSignatureVerificationFailed"

(* JOSEError stands for the base class itself, Error for what is no        *)
(* JOSEError at all.                                                       *)
ClassifyVerifyError_SubclassesOnly(err) ==
  IF err \in {"JWKSTimeout", "Error"} THEN 503 ELSE 401

ClassifyVerifyError(err) ==
  IF err \in {"JWKSTimeout", "JOSEError", "Error"} THEN 503 ELSE 401

JwtVerify(credential) ==
  CASE credential = "good"       -> 0
    [] credential = "malformed"  -> 401
    [] OTHER                     -> ClassifyVerifyError(JoseRaises(credential))

(* What the route was wired with.  A Requirement of the Rust guard always  *)
(* names a feature: RustRoutes are the ones both packages can express.     *)
Routes ==
  [needs : {"feature", "site", "unwired"}, allowNoAccess : BOOLEAN]

RustRoutes == {route \in Routes : route.needs # "site" /\ ~route.allowNoAccess}

Input(credential, write, claims, reply, route) ==
  [credential |-> credential, write |-> write, claims |-> claims,
   reply |-> reply, route |-> route]

Pending == [status |-> 0, introspected |-> FALSE]

DecisionInit ==
  /\ \E claims \in Claims, credential \in Credentials, write \in BOOLEAN,
        reply \in Replies, route \in Routes :
       /\ ~write \/ VerifyToken(credential) # 0 => reply = NoReply("failed")
       /\ input = Input(credential, write, claims, reply, route)
  /\ outcome = [rust |-> Pending, js |-> Pending, nest |-> Pending]

----------------------------------------------------------------------------
(* A decision: the status, whether the IdP was asked and, when authorized, *)
(* who the handler is told the admin is.                                   *)

Refused(status, introspected) ==
  [status |-> status, introspected |-> introspected]

Identity(adminId, role, grants) ==
  [adminId |-> adminId, role |-> role, grants |-> grants]

Authorized(identity, introspected) ==
  [status |-> 200, introspected |-> introspected, identity |-> identity]

IsSuperAdmin(identity) == identity.role = "super_admin"

HasFeature(identity, site, feature) ==
  \/ IsSuperAdmin(identity)
  \/ site \in DOMAIN identity.grants /\ feature \in identity.grants[site]

HasSite(identity, site) ==
  IsSuperAdmin(identity) \/ site \in DOMAIN identity.grants

HasAnySiteAccess(identity) ==
  IsSuperAdmin(identity) \/ DOMAIN identity.grants # {}

(* Array items or object keys, per site. *)
GrantsOf(entries) ==
  Restrict([k \in DOMAIN entries |-> entries[k].items],
           {k \in DOMAIN entries : entries[k].kind \in {"array", "object"}})

----------------------------------------------------------------------------
(* Rust. *)

NormalizeSiteAccess_ArraysOnly(raw) ==
  IF raw.kind = "object"
  THEN Restrict([k \in DOMAIN raw.entries |-> raw.entries[k].items],
                {k \in DOMAIN raw.entries : raw.entries[k].kind = "array"})
  ELSE << >>

NormalizeSiteAccess(raw) ==
  IF raw.kind = "object" THEN GrantsOf(raw.entries) ELSE << >>

(* 0 when access is allowed.  authorize refuses a route without requirement*)
(* before it would check the claims, with the same status.                 *)
CheckAccess(identity, route) ==
  IF /\ route.needs = "feature"
     /\ HasAnySiteAccess(identity)
     /\ HasFeature(identity, Site, Feature)
  THEN 0 ELSE 403

(* AdminIntrospection::from on a body that parsed. *)
IsActive(reply) ==
  reply.kind = "active" /\ reply.adminId \notin {"blank", "empty"}

(* A body that is no object does not parse, so it is no verdict. *)
NoVerdict(reply) == reply.kind \in {"failed", "null", "scalar"}

AuthorizeWrite(reply, route) ==
  IF NoVerdict(reply) THEN Refused(503, TRUE)
  ELSE IF ~IsActive(reply) THEN Refused(401, TRUE)
  ELSE LET live == Identity(reply.adminId, reply.role,
                            NormalizeSiteAccess(reply.siteAccess))
       IN  IF CheckAccess(live, route) = 0 THEN Authorized(live, TRUE)
           ELSE Refused(CheckAccess(live, route), TRUE)

RustAuthorize(i) ==
  LET claimed == Identity("token's", i.claims.role,
                          NormalizeSiteAccess(i.claims.siteAccess))
  IN  IF VerifyToken(i.credential) # 0
      THEN Refused(VerifyToken(i.credential), FALSE)
      ELSE IF CheckAccess(claimed, i.route) # 0
      THEN Refused(CheckAccess(claimed, i.route), FALSE)
      ELSE IF i.write THEN AuthorizeWrite(i.reply, i.route)
      ELSE Authorized(claimed, FALSE)

----------------------------------------------------------------------------
(* JavaScript.  typeof is 'object' of an array too, and its indices are its*)
(* entries.                                                                *)
NormalizeAdminSiteAccess(raw) ==
  IF raw.kind \in {"object", "array"} THEN GrantsOf(raw.entries) ELSE << >>

Meets(identity, route) ==
  \/ route.needs = "feature" /\ HasFeature(identity, Site, Feature)
  \/ route.needs = "site" /\ HasSite(identity, Site)

CheckAdminScope(identity, route) == IF Meets(identity, route) THEN 0 ELSE 403

(* checkAccess; scoped: the caller passed the route's requirement. *)
JsCheckAccess(identity, route, scoped) ==
  IF ~route.allowNoAccess /\ ~HasAnySiteAccess(identity) THEN 403
  ELSE IF scoped THEN CheckAdminScope(identity, route) ELSE 0

(* A JSON null has no property to read: a TypeError, which no caller maps. *)
JsVerdictFailure(reply) ==
  CASE reply.kind = "failed"                                -> 503
    [] reply.kind = "null"                                  -> 500
    [] reply.kind \in {"scalar", "inactive"}                -> 401
    [] reply.kind = "active" /\ reply.adminId = "empty"     -> 401
    [] OTHER                                                -> 0

JsWrite(reply, route, scoped) ==
  LET live == Identity("token's", reply.role,
                       NormalizeAdminSiteAccess(reply.siteAccess))
  IN  IF JsVerdictFailure(reply) # 0 THEN Refused(JsVerdictFailure(reply), TRUE)
      ELSE IF JsCheckAccess(live, route, scoped) = 0 THEN Authorized(live, TRUE)
      ELSE Refused(JsCheckAccess(live, route, scoped), TRUE)

VerifyAdminAuth(i, scoped) ==
  LET claimed == Identity("token's", i.claims.role,
                          NormalizeAdminSiteAccess(i.claims.siteAccess))
  IN  IF JwtVerify(i.credential) # 0
      THEN Refused(JwtVerify(i.credential), FALSE)
      ELSE IF JsCheckAccess(claimed, i.route, scoped) # 0
      THEN Refused(JsCheckAccess(claimed, i.route, scoped), FALSE)
      ELSE IF i.write THEN JsWrite(i.reply, i.route, scoped)
      ELSE Authorized(claimed, FALSE)

(* AdminAuthGuard gives no requirement; AdminBackOfficeFeatureGuard checks *)
(* what it left on the request.                                            *)
NestGuards_AuthOnly(i) == VerifyAdminAuth(i, FALSE)

NestGuards(i) ==
  LET first == VerifyAdminAuth(i, FALSE)
  IN  IF first.status # 200 \/ CheckAdminScope(first.identity, i.route) = 0
      THEN first
      ELSE Refused(403, first.introspected)

Decide ==
  /\ outcome.rust = Pending
  /\ outcome' = [rust |-> RustAuthorize(input),
                 js   |-> VerifyAdminAuth(input, TRUE),
                 nest |-> NestGuards(input)]
  /\ UNCHANGED input

DecisionSpec == DecisionInit /\ [][Decide]_decisionVars

----------------------------------------------------------------------------
Decided == outcome.rust # Pending

(* Replies the IdP's own contract allows. *)
WellFormed == input.reply.kind \notin {"null", "scalar"}
                /\ input.reply.adminId # "blank"

(* Key sets the two are known to read differently: duplicates of a kid     *)
(* (contract/README.md:122-136), and JSON that is no key set, of which Rust*)
(* says 503 (jwks.rs:324-327) and npm 401 (jwt-verifier.ts:143).           *)
Disputed == {"last-of-two", "not-a-key-set"}

Comparable == input.route \in RustRoutes /\ input.credential \notin Disputed

(* "A behavioural difference between them fails CI" (contract/README.md):  *)
(* each verifying the credential its own way, the two cores answer with the*)
(* same status, ask the IdP for the same requests, and what they authorize *)
(* holds the same features.                                                *)
CoresAgree ==
  Decided /\ WellFormed /\ Comparable =>
    /\ outcome.rust.status = outcome.js.status
    /\ outcome.rust.introspected = outcome.js.introspected
    /\ outcome.rust.status = 200 =>
         \A s \in Sites, f \in Features :
           HasFeature(outcome.rust.identity, s, f)
             = HasFeature(outcome.js.identity, s, f)

(* The two NestJS guards come to the core's decision on every read, and on *)
(* a write never authorize what the live verdict does not grant nor refuse *)
(* what the core authorizes (nest/admin-auth.guard.ts:12-25).              *)
NestAgrees ==
  Decided /\ WellFormed =>
    IF input.write
    THEN /\ outcome.js.status = 200 => outcome.nest.status = 200
         /\ outcome.nest.status = 200 =>
              LET live == Identity("any", input.reply.role,
                                   GrantsOf(input.reply.siteAccess.entries))
              IN  input.reply.kind = "active" /\ Meets(live, input.route)
    ELSE outcome.nest.status = outcome.js.status

(* Rule 5, the status tells the cause: 503 exactly when the key set could  *)
(* not be had or the IdP was asked and no verdict came; in Rust for every  *)
(* such fault, in npm for all but JSON that is no key set, which the code  *)
(* takes for a bad token against this rule (jwt-verifier.ts:143).          *)
TellsCause(d) ==
  d.status = 503 <=>
    \/ input.credential \in KeySetFaults
    \/ d.introspected /\ input.reply.kind = "failed"

StatusTellsCause ==
  Decided /\ WellFormed =>
    /\ TellsCause(outcome.rust)
    /\ input.credential # "not-a-key-set" =>
         TellsCause(outcome.js) /\ TellsCause(outcome.nest)

(* "Both must yield the same grants" (contract/README.md, Shape            *)
(* normalisation): the legacy object shape decides as the current one.     *)
ModernValue(value) ==
  IF value.kind = "object" THEN [value EXCEPT !.kind = "array"] ELSE value

Modern(raw) ==
  [raw EXCEPT !.entries =
     [k \in DOMAIN raw.entries |-> ModernValue(raw.entries[k])]]

ModernAccess(x) == [x EXCEPT !.siteAccess = Modern(x.siteAccess)]

ModernInput ==
  Input(input.credential, input.write, ModernAccess(input.claims),
        ModernAccess(input.reply), input.route)

LegacyShapeDecidesAlike ==
  Decided => /\ outcome.rust = RustAuthorize(ModernInput)
             /\ outcome.js = VerifyAdminAuth(ModernInput, TRUE)
=============================================================================
