-------------------------- MODULE NpmPackage_proofs -------------------------
(***************************************************************************)
(* The npm package: its decisions beside the Rust guard's, for any sites,  *)
(* features and requests, and its circuit breaker, for any number of calls,*)
(* threshold and window.                                                   *)
(***************************************************************************)
EXTENDS GuardParity, JsCircuitBreaker, TLAPS

----------------------------------------------------------------------------
(* What the JSON shapes come to. *)

LEMMA RawShapes ==
  ASSUME NEW raw \in RawAccess
  PROVE  /\ raw.kind \in {"scalar", "object", "array"}
         /\ DOMAIN raw.entries = Sites \union {Index}
         /\ raw.kind = "scalar" =>
              \A k \in Sites \union {Index} : raw.entries[k].kind = "absent"
         /\ raw.kind = "array" => \A s \in Sites : raw.entries[s].kind = "absent"
  BY DEF RawAccess, Absent

LEMMA GrantsOfEntries ==
  ASSUME NEW entries
  PROVE  /\ DOMAIN GrantsOf(entries)
              = {k \in DOMAIN entries : entries[k].kind \in {"array", "object"}}
         /\ \A k \in DOMAIN GrantsOf(entries) :
              GrantsOf(entries)[k] = entries[k].items
  BY DEF GrantsOf, Restrict

(* The packages differ on an array alone, and there on no site's grants.   *)
LEMMA GrantsAgree ==
  ASSUME NEW raw \in RawAccess, NEW s \in Sites
  PROVE  LET rust == NormalizeSiteAccess(raw)
             js == NormalizeAdminSiteAccess(raw)
         IN  /\ s \in DOMAIN rust <=> s \in DOMAIN js
             /\ s \in DOMAIN rust => rust[s] = js[s]
  <1>1. CASE raw.kind = "object"
    BY <1>1 DEF NormalizeSiteAccess, NormalizeAdminSiteAccess
  <1>2. CASE raw.kind = "scalar"
    BY <1>2 DEF NormalizeSiteAccess, NormalizeAdminSiteAccess
  <1>3. CASE raw.kind = "array"
    <2>1. s \notin DOMAIN GrantsOf(raw.entries)
      <3>1. raw.entries[s].kind = "absent"  BY <1>3, RawShapes
      <3>2. DOMAIN GrantsOf(raw.entries)
              = {k \in DOMAIN raw.entries :
                   raw.entries[k].kind \in {"array", "object"}}
        BY GrantsOfEntries
      <3>. QED  BY <3>1, <3>2
    <2>2. s \notin DOMAIN NormalizeSiteAccess(raw)
      BY <1>3 DEF NormalizeSiteAccess
    <2>3. NormalizeAdminSiteAccess(raw) = GrantsOf(raw.entries)
      BY <1>3 DEF NormalizeAdminSiteAccess
    <2>. QED  BY <2>1, <2>2, <2>3
  <1>. QED  BY <1>1, <1>2, <1>3, RawShapes

(* Two identities of one role, with the packages' grants from one claim.   *)
LEMMA FeaturesAgree ==
  ASSUME NEW raw \in RawAccess, NEW role, NEW a, NEW b, NEW s \in Sites, NEW f
  PROVE  HasFeature(Identity(a, role, NormalizeSiteAccess(raw)), s, f)
           <=> HasFeature(Identity(b, role, NormalizeAdminSiteAccess(raw)), s, f)
  BY GrantsAgree DEF HasFeature, IsSuperAdmin, Identity

LEMMA SomeSite ==
  ASSUME NEW identity, NEW s, NEW f, HasFeature(identity, s, f)
  PROVE  HasAnySiteAccess(identity)
  BY DEF HasFeature, HasAnySiteAccess

----------------------------------------------------------------------------
(* The requests. *)

Requests ==
  [credential : Credentials, write : BOOLEAN, claims : Claims, reply : Replies,
   route : Routes]

LEMMA RequestShape ==
  ASSUME NEW i \in Requests
  PROVE  /\ i.credential \in Credentials
         /\ i.write \in BOOLEAN
         /\ i.claims.siteAccess \in RawAccess
         /\ i.reply.kind \in {"failed", "null", "scalar", "inactive", "active"}
         /\ i.reply.kind = "active" =>
              /\ i.reply.adminId \in {"token's", "another", "blank", "empty"}
              /\ i.reply.siteAccess \in RawAccess
         /\ i.reply.kind # "active" => i.reply.adminId = "token's"
         /\ i.route.needs \in {"feature", "site", "unwired"}
         /\ i.route.allowNoAccess \in BOOLEAN
  <1>1. /\ i.credential \in Credentials /\ i.write \in BOOLEAN
        /\ i.claims \in Claims /\ i.reply \in Replies /\ i.route \in Routes
    BY DEF Requests
  <1>2. CASE i.reply \in {NoReply(kind) : kind \in ReplyKinds \ {"active"}}
    <2>1. PICK kind \in ReplyKinds \ {"active"} : i.reply = NoReply(kind)
      BY <1>2
    <2>2. i.reply.kind = kind /\ i.reply.adminId = "token's"
      BY <2>1 DEF NoReply
    <2>. QED  BY <1>1, <2>2 DEF Claims, Routes, ReplyKinds
  <1>3. CASE i.reply \in [kind : {"active"},
                         adminId : {"token's", "another", "blank", "empty"},
                         role : Roles, siteAccess : RawAccess]
    BY <1>1, <1>3 DEF Claims, Routes
  <1>. QED  BY <1>1, <1>2, <1>3 DEF Replies

(* What each package makes of a credential, and where they part.           *)
LEMMA Verdicts ==
  ASSUME NEW credential \in Credentials
  PROVE  /\ VerifyToken(credential) \in {0, 401, 503}
         /\ JwtVerify(credential) \in {0, 401, 503}
         /\ VerifyToken(credential) = 503 <=> credential \in KeySetFaults
         /\ credential # "not-a-key-set" =>
              (JwtVerify(credential) = 503 <=> credential \in KeySetFaults)
         /\ credential \notin Disputed =>
              VerifyToken(credential) = JwtVerify(credential)
  <1>1. VerifyToken(credential) =
          IF credential \in {"good", "last-of-two"} THEN 0
          ELSE IF credential \in KeySetFaults THEN 503 ELSE 401
    BY DEF VerifyToken
  <1>2. JwtVerify(credential) =
          IF credential = "good" THEN 0
          ELSE IF credential \in {"timeout", "non-2xx", "not-JSON", "no-connection"}
          THEN 503 ELSE 401
    <2>1. CASE credential \in {"good", "malformed"}
      BY <2>1 DEF JwtVerify
    <2>2. CASE credential \in {"timeout", "non-2xx", "not-JSON", "no-connection"}
      <3>1. JoseRaises(credential) \in {"JWKSTimeout", "JOSEError", "Error"}
        BY <2>2 DEF JoseRaises
      <3>2. ClassifyVerifyError(JoseRaises(credential)) = 503
        BY <3>1 DEF ClassifyVerifyError
      <3>. QED  BY <2>2, <3>2 DEF JwtVerify
    <2>3. CASE credential \in {"expired", "unknown-kid", "not-a-key-set",
                               "first-of-two", "last-of-two", "forged"}
      <3>1. JoseRaises(credential) \notin {"JWKSTimeout", "JOSEError", "Error"}
        BY <2>3 DEF JoseRaises
      <3>2. ClassifyVerifyError(JoseRaises(credential)) = 401
        BY <3>1 DEF ClassifyVerifyError
      <3>. QED  BY <2>3, <3>2 DEF JwtVerify
    <2>. QED  BY <2>1, <2>2, <2>3 DEF Credentials, KeySetFaults
  <1>3. VerifyToken(credential) = 503 <=> credential \in KeySetFaults
    BY <1>1 DEF KeySetFaults
  <1>4. credential # "not-a-key-set" =>
          (JwtVerify(credential) = 503 <=> credential \in KeySetFaults)
    BY <1>2 DEF KeySetFaults
  <1>5. credential \notin Disputed =>
          VerifyToken(credential) = JwtVerify(credential)
    BY <1>1, <1>2 DEF KeySetFaults, Disputed
  <1>. QED  BY <1>1, <1>2, <1>3, <1>4, <1>5

(* Replies the contract allows. *)
Sound(i) == i.reply.kind \notin {"null", "scalar"} /\ i.reply.adminId # "blank"

(* What the claims and the live verdict grant, as each package reads them. *)
RustClaimed(i) ==
  Identity("token's", i.claims.role, NormalizeSiteAccess(i.claims.siteAccess))

RustLive(i) ==
  Identity(i.reply.adminId, i.reply.role,
           NormalizeSiteAccess(i.reply.siteAccess))

JsClaimed(i) ==
  Identity("token's", i.claims.role,
           NormalizeAdminSiteAccess(i.claims.siteAccess))

JsLive(i) ==
  Identity("token's", i.reply.role,
           NormalizeAdminSiteAccess(i.reply.siteAccess))

LEMMA RouteForBoth ==
  ASSUME NEW i \in Requests, i.route \in RustRoutes
  PROVE  /\ CheckAccess(RustClaimed(i), i.route)
              = JsCheckAccess(JsClaimed(i), i.route, TRUE)
         /\ i.reply.kind = "active" =>
              CheckAccess(RustLive(i), i.route)
                = JsCheckAccess(JsLive(i), i.route, TRUE)
  <1>1. i.route.needs # "site" /\ ~i.route.allowNoAccess
    BY DEF RustRoutes
  <1>2. ASSUME NEW raw \in RawAccess, NEW role, NEW a, NEW b
        PROVE  CheckAccess(Identity(a, role, NormalizeSiteAccess(raw)), i.route)
                 = JsCheckAccess(Identity(b, role, NormalizeAdminSiteAccess(raw)),
                                 i.route, TRUE)
    <2>. DEFINE x == Identity(a, role, NormalizeSiteAccess(raw))
                y == Identity(b, role, NormalizeAdminSiteAccess(raw))
    <2>1. HasFeature(x, Site, Feature) <=> HasFeature(y, Site, Feature)
      BY RouteAssumption, FeaturesAgree DEF RouteAssumption
    <2>. HIDE DEF x, y
    <2>2. /\ HasFeature(x, Site, Feature) => HasAnySiteAccess(x)
          /\ HasFeature(y, Site, Feature) => HasAnySiteAccess(y)
      BY SomeSite
    <2>3. CheckAccess(x, i.route) = JsCheckAccess(y, i.route, TRUE)
      BY <1>1, <2>1, <2>2
         DEF CheckAccess, JsCheckAccess, CheckAdminScope, Meets
    <2>. QED  BY <2>3 DEF x, y
  <1>. QED  BY <1>2, RequestShape DEF RustClaimed, JsClaimed, RustLive, JsLive

----------------------------------------------------------------------------
(* Both packages follow one procedure: they differ in what they read from  *)
(* the claims and the verdict, in the check they make of it and in what v  *)
(* their verification comes to.                                            *)

Ruling(reply, live, onLive) ==
  IF reply.kind = "failed" THEN Refused(503, TRUE)
  ELSE IF reply.kind = "inactive" \/ reply.adminId = "empty"
  THEN Refused(401, TRUE)
  ELSE IF onLive # 0 THEN Refused(onLive, TRUE)
  ELSE Authorized(live, TRUE)

Procedure(i, v, claimed, onClaims, live, onLive) ==
  IF v # 0 THEN Refused(v, FALSE)
  ELSE IF onClaims # 0 THEN Refused(onClaims, FALSE)
  ELSE IF i.write THEN Ruling(i.reply, live, onLive)
  ELSE Authorized(claimed, FALSE)

LEMMA RustProcedure ==
  ASSUME NEW i \in Requests, Sound(i)
  PROVE  RustAuthorize(i)
           = Procedure(i, VerifyToken(i.credential),
                       RustClaimed(i), CheckAccess(RustClaimed(i), i.route),
                       RustLive(i), CheckAccess(RustLive(i), i.route))
  <1>. DEFINE v == VerifyToken(i.credential)
              c == CheckAccess(RustClaimed(i), i.route)
              l == CheckAccess(RustLive(i), i.route)
  <1>1. RustAuthorize(i) =
          IF v # 0 THEN Refused(v, FALSE)
          ELSE IF c # 0 THEN Refused(c, FALSE)
          ELSE IF i.write THEN AuthorizeWrite(i.reply, i.route)
          ELSE Authorized(RustClaimed(i), FALSE)
    BY DEF RustAuthorize, RustClaimed
  <1>2. AuthorizeWrite(i.reply, i.route) =
          IF NoVerdict(i.reply) THEN Refused(503, TRUE)
          ELSE IF ~IsActive(i.reply) THEN Refused(401, TRUE)
          ELSE IF l = 0 THEN Authorized(RustLive(i), TRUE)
          ELSE Refused(l, TRUE)
    BY DEF AuthorizeWrite, RustLive
  <1>3. NoVerdict(i.reply) <=> i.reply.kind = "failed"
    BY RequestShape DEF NoVerdict, Sound
  <1>4. ~NoVerdict(i.reply) =>
          (~IsActive(i.reply)
             <=> i.reply.kind = "inactive" \/ i.reply.adminId = "empty")
    BY <1>3, RequestShape DEF IsActive, Sound
  <1>. HIDE DEF v, c, l
  <1>5. CASE v # 0
    <2>1. RustAuthorize(i) = Refused(v, FALSE)  BY <1>1, <1>5
    <2>2. Procedure(i, v, RustClaimed(i), c, RustLive(i), l) = Refused(v, FALSE)
      BY <1>5 DEF Procedure
    <2>. QED  BY <2>1, <2>2 DEF v, c, l
  <1>. DEFINE answer == Procedure(i, v, RustClaimed(i), c, RustLive(i), l)
  <1>6. CASE v = 0 /\ c # 0
    <2>1. RustAuthorize(i) = Refused(c, FALSE)  BY <1>1, <1>6
    <2>2. answer = Refused(c, FALSE)  BY <1>6 DEF Procedure, Ruling
    <2>. QED  BY <2>1, <2>2 DEF v, c, l
  <1>7. CASE v = 0 /\ c = 0 /\ ~i.write
    <2>1. RustAuthorize(i) = Authorized(RustClaimed(i), FALSE)
      BY <1>1, <1>7
    <2>2. answer = Authorized(RustClaimed(i), FALSE)
      BY <1>7 DEF Procedure, Ruling
    <2>. QED  BY <2>1, <2>2 DEF v, c, l
  <1>8. CASE v = 0 /\ c = 0 /\ i.write
    <2>1. RustAuthorize(i) = AuthorizeWrite(i.reply, i.route)
      BY <1>1, <1>8
    <2>2. CASE NoVerdict(i.reply)
      <3>1. AuthorizeWrite(i.reply, i.route) = Refused(503, TRUE)
        BY <1>2, <2>2
      <3>2. answer = Refused(503, TRUE)
        BY <1>3, <1>8, <2>2 DEF Procedure, Ruling
      <3>. QED  BY <2>1, <3>1, <3>2 DEF v, c, l
    <2>3. CASE ~NoVerdict(i.reply) /\ ~IsActive(i.reply)
      <3>1. AuthorizeWrite(i.reply, i.route) = Refused(401, TRUE)
        BY <1>2, <2>3
      <3>2. i.reply.kind # "failed"  BY <1>3, <2>3
      <3>3. i.reply.kind = "inactive" \/ i.reply.adminId = "empty"
        BY <1>4, <2>3
      <3>4. answer = Refused(401, TRUE)
        BY <1>8, <3>2, <3>3 DEF Procedure, Ruling
      <3>. QED  BY <2>1, <3>1, <3>4 DEF v, c, l
    <2>4. CASE ~NoVerdict(i.reply) /\ IsActive(i.reply)
      <3>1. AuthorizeWrite(i.reply, i.route) =
              IF l = 0 THEN Authorized(RustLive(i), TRUE) ELSE Refused(l, TRUE)
        BY <1>2, <2>4
      <3>2. i.reply.kind # "failed"  BY <1>3, <2>4
      <3>3. ~(i.reply.kind = "inactive" \/ i.reply.adminId = "empty")
        BY <1>4, <2>4
      <3>4. answer = IF l # 0 THEN Refused(l, TRUE)
                     ELSE Authorized(RustLive(i), TRUE)
        BY <1>8, <3>2, <3>3 DEF Procedure, Ruling
      <3>. QED  BY <2>1, <3>1, <3>4 DEF v, c, l
    <2>. QED  BY <2>2, <2>3, <2>4
  <1>. QED  BY <1>5, <1>6, <1>7, <1>8 DEF v, c, l

LEMMA JsProcedure ==
  ASSUME NEW i \in Requests, Sound(i), NEW scoped \in BOOLEAN
  PROVE  VerifyAdminAuth(i, scoped)
           = Procedure(i, JwtVerify(i.credential), JsClaimed(i),
                       JsCheckAccess(JsClaimed(i), i.route, scoped),
                       JsLive(i), JsCheckAccess(JsLive(i), i.route, scoped))
  <1>. DEFINE v == JwtVerify(i.credential)
              c == JsCheckAccess(JsClaimed(i), i.route, scoped)
              l == JsCheckAccess(JsLive(i), i.route, scoped)
  <1>1. VerifyAdminAuth(i, scoped) =
          IF v # 0 THEN Refused(v, FALSE)
          ELSE IF c # 0 THEN Refused(c, FALSE)
          ELSE IF i.write THEN JsWrite(i.reply, i.route, scoped)
          ELSE Authorized(JsClaimed(i), FALSE)
    BY DEF VerifyAdminAuth, JsClaimed
  <1>2. JsWrite(i.reply, i.route, scoped) =
          IF JsVerdictFailure(i.reply) # 0
          THEN Refused(JsVerdictFailure(i.reply), TRUE)
          ELSE IF l = 0 THEN Authorized(JsLive(i), TRUE)
          ELSE Refused(l, TRUE)
    BY DEF JsWrite, JsLive
  <1>3. JsVerdictFailure(i.reply) =
          IF i.reply.kind = "failed" THEN 503
          ELSE IF i.reply.kind = "inactive" \/ i.reply.adminId = "empty"
          THEN 401 ELSE 0
    <2>1. CASE i.reply.kind = "failed"
      BY <2>1 DEF JsVerdictFailure
    <2>2. CASE i.reply.kind = "inactive"
      BY <2>2 DEF JsVerdictFailure
    <2>3. CASE i.reply.kind = "active" /\ i.reply.adminId = "empty"
      BY <2>3 DEF JsVerdictFailure
    <2>4. CASE i.reply.kind = "active" /\ i.reply.adminId # "empty"
      BY <2>4 DEF JsVerdictFailure
    <2>. QED  BY <2>1, <2>2, <2>3, <2>4, RequestShape DEF Sound
  <1>. HIDE DEF v, c, l
  <1>4. JsWrite(i.reply, i.route, scoped) =
          IF i.reply.kind = "failed" THEN Refused(503, TRUE)
          ELSE IF i.reply.kind = "inactive" \/ i.reply.adminId = "empty"
          THEN Refused(401, TRUE)
          ELSE IF l # 0 THEN Refused(l, TRUE) ELSE Authorized(JsLive(i), TRUE)
    <2>1. CASE JsVerdictFailure(i.reply) = 503 /\ i.reply.kind = "failed"
      BY <1>2, <2>1
    <2>2. CASE /\ JsVerdictFailure(i.reply) = 401
               /\ i.reply.kind # "failed"
               /\ i.reply.kind = "inactive" \/ i.reply.adminId = "empty"
      <3>1. JsWrite(i.reply, i.route, scoped) = Refused(401, TRUE)
        BY <1>2, <2>2
      <3>. QED  BY <2>2, <3>1
    <2>3. CASE /\ JsVerdictFailure(i.reply) = 0
               /\ i.reply.kind # "failed"
               /\ ~(i.reply.kind = "inactive" \/ i.reply.adminId = "empty")
      BY <1>2, <2>3
    <2>. QED  BY <1>3, <2>1, <2>2, <2>3, ZenonT(60)
  <1>5. VerifyAdminAuth(i, scoped)
          = Procedure(i, v, JsClaimed(i), c, JsLive(i), l)
    <2>1. CASE v # 0
      BY <1>1, <2>1 DEF Procedure, Ruling
    <2>2. CASE v = 0 /\ c # 0
      BY <1>1, <2>2 DEF Procedure, Ruling
    <2>3. CASE v = 0 /\ c = 0 /\ ~i.write
      BY <1>1, <2>3 DEF Procedure, Ruling
    <2>4. CASE v = 0 /\ c = 0 /\ i.write
      <3>1. VerifyAdminAuth(i, scoped) = JsWrite(i.reply, i.route, scoped)
        BY <1>1, <2>4
      <3>. QED  BY <1>4, <2>4, <3>1 DEF Procedure, Ruling
    <2>. QED  BY <2>1, <2>2, <2>3, <2>4
  <1>. QED  BY <1>5 DEF v, c, l

LEMMA DecisionFields ==
  ASSUME NEW n, NEW asked, NEW identity
  PROVE  /\ Refused(n, asked).status = n
         /\ Refused(n, asked).introspected = asked
         /\ Authorized(identity, asked).status = 200
         /\ Authorized(identity, asked).introspected = asked
         /\ Authorized(identity, asked).identity = identity
  BY DEF Refused, Authorized

(* When a decision authorizes and whom, whether it asked the IdP and when  *)
(* it answers 503.                                                         *)
Through(v, onClaims) == v = 0 /\ onClaims = 0

Granted(i, onLive) ==
  i.reply.kind = "active" /\ i.reply.adminId # "empty" /\ onLive = 0

Follows(d, i, v, claimed, onClaims, live, onLive) ==
  /\ d.status = 200 <=> Through(v, onClaims) /\ (i.write => Granted(i, onLive))
  /\ d.status = 200 /\ ~i.write => d.identity = claimed
  /\ d.status = 200 /\ i.write => d.identity = live
  /\ Through(v, onClaims) /\ i.write => d.introspected = TRUE
  /\ ~(Through(v, onClaims) /\ i.write) => d.introspected = FALSE
  /\ d.status = 503 <=>
       \/ v = 503
       \/ Through(v, onClaims) /\ i.write /\ i.reply.kind = "failed"

LEMMA ProcedureOutcome ==
  ASSUME NEW i \in Requests, Sound(i), NEW v \in {0, 401, 503}, NEW claimed, NEW live,
         NEW onClaims \in {0, 403}, NEW onLive \in {0, 403}
  PROVE  Follows(Procedure(i, v, claimed, onClaims, live, onLive), i,
                 v, claimed, onClaims, live, onLive)
  <1>. DEFINE d == Procedure(i, v, claimed, onClaims, live, onLive)
  <1>1. i.reply.kind \in {"failed", "inactive", "active"}
    BY RequestShape, ZenonT(60) DEF Sound
  <1>2. CASE v # 0
    <2>1. d = Refused(v, FALSE)  BY <1>2 DEF Procedure, Ruling
    <2>2. d.status = v /\ d.introspected = FALSE
      BY <2>1 DEF Refused, Authorized
    <2>. HIDE DEF d
    <2>3. Follows(d, i, v, claimed, onClaims, live, onLive)
      <3>1. ~Through(v, onClaims)  BY <1>2 DEF Through
      <3>2. d.status # 200 /\ (d.status = 503 <=> v = 503)  BY <2>2
      <3>. QED  BY <2>2, <3>1, <3>2, ZenonT(60) DEF Follows
    <2>. QED  BY <2>3 DEF d
  <1>3. CASE v = 0 /\ onClaims # 0
    <2>1. d = Refused(403, FALSE)  BY <1>3 DEF Procedure, Ruling
    <2>2. d.status = 403 /\ d.introspected = FALSE  BY <2>1 DEF Refused, Authorized
    <2>. HIDE DEF d
    <2>3. Follows(d, i, v, claimed, onClaims, live, onLive)
      BY <1>3, <2>2 DEF Follows, Through
    <2>. QED  BY <2>3 DEF d
  <1>4. CASE v = 0 /\ onClaims = 0 /\ ~i.write
    <2>1. d = Authorized(claimed, FALSE)  BY <1>4 DEF Procedure, Ruling
    <2>2. d.status = 200 /\ d.introspected = FALSE /\ d.identity = claimed
      BY <2>1 DEF Refused, Authorized
    <2>. HIDE DEF d
    <2>3. Follows(d, i, v, claimed, onClaims, live, onLive)
      BY <1>4, <2>2 DEF Follows, Through
    <2>. QED  BY <2>3 DEF d
  <1>5. CASE v = 0 /\ onClaims = 0 /\ i.write
    <2>1. CASE i.reply.kind = "failed"
      <3>1. d = Refused(503, TRUE)  BY <1>5, <2>1 DEF Procedure, Ruling
      <3>2. d.status = 503 /\ d.introspected = TRUE  BY <3>1 DEF Refused, Authorized
      <3>. HIDE DEF d
      <3>3. Follows(d, i, v, claimed, onClaims, live, onLive)
        BY <1>5, <2>1, <3>2 DEF Follows, Through, Granted
      <3>. QED  BY <3>3 DEF d
    <2>2. CASE /\ i.reply.kind # "failed"
               /\ i.reply.kind = "inactive" \/ i.reply.adminId = "empty"
      <3>1. d = Refused(401, TRUE)
        BY <1>5, <2>2, ZenonT(60) DEF Procedure, Ruling
      <3>2. d.status = 401 /\ d.introspected = TRUE  BY <3>1 DEF Refused, Authorized
      <3>. HIDE DEF d
      <3>3. Follows(d, i, v, claimed, onClaims, live, onLive)
        BY <1>5, <2>2, <3>2 DEF Follows, Through, Granted
      <3>. QED  BY <3>3 DEF d
    <2>3. CASE i.reply.kind = "active" /\ i.reply.adminId # "empty" /\ onLive # 0
      <3>1. d = Refused(403, TRUE)
        BY <1>5, <2>3, ZenonT(60) DEF Procedure, Ruling
      <3>2. d.status = 403 /\ d.introspected = TRUE  BY <3>1 DEF Refused, Authorized
      <3>. HIDE DEF d
      <3>3. Follows(d, i, v, claimed, onClaims, live, onLive)
        BY <1>5, <2>3, <3>2 DEF Follows, Through, Granted
      <3>. QED  BY <3>3 DEF d
    <2>4. CASE i.reply.kind = "active" /\ i.reply.adminId # "empty" /\ onLive = 0
      <3>1. d = Authorized(live, TRUE)  BY <1>5, <2>4 DEF Procedure, Ruling
      <3>2. d.status = 200 /\ d.introspected = TRUE /\ d.identity = live
        BY <3>1 DEF Refused, Authorized
      <3>. HIDE DEF d
      <3>3. Follows(d, i, v, claimed, onClaims, live, onLive)
        BY <1>5, <2>4, <3>2 DEF Follows, Through, Granted
      <3>. QED  BY <3>3 DEF d
    <2>. QED  BY <1>1, <2>1, <2>2, <2>3, <2>4
  <1>. QED  BY <1>2, <1>3, <1>4, <1>5

(* Two packages that check alike answer alike. *)
LEMMA SameStatus ==
  ASSUME NEW i \in Requests, Sound(i),
         NEW v, NEW a, NEW b, NEW c, NEW d, NEW onClaims, NEW k, NEW l,
         i.reply.kind = "active" => k = l
  PROVE  Procedure(i, v, a, onClaims, b, k).status
           = Procedure(i, v, c, onClaims, d, l).status
  <1>. DEFINE x == Procedure(i, v, a, onClaims, b, k)
              y == Procedure(i, v, c, onClaims, d, l)
  <1>1. i.reply.kind \in {"failed", "inactive", "active"}
    BY RequestShape DEF Sound
  <1>2. CASE v # 0
    BY <1>2 DEF Procedure, Ruling
  <1>3. CASE v = 0 /\ onClaims # 0
    BY <1>3 DEF Procedure, Ruling
  <1>4. CASE v = 0 /\ onClaims = 0 /\ ~i.write
    <2>1. x = Authorized(a, FALSE) /\ y = Authorized(c, FALSE)
      BY <1>4 DEF Procedure, Ruling
    <2>. QED  BY <2>1 DEF Authorized
  <1>5. CASE /\ v = 0 /\ onClaims = 0 /\ i.write
             /\ \/ i.reply.kind # "active" \/ i.reply.adminId = "empty"
                \/ k # 0
    <2>1. CASE i.reply.kind = "failed"
      <3>1. x = Refused(503, TRUE) /\ y = Refused(503, TRUE)
        BY <1>5, <2>1 DEF Procedure, Ruling
      <3>. QED  BY <3>1
    <2>2. CASE /\ i.reply.kind # "failed"
               /\ i.reply.kind = "inactive" \/ i.reply.adminId = "empty"
      <3>1. x = Refused(401, TRUE) /\ y = Refused(401, TRUE)
        BY <1>5, <2>2, ZenonT(60) DEF Procedure, Ruling
      <3>. QED  BY <3>1
    <2>3. CASE i.reply.kind = "active" /\ i.reply.adminId # "empty" /\ k # 0
      <3>1. l = k  BY <2>3
      <3>2. x = Refused(k, TRUE) /\ y = Refused(k, TRUE)
        BY <1>5, <2>3, <3>1 DEF Procedure, Ruling
      <3>. QED  BY <3>2
    <2>. QED  BY <1>1, <1>5, <2>1, <2>2, <2>3
  <1>6. CASE /\ v = 0 /\ onClaims = 0 /\ i.write
             /\ i.reply.kind = "active" /\ i.reply.adminId # "empty" /\ k = 0
    <2>1. x = Authorized(b, TRUE) /\ y = Authorized(d, TRUE)
      BY <1>6 DEF Procedure, Ruling
    <2>. QED  BY <2>1 DEF Authorized
  <1>. QED  BY <1>2, <1>3, <1>4, <1>5, <1>6

LEMMA NestProcedure ==
  ASSUME NEW i \in Requests
  PROVE  LET first == VerifyAdminAuth(i, FALSE)
             nest == NestGuards(i)
         IN  /\ nest.status = 200 <=>
                  first.status = 200 /\ CheckAdminScope(first.identity, i.route) = 0
             /\ nest.status # first.status =>
                  /\ nest.status = 403 /\ first.status = 200
                  /\ CheckAdminScope(first.identity, i.route) # 0
             /\ nest.introspected = first.introspected
  <1>. DEFINE first == VerifyAdminAuth(i, FALSE)
              nest == NestGuards(i)
  <1>1. CASE first.status # 200 \/ CheckAdminScope(first.identity, i.route) = 0
    <2>1. nest = first  BY <1>1 DEF NestGuards
    <2>. QED  BY <1>1, <2>1
  <1>2. CASE /\ first.status = 200
             /\ CheckAdminScope(first.identity, i.route) # 0
    <2>1. nest = Refused(403, first.introspected)
      BY <1>2 DEF NestGuards
    <2>2. nest.status = 403 /\ nest.introspected = first.introspected
      BY <2>1 DEF Refused
    <2>. HIDE DEF first, nest
    <2>3. /\ nest.status = 200 <=>
               first.status = 200 /\ CheckAdminScope(first.identity, i.route) = 0
          /\ nest.status # first.status =>
               /\ nest.status = 403 /\ first.status = 200
               /\ CheckAdminScope(first.identity, i.route) # 0
          /\ nest.introspected = first.introspected
      BY <1>2, <2>2
    <2>. QED  BY <2>3 DEF first, nest
  <1>. QED  BY <1>1, <1>2

----------------------------------------------------------------------------
(* The decisions on one request. *)

LEMMA RustFollows ==
  ASSUME NEW i \in Requests, Sound(i)
  PROVE  Follows(RustAuthorize(i), i, VerifyToken(i.credential),
                 RustClaimed(i), CheckAccess(RustClaimed(i), i.route),
                 RustLive(i), CheckAccess(RustLive(i), i.route))
  <1>. DEFINE v == VerifyToken(i.credential)
              c == CheckAccess(RustClaimed(i), i.route)
              l == CheckAccess(RustLive(i), i.route)
  <1>0. v \in {0, 401, 503}
    <2>1. i.credential \in Credentials  BY RequestShape
    <2>. QED  BY <2>1, Verdicts
  <1>1. c \in {0, 403} /\ l \in {0, 403}  BY DEF CheckAccess
  <1>2. RustAuthorize(i) = Procedure(i, v, RustClaimed(i), c, RustLive(i), l)
    BY RustProcedure
  <1>. HIDE DEF v, c, l
  <1>3. Follows(Procedure(i, v, RustClaimed(i), c, RustLive(i), l), i, v,
                RustClaimed(i), c, RustLive(i), l)
    BY <1>0, <1>1, ProcedureOutcome
  <1>4. Follows(RustAuthorize(i), i, v, RustClaimed(i), c, RustLive(i), l)
    BY <1>2, <1>3
  <1>. QED  BY <1>4 DEF v, c, l

LEMMA JsFollows ==
  ASSUME NEW i \in Requests, Sound(i), NEW scoped \in BOOLEAN
  PROVE  Follows(VerifyAdminAuth(i, scoped), i, JwtVerify(i.credential),
                 JsClaimed(i), JsCheckAccess(JsClaimed(i), i.route, scoped),
                 JsLive(i), JsCheckAccess(JsLive(i), i.route, scoped))
  <1>. DEFINE v == JwtVerify(i.credential)
              c == JsCheckAccess(JsClaimed(i), i.route, scoped)
              l == JsCheckAccess(JsLive(i), i.route, scoped)
  <1>0. v \in {0, 401, 503}
    <2>1. i.credential \in Credentials  BY RequestShape
    <2>. QED  BY <2>1, Verdicts
  <1>1. c \in {0, 403} /\ l \in {0, 403}
    BY DEF JsCheckAccess, CheckAdminScope
  <1>2. VerifyAdminAuth(i, scoped) = Procedure(i, v, JsClaimed(i), c, JsLive(i), l)
    BY JsProcedure
  <1>. HIDE DEF v, c, l
  <1>3. Follows(Procedure(i, v, JsClaimed(i), c, JsLive(i), l), i, v,
                JsClaimed(i), c, JsLive(i), l)
    BY <1>0, <1>1, ProcedureOutcome
  <1>4. Follows(VerifyAdminAuth(i, scoped), i, v, JsClaimed(i), c, JsLive(i), l)
    BY <1>2, <1>3
  <1>. QED  BY <1>4 DEF v, c, l

(* The cores agree on what they answer, whom they ask and what they grant. *)
LEMMA CoresDecideAlike ==
  ASSUME NEW i \in Requests, Sound(i), i.route \in RustRoutes,
         i.credential \notin Disputed
  PROVE  LET rust == RustAuthorize(i)
             js == VerifyAdminAuth(i, TRUE)
         IN  /\ rust.status = js.status
             /\ rust.introspected = js.introspected
             /\ rust.status = 200 =>
                  \A s \in Sites, f \in Features :
                    HasFeature(rust.identity, s, f)
                      <=> HasFeature(js.identity, s, f)
  <1>. DEFINE rust == RustAuthorize(i)
              js == VerifyAdminAuth(i, TRUE)
              v == VerifyToken(i.credential)
              c == JsCheckAccess(JsClaimed(i), i.route, TRUE)
              k == CheckAccess(RustLive(i), i.route)
              l == JsCheckAccess(JsLive(i), i.route, TRUE)
  <1>1. CheckAccess(RustClaimed(i), i.route) = c
    BY RouteForBoth
  <1>v. JwtVerify(i.credential) = v  BY RequestShape, Verdicts
  <1>2. i.reply.kind = "active" => k = l  BY RouteForBoth
  <1>3. /\ rust = Procedure(i, v, RustClaimed(i), c, RustLive(i), k)
        /\ Follows(rust, i, v, RustClaimed(i), c, RustLive(i), k)
    BY <1>1, RustProcedure, RustFollows
  <1>4. js = Procedure(i, v, JsClaimed(i), c, JsLive(i), l)
    BY <1>v, JsProcedure
  <1>5. Follows(js, i, v, JsClaimed(i), c, JsLive(i), l)
    BY <1>v, JsFollows
  <1>. HIDE DEF v, c, k, l
  <1>6. rust.status = js.status
    <2>1. Procedure(i, v, RustClaimed(i), c, RustLive(i), k).status
            = Procedure(i, v, JsClaimed(i), c, JsLive(i), l).status
      BY <1>2, SameStatus
    <2>. QED  BY <1>3, <1>4, <2>1
  <1>7. rust.introspected = js.introspected
    <2>. HIDE DEF rust, js
    <2>. QED  BY <1>3, <1>5, ZenonT(60) DEF Follows
  <1>8. ASSUME rust.status = 200, NEW s \in Sites, NEW f \in Features
        PROVE  HasFeature(rust.identity, s, f) <=> HasFeature(js.identity, s, f)
    <2>1. CASE ~i.write
      <3>1. rust.identity = RustClaimed(i) /\ js.identity = JsClaimed(i)
        <4>1. js.status = 200  BY <1>6, <1>8
        <4>. HIDE DEF rust, js
        <4>. QED  BY <1>3, <1>5, <1>8, <2>1, <4>1 DEF Follows
      <3>2. HasFeature(RustClaimed(i), s, f) <=> HasFeature(JsClaimed(i), s, f)
        BY RequestShape, FeaturesAgree DEF RustClaimed, JsClaimed
      <3>. QED  BY <3>1, <3>2
    <2>2. CASE i.write
      <3>1. /\ rust.identity = RustLive(i) /\ js.identity = JsLive(i)
            /\ i.reply.kind = "active"
        <4>1. js.status = 200  BY <1>6, <1>8
        <4>. HIDE DEF rust, js
        <4>. QED  BY <1>3, <1>5, <1>8, <2>2, <4>1 DEF Follows, Granted
      <3>2. i.reply.siteAccess \in RawAccess  BY <3>1, RequestShape
      <3>3. HasFeature(RustLive(i), s, f) <=> HasFeature(JsLive(i), s, f)
        BY <3>2, FeaturesAgree DEF RustLive, JsLive
      <3>. QED  BY <3>1, <3>3
    <2>. QED  BY <2>1, <2>2
  <1>. QED  BY <1>6, <1>7, <1>8

(* The route's requirement lets no one in whom the guard without it would  *)
(* turn away.                                                              *)
LEMMA ScopedIsStricter ==
  ASSUME NEW identity, NEW route
  PROVE  JsCheckAccess(identity, route, TRUE) = 0 <=>
           /\ JsCheckAccess(identity, route, FALSE) = 0
           /\ CheckAdminScope(identity, route) = 0
  BY DEF JsCheckAccess, CheckAdminScope

(* What a live verdict grants is what the requirement is checked against.  *)
LEMMA LiveMeets ==
  ASSUME NEW i \in Requests, i.reply.kind = "active",
         CheckAdminScope(JsLive(i), i.route) = 0
  PROVE  Meets(Identity("any", i.reply.role,
                        GrantsOf(i.reply.siteAccess.entries)), i.route)
  <1>. DEFINE raw == i.reply.siteAccess
              js == NormalizeAdminSiteAccess(raw)
              g == GrantsOf(raw.entries)
  <1>1. raw \in RawAccess  BY RequestShape
  <1>2. Meets(JsLive(i), i.route)  BY DEF CheckAdminScope
  <1>. HIDE DEF raw
  <1>3. \A s \in Sites : s \in DOMAIN js => s \in DOMAIN g /\ js[s] = g[s]
    <2>1. CASE raw.kind \in {"object", "array"}
      BY <2>1 DEF NormalizeAdminSiteAccess
    <2>2. CASE raw.kind = "scalar"
      BY <2>2 DEF NormalizeAdminSiteAccess
    <2>. QED  BY <1>1, <2>1, <2>2, RawShapes
  <1>. HIDE DEF js, g
  <1>4. /\ JsLive(i).role = i.reply.role /\ JsLive(i).grants = js
        /\ Identity("any", i.reply.role, g).role = i.reply.role
        /\ Identity("any", i.reply.role, g).grants = g
    BY DEF JsLive, Identity, js, raw
  <1>. DEFINE live == JsLive(i)
              any == Identity("any", i.reply.role, g)
  <1>. HIDE DEF live, any
  <1>5. Meets(live, i.route)  BY <1>2 DEF live
  <1>6. live.role = any.role /\ live.grants = js /\ any.grants = g
    BY <1>4 DEF live, any
  <1>7. Meets(any, i.route)
    BY <1>3, <1>5, <1>6, RouteAssumption
       DEF Meets, HasFeature, HasSite, IsSuperAdmin, RouteAssumption
  <1>. QED  BY <1>7 DEF any, g, raw

JsAuthorize(i) == VerifyAdminAuth(i, TRUE)

Accords(i, js, nest) ==
  /\ i.write =>
       /\ js.status = 200 => nest.status = 200
       /\ nest.status = 200 =>
            /\ i.reply.kind = "active"
            /\ Meets(Identity("any", i.reply.role,
                              GrantsOf(i.reply.siteAccess.entries)), i.route)
  /\ ~i.write => nest.status = js.status

LEMMA NestDecidesAlike ==
  ASSUME NEW i \in Requests, Sound(i)
  PROVE  Accords(i, JsAuthorize(i), NestGuards(i))
  <1>. DEFINE js == VerifyAdminAuth(i, TRUE)
              first == VerifyAdminAuth(i, FALSE)
              nest == NestGuards(i)
              v == JwtVerify(i.credential)
              c == JsCheckAccess(JsClaimed(i), i.route, TRUE)
              l == JsCheckAccess(JsLive(i), i.route, TRUE)
              c1 == JsCheckAccess(JsClaimed(i), i.route, FALSE)
              l1 == JsCheckAccess(JsLive(i), i.route, FALSE)
              sc == CheckAdminScope(JsClaimed(i), i.route)
              sl == CheckAdminScope(JsLive(i), i.route)
  <1>1. /\ c = 0 <=> c1 = 0 /\ sc = 0
        /\ l = 0 <=> l1 = 0 /\ sl = 0
    BY ScopedIsStricter
  <1>2. Follows(js, i, v, JsClaimed(i), c, JsLive(i), l)
    BY JsFollows
  <1>3. Follows(first, i, v, JsClaimed(i), c1, JsLive(i), l1)
    BY JsFollows
  <1>4. nest.status = 200 <=>
          first.status = 200 /\ CheckAdminScope(first.identity, i.route) = 0
    BY NestProcedure
  <1>5. i.reply.kind = "active" /\ sl = 0 =>
          Meets(Identity("any", i.reply.role,
                         GrantsOf(i.reply.siteAccess.entries)), i.route)
    BY LiveMeets
  <1>6. ASSUME i.write PROVE js.status = 200 => nest.status = 200
    <2>. HIDE DEF js, first, nest, v, c, l, c1, l1
    <2>1. ASSUME js.status = 200
          PROVE  first.status = 200 /\ first.identity = JsLive(i) /\ sl = 0
      <3>1. Through(v, c) /\ Granted(i, l)
        BY <1>2, <1>6, <2>1 DEF Follows
      <3>2. Through(v, c1) /\ Granted(i, l1) /\ sl = 0
        BY <1>1, <3>1 DEF Through, Granted
      <3>3. first.status = 200  BY <1>3, <3>2 DEF Follows
      <3>. QED  BY <1>3, <1>6, <3>2, <3>3 DEF Follows
    <2>. QED  BY <1>4, <2>1
  <1>7. ASSUME i.write, nest.status = 200
        PROVE  i.reply.kind = "active" /\ sl = 0
    <2>. HIDE DEF js, first, nest, v, c, l, c1, l1
    <2>1. first.status = 200 /\ CheckAdminScope(first.identity, i.route) = 0
      BY <1>4, <1>7
    <2>2. first.identity = JsLive(i) /\ i.reply.kind = "active"
      BY <1>3, <1>7, <2>1 DEF Follows, Granted
    <2>. QED  BY <2>1, <2>2
  <1>8. ASSUME ~i.write PROVE nest.status = js.status
    <2>1. /\ nest.status # first.status =>
               /\ nest.status = 403 /\ first.status = 200
               /\ CheckAdminScope(first.identity, i.route) # 0
      BY NestProcedure
    <2>2. /\ first = Procedure(i, v, JsClaimed(i), c1, JsLive(i), l1)
          /\ js = Procedure(i, v, JsClaimed(i), c, JsLive(i), l)
      BY JsProcedure
    <2>3. /\ c1 \in {0, 403} /\ c \in {0, 403}
          /\ c1 # 0 => c = c1
      BY DEF JsCheckAccess, CheckAdminScope
    <2>. HIDE DEF v, c, l, c1, l1, sc, sl, nest
    <2>4. CASE v # 0
      <3>1. js = first
        BY <2>2, <2>4 DEF Procedure, Ruling
      <3>2. first.status # 200
        BY <1>3, <2>4 DEF Follows, Through
      <3>. QED  BY <2>1, <3>1, <3>2
    <2>5. CASE v = 0 /\ c1 # 0
      <3>1. js = first
        BY <2>2, <2>3, <2>5 DEF Procedure, Ruling
      <3>2. first.status # 200
        BY <1>3, <2>5 DEF Follows, Through
      <3>. QED  BY <2>1, <3>1, <3>2
    <2>6. CASE v = 0 /\ c1 = 0 /\ c = 0
      <3>1. js = first
        BY <1>8, <2>2, <2>6 DEF Procedure, Ruling
      <3>2. first.identity = JsClaimed(i) /\ first.status = 200
        BY <1>3, <1>8, <2>6 DEF Follows, Through
      <3>. QED  BY <1>1, <2>1, <2>6, <3>1, <3>2 DEF sc
    <2>7. CASE v = 0 /\ c1 = 0 /\ c # 0
      <3>1. js.status = 403
        <4>. HIDE DEF js, first
        <4>1. c = 403  BY <2>3, <2>7
        <4>2. js = Refused(403, FALSE)  BY <2>2, <2>7, <4>1 DEF Procedure, Ruling
        <4>. QED  BY <4>2 DEF Refused
      <3>2. first.identity = JsClaimed(i) /\ first.status = 200
        BY <1>3, <1>8, <2>7 DEF Follows, Through
      <3>3. nest.status # 200
        BY <1>1, <1>4, <2>7, <3>2 DEF sc
      <3>. QED  BY <2>1, <3>1, <3>2, <3>3
    <2>. QED  BY <2>3, <2>4, <2>5, <2>6, <2>7
  <1>9. Accords(i, js, nest)
    <2>. HIDE DEF js, nest, sl
    <2>. QED  BY <1>5, <1>6, <1>7, <1>8 DEF Accords
  <1>. QED  BY <1>9 DEF JsAuthorize

(* 503 is the key set's or the verdict's failure, in each decision.        *)
CauseTold(d, i) ==
  d.status = 503 <=>
    \/ i.credential \in KeySetFaults
    \/ d.introspected /\ i.reply.kind = "failed"

LEMMA SameCause ==
  ASSUME NEW d, NEW e, NEW i, CauseTold(d, i),
         e.status = 503 <=> d.status = 503, e.introspected = d.introspected
  PROVE  CauseTold(e, i)
  <1>1. e.introspected <=> d.introspected  OBVIOUS
  <1>. QED  BY <1>1, ZenonT(60) DEF CauseTold

LEMMA FollowsTellsCause ==
  ASSUME NEW i, NEW d, NEW v, NEW a, NEW c, NEW b, NEW l,
         Follows(d, i, v, a, c, b, l),
         v = 503 <=> i.credential \in KeySetFaults
  PROVE  CauseTold(d, i)
  <1>1. CASE Through(v, c) /\ i.write
    <2>1. d.introspected = TRUE  BY <1>1 DEF Follows
    <2>2. d.status = 503 <=> \/ i.credential \in KeySetFaults
                             \/ i.reply.kind = "failed"
      BY <1>1 DEF Follows
    <2>. QED  BY <2>1, <2>2 DEF CauseTold
  <1>2. CASE ~(Through(v, c) /\ i.write)
    <2>1. d.introspected = FALSE  BY <1>2 DEF Follows
    <2>2. d.status = 503 <=> i.credential \in KeySetFaults
      BY <1>2 DEF Follows
    <2>. QED  BY <2>1, <2>2 DEF CauseTold
  <1>. QED  BY <1>1, <1>2

LEMMA CauseOf503 ==
  ASSUME NEW i \in Requests, Sound(i)
  PROVE  /\ CauseTold(RustAuthorize(i), i)
         /\ i.credential # "not-a-key-set" =>
              /\ CauseTold(VerifyAdminAuth(i, TRUE), i)
              /\ CauseTold(NestGuards(i), i)
  <1>0. i.credential \in Credentials  BY RequestShape
  <1>1. CauseTold(RustAuthorize(i), i)
    <2>1. VerifyToken(i.credential) = 503 <=> i.credential \in KeySetFaults
      BY <1>0, Verdicts
    <2>. QED  BY <2>1, RustFollows, FollowsTellsCause
  <1>. SUFFICES ASSUME i.credential # "not-a-key-set"
                PROVE  /\ CauseTold(VerifyAdminAuth(i, TRUE), i)
                       /\ CauseTold(NestGuards(i), i)
    BY <1>1
  <1>v. JwtVerify(i.credential) = 503 <=> i.credential \in KeySetFaults
    BY <1>0, Verdicts
  <1>s. ASSUME NEW scoped \in BOOLEAN
        PROVE  CauseTold(VerifyAdminAuth(i, scoped), i)
    <2>1. Follows(VerifyAdminAuth(i, scoped), i, JwtVerify(i.credential),
                  JsClaimed(i), JsCheckAccess(JsClaimed(i), i.route, scoped),
                  JsLive(i), JsCheckAccess(JsLive(i), i.route, scoped))
      BY JsFollows
    <2>. QED  BY <1>v, <2>1, FollowsTellsCause
  <1>2. CauseTold(VerifyAdminAuth(i, TRUE), i)  BY <1>s
  <1>3. CauseTold(VerifyAdminAuth(i, FALSE), i)  BY <1>s
  <1>4. CauseTold(NestGuards(i), i)
    <2>. DEFINE first == VerifyAdminAuth(i, FALSE)
                nest == NestGuards(i)
    <2>1. /\ nest.status # first.status =>
               /\ nest.status = 403 /\ first.status = 200
               /\ CheckAdminScope(first.identity, i.route) # 0
          /\ nest.introspected = first.introspected
      BY NestProcedure
    <2>2. CauseTold(first, i)  BY <1>3
    <2>. HIDE DEF first, nest
    <2>3. nest.status = 503 <=> first.status = 503  BY <2>1
    <2>4. nest.introspected = first.introspected  BY <2>1
    <2>5. CauseTold(nest, i)
      BY <2>2, <2>3, <2>4, SameCause
    <2>. QED  BY <2>5 DEF nest
  <1>. QED  BY <1>2, <1>4

----------------------------------------------------------------------------
(* The legacy shape of a grant. *)

LEMMA ModernGrants ==
  ASSUME NEW raw \in RawAccess
  PROVE  /\ NormalizeSiteAccess(Modern(raw)) = NormalizeSiteAccess(raw)
         /\ NormalizeAdminSiteAccess(Modern(raw)) = NormalizeAdminSiteAccess(raw)
  <1>. DEFINE m == Modern(raw)
              e == raw.entries
              f == [k \in DOMAIN e |-> ModernValue(e[k])]
  <1>1. raw \in [kind : {"scalar", "object", "array"},
                 entries : [Sites \union {Index} -> Values]]
    BY DEF RawAccess, Values
  <1>2. m.kind = raw.kind /\ m.entries = f
    BY <1>1 DEF Modern
  <1>3. DOMAIN f = DOMAIN e /\ e \in [Sites \union {Index} -> Values]
    BY <1>1
  <1>4. ASSUME NEW v \in Values
        PROVE  /\ ModernValue(v).kind \in {"array", "object"}
                    <=> v.kind \in {"array", "object"}
               /\ ModernValue(v).items = v.items
    BY DEF Values, ModernValue, Scalar, Absent
  <1>5. GrantsOf(f) = GrantsOf(e)
    <2>1. {k \in DOMAIN f : f[k].kind \in {"array", "object"}}
            = {k \in DOMAIN e : e[k].kind \in {"array", "object"}}
      BY <1>3, <1>4
    <2>2. \A k \in DOMAIN e : f[k].items = e[k].items
      BY <1>3, <1>4
    <2>. QED  BY <1>3, <2>1, <2>2 DEF GrantsOf, Restrict
  <1>. HIDE DEF m, f
  <1>. QED  BY <1>2, <1>5 DEF NormalizeSiteAccess, NormalizeAdminSiteAccess, m

LEMMA ModernFields ==
  ASSUME NEW i \in Requests
  PROVE  LET c == ModernAccess(i.claims)
             r == ModernAccess(i.reply)
         IN  /\ c.role = i.claims.role
             /\ c.siteAccess = Modern(i.claims.siteAccess)
             /\ r.kind = i.reply.kind /\ r.adminId = i.reply.adminId
             /\ r.role = i.reply.role
             /\ r.siteAccess = Modern(i.reply.siteAccess)
             /\ i.reply.siteAccess \in RawAccess
  <1>1. i.claims \in [role : Roles, siteAccess : RawAccess] /\ i.reply \in Replies
    BY DEF Requests, Claims
  <1>2. i.reply \in [kind : ReplyKinds,
                     adminId : {"token's", "another", "blank", "empty"},
                     role : Roles, siteAccess : RawAccess]
    <2>1. \A kind \in ReplyKinds :
            NoReply(kind) \in [kind : ReplyKinds,
                     adminId : {"token's", "another", "blank", "empty"},
                     role : Roles, siteAccess : RawAccess]
      BY DEF NoReply, Roles, RawAccess
    <2>. QED  BY <1>1, <2>1 DEF Replies, ReplyKinds
  <1>. QED  BY <1>1, <1>2 DEF ModernAccess

LEMMA ModernDecidesAlike ==
  ASSUME NEW i \in Requests
  PROVE  LET m == Input(i.credential, i.write, ModernAccess(i.claims),
                        ModernAccess(i.reply), i.route)
         IN  /\ RustAuthorize(m) = RustAuthorize(i)
             /\ VerifyAdminAuth(m, TRUE) = VerifyAdminAuth(i, TRUE)
  <1>. DEFINE c == ModernAccess(i.claims)
              r == ModernAccess(i.reply)
              m == Input(i.credential, i.write, c, r, i.route)
  <1>1. /\ c.role = i.claims.role
        /\ c.siteAccess = Modern(i.claims.siteAccess)
        /\ r.kind = i.reply.kind /\ r.adminId = i.reply.adminId
        /\ r.role = i.reply.role
        /\ r.siteAccess = Modern(i.reply.siteAccess)
        /\ i.reply.siteAccess \in RawAccess
    BY ModernFields
  <1>. HIDE DEF c, r
  <1>2. /\ NormalizeSiteAccess(c.siteAccess)
             = NormalizeSiteAccess(i.claims.siteAccess)
        /\ NormalizeAdminSiteAccess(c.siteAccess)
             = NormalizeAdminSiteAccess(i.claims.siteAccess)
        /\ NormalizeSiteAccess(r.siteAccess)
             = NormalizeSiteAccess(i.reply.siteAccess)
        /\ NormalizeAdminSiteAccess(r.siteAccess)
             = NormalizeAdminSiteAccess(i.reply.siteAccess)
    BY <1>1, RequestShape, ModernGrants
  <1>3. /\ m.credential = i.credential /\ m.write = i.write /\ m.claims = c
        /\ m.reply = r /\ m.route = i.route
    BY DEF Input
  <1>. HIDE DEF m
  <1>4. AuthorizeWrite(r, i.route) = AuthorizeWrite(i.reply, i.route)
    <2>1. /\ NoVerdict(r) <=> NoVerdict(i.reply)
          /\ IsActive(r) <=> IsActive(i.reply)
      BY <1>1 DEF NoVerdict, IsActive
    <2>. DEFINE live(x) ==
           Identity(x.adminId, x.role, NormalizeSiteAccess(x.siteAccess))
    <2>2. live(r) = live(i.reply)  BY <1>1, <1>2
    <2>3. ASSUME NEW x
          PROVE  AuthorizeWrite(x, i.route) =
                   IF NoVerdict(x) THEN Refused(503, TRUE)
                   ELSE IF ~IsActive(x) THEN Refused(401, TRUE)
                   ELSE IF CheckAccess(live(x), i.route) = 0
                   THEN Authorized(live(x), TRUE)
                   ELSE Refused(CheckAccess(live(x), i.route), TRUE)
      BY DEF AuthorizeWrite
    <2>. HIDE DEF live
    <2>4. CASE NoVerdict(r)
      <3>1. AuthorizeWrite(r, i.route) = Refused(503, TRUE)
        BY <2>3, <2>4
      <3>2. AuthorizeWrite(i.reply, i.route) = Refused(503, TRUE)
        BY <2>1, <2>3, <2>4, ZenonT(60)
      <3>. QED  BY <3>1, <3>2
    <2>5. CASE ~NoVerdict(r) /\ ~IsActive(r)
      <3>1. AuthorizeWrite(r, i.route) = Refused(401, TRUE)
        BY <2>3, <2>5
      <3>2. AuthorizeWrite(i.reply, i.route) = Refused(401, TRUE)
        BY <2>1, <2>3, <2>5
      <3>. QED  BY <3>1, <3>2
    <2>6. CASE ~NoVerdict(r) /\ IsActive(r)
      <3>. DEFINE Ruled(l) == IF CheckAccess(l, i.route) = 0
                              THEN Authorized(l, TRUE)
                              ELSE Refused(CheckAccess(l, i.route), TRUE)
      <3>1. AuthorizeWrite(r, i.route) = Ruled(live(r))
        BY <2>3, <2>6
      <3>2. AuthorizeWrite(i.reply, i.route) = Ruled(live(i.reply))
        BY <2>1, <2>3, <2>6
      <3>. QED  BY <2>2, <3>1, <3>2
    <2>. QED  BY <2>4, <2>5, <2>6
  <1>5. JsWrite(r, i.route, TRUE) = JsWrite(i.reply, i.route, TRUE)
    <2>1. JsVerdictFailure(r) = JsVerdictFailure(i.reply)
      BY <1>1 DEF JsVerdictFailure
    <2>. QED  BY <1>1, <1>2, <2>1 DEF JsWrite
  <1>6. RustAuthorize(m) = RustAuthorize(i)
    BY <1>1, <1>2, <1>3, <1>4 DEF RustAuthorize
  <1>7. VerifyAdminAuth(m, TRUE) = VerifyAdminAuth(i, TRUE)
    BY <1>1, <1>2, <1>3, <1>5 DEF VerifyAdminAuth
  <1>. QED  BY <1>6, <1>7 DEF m, c, r

----------------------------------------------------------------------------
(* The decisions are those of the request, and the request stands. *)

Decisions(i) ==
  [rust |-> RustAuthorize(i), js |-> JsAuthorize(i), nest |-> NestGuards(i)]

Inv ==
  /\ input \in Requests
  /\ Decided => outcome = Decisions(input)

LEMMA SpecInv == DecisionSpec => []Inv
  <1>1. DecisionInit => Inv
    <2>. SUFFICES ASSUME DecisionInit PROVE Inv  OBVIOUS
    <2>1. ~Decided  BY DEF DecisionInit, Decided
    <2>2. PICK claims \in Claims, credential \in Credentials, write \in BOOLEAN,
               reply \in Replies, route \in Routes :
            input = Input(credential, write, claims, reply, route)
      BY DEF DecisionInit
    <2>3. input \in Requests  BY <2>2 DEF Input, Requests
    <2>. QED  BY <2>1, <2>3 DEF Inv
  <1>2. Inv /\ [Decide]_decisionVars => Inv'
    <2>. SUFFICES ASSUME Inv, [Decide]_decisionVars PROVE Inv'  OBVIOUS
    <2>1. CASE Decide
      BY <2>1 DEF Inv, Decide, Decisions, JsAuthorize
    <2>2. CASE UNCHANGED decisionVars
      BY <2>2 DEF Inv, decisionVars, Decided
    <2>. QED  BY <2>1, <2>2
  <1>. QED  BY <1>1, <1>2, PTL DEF DecisionSpec

LEMMA DecidedAre ==
  ASSUME Inv, Decided
  PROVE  /\ input \in Requests
         /\ outcome.rust = RustAuthorize(input)
         /\ outcome.js = JsAuthorize(input)
         /\ outcome.js = VerifyAdminAuth(input, TRUE)
         /\ outcome.nest = NestGuards(input)
         /\ WellFormed => Sound(input)
  <1>1. /\ input \in Requests
        /\ outcome.rust = RustAuthorize(input)
        /\ outcome.js = JsAuthorize(input)
        /\ outcome.nest = NestGuards(input)
    BY DEF Inv, Decisions
  <1>. QED  BY <1>1 DEF JsAuthorize, WellFormed, Sound

(* The Rust guard and the npm core, each verifying the token its own way,  *)
(* decide every request alike whose reply the contract allows, for any     *)
(* sites and features (contract/README.md), but for a token signed with the*)
(* last of two keys of one kid, which the contract knows of, and a key set *)
(* that is none.                                                           *)
THEOREM TwoCoresOneDecision == DecisionSpec => []CoresAgree
  <1>1. Inv => CoresAgree
    <2>. SUFFICES ASSUME Inv, Decided, WellFormed, input.route \in RustRoutes,
                         input.credential \notin Disputed
                  PROVE  /\ outcome.rust.status = outcome.js.status
                         /\ outcome.rust.introspected = outcome.js.introspected
                         /\ outcome.rust.status = 200 =>
                              \A s \in Sites, f \in Features :
                                HasFeature(outcome.rust.identity, s, f)
                                  = HasFeature(outcome.js.identity, s, f)
      BY DEF CoresAgree, Comparable
    <2>1. /\ input \in Requests /\ Sound(input)
          /\ outcome.rust = RustAuthorize(input)
          /\ outcome.js = VerifyAdminAuth(input, TRUE)
      BY DecidedAre
    <2>. DEFINE rust == RustAuthorize(input)
                js == VerifyAdminAuth(input, TRUE)
    <2>2. /\ rust.status = js.status
          /\ rust.introspected = js.introspected
          /\ rust.status = 200 =>
               \A s \in Sites, f \in Features :
                 HasFeature(rust.identity, s, f) <=> HasFeature(js.identity, s, f)
      BY <2>1, CoresDecideAlike
    <2>. HIDE DEF rust, js
    <2>4. outcome.rust = rust /\ outcome.js = js  BY <2>1 DEF rust, js
    <2>3. ASSUME NEW s, NEW f, NEW a, NEW b,
                 HasFeature(a, s, f) <=> HasFeature(b, s, f)
          PROVE  HasFeature(a, s, f) = HasFeature(b, s, f)
      BY <2>3 DEF HasFeature
    <2>. QED  BY <2>2, <2>3, <2>4
  <1>. QED  BY <1>1, SpecInv, PTL

(* The NestJS guards come to the npm core's decision on reads, and on      *)
(* writes let in only what it, or the live verdict, grants                 *)
(* (nest/admin-auth.guard.ts:12-25).                                       *)
THEOREM TwoGuardsOneDecision == DecisionSpec => []NestAgrees
  <1>1. Inv => NestAgrees
    <2>. SUFFICES ASSUME Inv, Decided, WellFormed PROVE NestAgrees
      BY DEF NestAgrees
    <2>1. /\ input \in Requests /\ Sound(input)
          /\ outcome.js = JsAuthorize(input)
          /\ outcome.nest = NestGuards(input)
      BY DecidedAre
    <2>2. Accords(input, outcome.js, outcome.nest)
      BY <2>1, NestDecidesAlike
    <2>. QED  BY <2>2 DEF NestAgrees, Accords
  <1>. QED  BY <1>1, SpecInv, PTL

(* 503 tells of the key set or of a verdict that did not come, and of      *)
(* nothing else (rule 5): in Rust whatever is wrong with the key set, in   *)
(* the npm core and its NestJS guards unless it is JSON of another shape.  *)
THEOREM OutageIsSaid == DecisionSpec => []StatusTellsCause
  <1>1. Inv => StatusTellsCause
    <2>. SUFFICES ASSUME Inv, Decided, WellFormed
                  PROVE  /\ CauseTold(outcome.rust, input)
                         /\ input.credential # "not-a-key-set" =>
                              /\ CauseTold(outcome.js, input)
                              /\ CauseTold(outcome.nest, input)
      BY DEF StatusTellsCause, TellsCause, CauseTold
    <2>1. /\ input \in Requests /\ Sound(input)
          /\ outcome.rust = RustAuthorize(input)
          /\ outcome.js = VerifyAdminAuth(input, TRUE)
          /\ outcome.nest = NestGuards(input)
      BY DecidedAre
    <2>. QED  BY <2>1, CauseOf503
  <1>. QED  BY <1>1, SpecInv, PTL

(* A legacy claim decides as the same claim in the current shape, in both  *)
(* packages (contract/README.md, Shape normalisation).                     *)
THEOREM ShapeIsNoMatter == DecisionSpec => []LegacyShapeDecidesAlike
  <1>1. Inv => LegacyShapeDecidesAlike
    <2>. SUFFICES ASSUME Inv, Decided
                  PROVE  /\ outcome.rust = RustAuthorize(ModernInput)
                         /\ outcome.js = VerifyAdminAuth(ModernInput, TRUE)
      BY DEF LegacyShapeDecidesAlike
    <2>1. /\ input \in Requests
          /\ outcome.rust = RustAuthorize(input)
          /\ outcome.js = VerifyAdminAuth(input, TRUE)
      BY DecidedAre
    <2>. QED  BY <2>1, ModernDecidesAlike DEF ModernInput
  <1>. QED  BY <1>1, SpecInv, PTL

----------------------------------------------------------------------------
(* The package's circuit breaker. *)

(* Its state is well formed, its gate is closed exactly while the run of   *)
(* failures is short of the threshold, and a half-open one has let out a   *)
(* call that will decide it, whenever the calls that left earlier report   *)
(* (circuit-breaker.ts:33-36, 52-62).                                      *)
THEOREM NoBreakerLatches == FairSpec => []Consistent
  <1>. USE JsBreakerAssumption
       DEF JsBreakerAssumption, Consistent, TypeOK, GateMatchesRun,
           HalfOpenHasTrial
  <1>1. Init => Consistent
    BY DEF Init, Calls
  <1>2. ASSUME Consistent, [Next]_vars PROVE Consistent'
    <2>1. ASSUME NEW c \in Callers, CanAttempt(c)
          PROVE  Consistent'
      <3>1. /\ call' \in [Callers -> Calls]
            /\ state # "closed" => call'[c] = "trial"
        BY <1>2, <2>1 DEF CanAttempt, Calls
      <3>. QED  BY <1>2, <2>1, <3>1 DEF CanAttempt
    <2>2. ASSUME NEW c \in Callers, RecordSuccess(c)
          PROVE  Consistent'
      <3>1. call' \in [Callers -> Calls]
        BY <2>2 DEF RecordSuccess, Report, Calls
      <3>. QED  BY <1>2, <2>2, <3>1 DEF RecordSuccess
    <2>3. ASSUME NEW c \in Callers, RecordFailure(c)
          PROVE  Consistent'
      <3>1. call' \in [Callers -> Calls]
        BY <2>3 DEF RecordFailure, Report, Calls
      <3>2. CASE Trips
        BY <1>2, <2>3, <3>1, <3>2 DEF RecordFailure, Trips, Counted
      <3>3. CASE ~Trips
        BY <1>2, <2>3, <3>1, <3>3 DEF RecordFailure, Trips, Counted
      <3>. QED  BY <3>2, <3>3
    <2>4. CASE Tick  BY <1>2, <2>4 DEF Tick
    <2>5. CASE IdpChanges  BY <1>2, <2>5 DEF IdpChanges
    <2>6. CASE UNCHANGED vars  BY <1>2, <2>6 DEF vars
    <2>. QED  BY <1>2, <2>1, <2>2, <2>3, <2>4, <2>5, <2>6 DEF Next
  <1>. QED  BY <1>1, <1>2, PTL DEF FairSpec, Spec
=============================================================================
