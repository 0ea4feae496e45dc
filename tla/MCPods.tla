-------------------------------- MODULE MCPods ------------------------------
EXTENDS Pods

Sound ==
  [k \in DOMAIN Values |->
     CASE k = "APP_ENV" -> "uat"
       [] k = "ADMIN_IDP_BASE_URL" -> "https://idp"
       [] k = "ADMIN_JWT_ISSUER" -> "issuer"
       [] k = "ADMIN_INTROSPECT_API_KEY" -> "long"
       [] k = "CORS_ALLOWED_ORIGINS" -> "origins"
       [] k = "DATABASE_URL" -> "postgres"
       [] OTHER -> Unset]

(* A sound environment, of a service exposed or on a laptop, with one      *)
(* variable set otherwise.                                                 *)
With(env, k) == {[env EXCEPT ![k] = v] : v \in Values[k]}

MCEnvs ==
  UNION {With(Sound, k) \union With([Sound EXCEPT !.APP_ENV = "local"], k) :
           k \in DOMAIN Values}
=============================================================================
