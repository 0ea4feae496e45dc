---------------------------- MODULE TemplateConfig --------------------------
(***************************************************************************)
(* The template service's configuration (template/src/config.rs) and the   *)
(* guard it builds from it (template/src/inbound/mod.rs, rust/src/guard.rs)*)
(* as functions of the environment, which maps each variable to a value    *)
(* that stands for a class of strings.                                     *)
(***************************************************************************)
EXTENDS Sequences

Unset == "unset"  \* missing, or nothing but white space

(* Values[key]: the classes load and validate tell apart.  A URL is named  *)
(* by its scheme and host, a path by the way it begins.                    *)
Values ==
  [APP_ENV |-> {Unset, "local", "uat", "prod", "test"},
   ADMIN_IDP_BASE_URL |-> {Unset, "https://idp", "https://idp/", "http://idp"},
   ADMIN_JWT_ISSUER |-> {Unset, "issuer"},
   ADMIN_JWKS_URL |-> {Unset, "https://keys", "http://keys"},
   ADMIN_INTROSPECT_PATH |-> {Unset, "/path", "path", "https://keys"},
   ADMIN_INTROSPECT_API_KEY |-> {Unset, "short", "long"},
   CORS_ALLOWED_ORIGINS |-> {Unset, "origins", "*", ","},
   BASE_PATH |-> {Unset, "/", "/shop", "/shop/", "shop"},
   PORT |-> {Unset, "number", "garbage"},
   DATABASE_URL |-> {Unset, "postgres", "garbage"},
   DATABASE_MAX_CONNECTIONS |-> {Unset, "number", "garbage"}]

Missing(env) ==
  \E k \in {"APP_ENV", "ADMIN_IDP_BASE_URL", "ADMIN_JWT_ISSUER",
            "ADMIN_INTROSPECT_API_KEY", "DATABASE_URL"} : env[k] = Unset

(* parse_or, and the lazy connection's own parse of its URL. *)
Unparseable(env) ==
  \/ env.APP_ENV = "test"
  \/ \E k \in {"PORT", "DATABASE_URL", "DATABASE_MAX_CONNECTIONS"} :
       env[k] = "garbage"

AppEnv(raw) ==
  CASE raw = "local" -> "development"
    [] raw = "uat" -> "staging"
    [] OTHER -> "production"

IsDev(app_env) == app_env = "development"

TrimEnd(raw) ==
  CASE raw = "https://idp/" -> "https://idp"
    [] raw = "/shop/"       -> "/shop"
    [] raw = "/"            -> ""
    [] OTHER                -> raw

(* The pieces of a URL's text: scheme and host, then what is joined to it. *)
Pieces(path) == IF path = "/path" THEN <<"/", "path">> ELSE <<path>>

JoinUrl_Glued(base, path) == <<base>> \o Pieces(path)

JoinUrl(base, path) ==
  IF Head(Pieces(path)) = "/"
  THEN <<base>> \o Pieces(path)
  ELSE <<base, "/">> \o Pieces(path)

(* Where a request to the URL goes: a host's name ends at a slash. *)
Host(url) == IF url[2] = "/" THEN url[1] ELSE "no such host"

Or(value, default) == IF value = Unset THEN default ELSE value

(* A list of nothing but separators is empty. *)
CsvList(raw) == IF raw \in {Unset, ","} THEN "none" ELSE raw

Resolved(env) ==
  [ok |-> TRUE,
   app_env |-> AppEnv(env.APP_ENV),
   base_path |-> TrimEnd(Or(env.BASE_PATH, "")),
   issuer |-> env.ADMIN_JWT_ISSUER,
   base_url |-> TrimEnd(env.ADMIN_IDP_BASE_URL),
   jwks_url |-> Or(env.ADMIN_JWKS_URL, TrimEnd(env.ADMIN_IDP_BASE_URL)),
   introspect_url |-> JoinUrl(TrimEnd(env.ADMIN_IDP_BASE_URL),
                              Or(env.ADMIN_INTROSPECT_PATH, "/path")),
   introspect_api_key |-> env.ADMIN_INTROSPECT_API_KEY,
   cors |-> CsvList(env.CORS_ALLOWED_ORIGINS)]

Https(url) == url \in {"https://idp", "https://keys"}

(* starts_with("https://"), of the resolved URLs. *)
Guarded(config) ==
  /\ Https(config.jwks_url)
  /\ Https(Head(config.introspect_url))
  /\ config.cors # "none"
  /\ config.introspect_api_key = "long"

Validate_ProductionOnly(config) ==
  /\ config.base_path # "shop"
  /\ config.cors # "*"
  /\ config.app_env = "production" => Guarded(config)

Validate(config) ==
  /\ config.base_path # "shop"
  /\ config.cors # "*"
  /\ ~IsDev(config.app_env) => Guarded(config)

(* Every error of load is the same exit. *)
Refused == [ok |-> FALSE]

Load(env) ==
  IF ~Missing(env) /\ ~Unparseable(env) /\ Validate(Resolved(env))
  THEN Resolved(env) ELSE Refused

(* AppState::new hands the resolved values to the guard, which checks them *)
(* on every request before anything else.                                  *)
GuardConfig(config) ==
  [issuer |-> config.issuer, jwks_url |-> config.jwks_url,
   introspect_url |-> config.introspect_url,
   introspect_api_key |-> config.introspect_api_key]

IsConfigured(guard) ==
  /\ guard.issuer # Unset
  /\ guard.jwks_url # Unset
  /\ guard.introspect_url # << >>
  /\ guard.introspect_api_key # Unset

(* The health routes stay at the root. *)
Routes(config) ==
  {<<"", "healthz">>, <<"", "readyz">>}
    \union {<<config.base_path, r>> : r \in {"example", "admin/example"}}
=============================================================================
