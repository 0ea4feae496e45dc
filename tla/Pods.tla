-------------------------------- MODULE Pods --------------------------------
(***************************************************************************)
(* The life of the template service's processes (template/src/main.rs,     *)
(* adapters/postgres.rs, infrastructure/server.rs, inbound/health.rs): the *)
(* pods of one deployment boot, migrate the database they share, serve,    *)
(* drain and crash while releases roll out and the database goes down.     *)
(*                                                                         *)
(* Version v of the binary carries the migrations 1..v.                    *)
(***************************************************************************)
EXTENDS Naturals, TemplateConfig

CONSTANTS
  Pod,
  NoPod,
  Envs,            \* the environments a deployment may give its pods
  Versions,
  MaxConnections,  \* DATABASE_MAX_CONNECTIONS
  MaxLoad,         \* bound of the model: requests in the hands of one pod
  MaxReleases,     \* bound of the model: releases and rollbacks
  MaxKills         \* bound of the model: crashes, kills, lost nodes

ASSUME VersionsAssumption == Versions \subseteq Nat \ {0} /\ 1 \in Versions
ASSUME EnvsAssumption ==
  \A env \in Envs :
    /\ DOMAIN env = DOMAIN Values
    /\ \A k \in DOMAIN Values : env[k] \in Values[k]
ASSUME NoPodAssumption == NoPod \notin Pod
ASSUME BoundsAssumption ==
  /\ MaxConnections \in Nat \ {0}
  /\ MaxLoad \in Nat /\ MaxReleases \in Nat /\ MaxKills \in Nat

VARIABLES
  config,            \* what Config::load makes of the environment
  desired, releases, \* the version to run, and the changes of it so far
  pod,               \* pod[p]: the process in slot p
  schema,            \* the last migration applied
  lock,              \* holder of the migrator's advisory lock
  db,                \* whether the database can be reached
  kills

deployment == <<config, desired, releases>>
database == <<schema, lock, db>>
vars == <<deployment, pod, database, kills>>

Phases == {"off", "booting", "migrating", "serving", "draining"}

(* ready: the load balancer's view; live: a liveness probe has succeeded. *)
Off ==
  [phase |-> "off", version |-> 1, load |-> 0, ready |-> FALSE, live |-> FALSE]

Init ==
  /\ \E env \in Envs : config = Load(env)
  /\ desired = 1 /\ releases = 0
  /\ pod = [p \in Pod |-> Off]
  /\ schema = 0 /\ lock = NoPod /\ db \in BOOLEAN
  /\ kills = 0

In(p, phase) == pod[p].phase = phase

Enter(p, phase) == pod' = [pod EXCEPT ![p] = [@ EXCEPT !.phase = phase]]

(* The process ends; the database drops the lock of its session. *)
Exit(p) ==
  /\ pod' = [pod EXCEPT ![p] = Off]
  /\ lock' = IF lock = p THEN NoPod ELSE lock
  /\ UNCHANGED <<schema, db>>

----------------------------------------------------------------------------
(* main: load the configuration, connect lazily, migrate, bind, serve. *)
Start(p) ==
  /\ In(p, "off")
  /\ pod' = [pod EXCEPT ![p] =
               [[Off EXCEPT !.phase = "booting"] EXCEPT !.version = desired]]
  /\ UNCHANGED <<deployment, database, kills>>

ConfigRefused(p) ==
  /\ In(p, "booting")
  /\ ~config.ok
  /\ Exit(p)
  /\ UNCHANGED <<deployment, kills>>

TakeMigrationLock(p) ==
  /\ In(p, "booting")
  /\ config.ok
  /\ db
  /\ lock = NoPod
  /\ lock' = p
  /\ Enter(p, "migrating")
  /\ UNCHANGED <<deployment, schema, db, kills>>

(* Each migration is a transaction of its own. *)
ApplyMigration(p) ==
  /\ In(p, "migrating")
  /\ db
  /\ schema < pod[p].version
  /\ schema' = schema + 1
  /\ UNCHANGED <<deployment, pod, lock, db, kills>>

(* The database is down, or has a migration the binary does not carry. *)
MigrateFails(p) ==
  /\ config.ok
  /\ \/ In(p, "booting") /\ ~db
     \/ In(p, "migrating") /\ (~db \/ schema > pod[p].version)
  /\ Exit(p)
  /\ UNCHANGED <<deployment, kills>>

Serve(p) ==
  /\ In(p, "migrating")
  /\ db
  /\ schema = pod[p].version
  /\ lock' = NoPod
  /\ Enter(p, "serving")
  /\ UNCHANGED <<deployment, schema, db, kills>>

----------------------------------------------------------------------------
(* The server takes every request; those beyond the pool's connections     *)
(* wait for one, and after ten seconds are answered without.               *)
Accept(p) ==
  /\ In(p, "serving")
  /\ pod[p].ready
  /\ pod[p].load < MaxLoad
  /\ pod' = [pod EXCEPT ![p].load = @ + 1]
  /\ UNCHANGED <<deployment, database, kills>>

Answer(p) ==
  /\ pod[p].load > 0
  /\ pod' = [pod EXCEPT ![p].load = @ - 1]
  /\ UNCHANGED <<deployment, database, kills>>

(* SELECT 1 waits for a connection with every other request. *)
Readyz(p) ==
  IF ~db THEN {FALSE}
  ELSE IF pod[p].load < MaxConnections THEN {TRUE} ELSE BOOLEAN

(* A probe of a process that no longer listens is refused. *)
ProbeReadiness(p) ==
  /\ \E ready \in IF In(p, "serving") THEN Readyz(p) ELSE {FALSE} :
       /\ ready # pod[p].ready
       /\ pod' = [pod EXCEPT ![p] = [@ EXCEPT !.ready = ready]]
  /\ UNCHANGED <<deployment, database, kills>>

Healthz_Pings(p) == db

Healthz(p) == <<"", "healthz">> \in Routes(config)

(* The kubelet kills what fails its liveness probe. *)
ProbeLiveness(p) ==
  /\ In(p, "serving")
  /\ Healthz(p) => ~pod[p].live
  /\ pod' = [pod EXCEPT ![p] =
               IF Healthz(p) THEN [@ EXCEPT !.live = TRUE] ELSE Off]
  /\ UNCHANGED <<deployment, database, kills>>

(* SIGTERM to a pod of another version.  The handler is there once the pod *)
(* serves; before, the default one ends it.                                *)
Terminate_Ignored(p) ==
  /\ pod[p].phase \in {"booting", "migrating"}
  /\ pod[p].version # desired
  /\ Exit(p)
  /\ UNCHANGED <<deployment, kills>>

Terminate(p) ==
  /\ pod[p].version # desired
  /\ \/ /\ In(p, "serving")
        /\ Enter(p, "draining")
        /\ UNCHANGED database
     \/ /\ pod[p].phase \in {"booting", "migrating"}
        /\ Exit(p)
  /\ UNCHANGED <<deployment, kills>>

Drained(p) ==
  /\ In(p, "draining")
  /\ pod[p].load = 0
  /\ Exit(p)
  /\ UNCHANGED <<deployment, kills>>

(* A crash, a kill or a lost node, and what main exits for besides: an     *)
(* address it cannot bind, a server that fails.                            *)
Kill(p) ==
  /\ ~In(p, "off")
  /\ kills < MaxKills
  /\ kills' = kills + 1
  /\ Exit(p)
  /\ UNCHANGED deployment

----------------------------------------------------------------------------
(* A release, or a rollback. *)
Release ==
  /\ releases < MaxReleases
  /\ desired' \in Versions \ {desired}
  /\ releases' = releases + 1
  /\ UNCHANGED <<config, pod, database, kills>>

DbChanges ==
  /\ db' = ~db
  /\ UNCHANGED <<deployment, pod, schema, lock, kills>>

Next ==
  \/ \E p \in Pod :
       \/ Start(p)
       \/ ConfigRefused(p)
       \/ TakeMigrationLock(p)
       \/ ApplyMigration(p)
       \/ MigrateFails(p)
       \/ Serve(p)
       \/ Accept(p)
       \/ Answer(p)
       \/ ProbeReadiness(p)
       \/ ProbeLiveness(p)
       \/ Terminate(p)
       \/ Drained(p)
       \/ Kill(p)
  \/ Release
  \/ DbChanges

Spec == Init /\ [][Next]_vars

(* The kubelet restarts what has ended and the rollout replaces what is of *)
(* another version; a process that can go on does, requests end, and those *)
(* who wait for the advisory lock get it in turn.                          *)
Fairness ==
  \A p \in Pod :
    /\ WF_vars(Start(p))
    /\ SF_vars(TakeMigrationLock(p))
    /\ WF_vars(ApplyMigration(p))
    /\ WF_vars(MigrateFails(p))
    /\ WF_vars(Serve(p))
    /\ WF_vars(Answer(p))
    /\ WF_vars(Terminate(p))
    /\ WF_vars(Drained(p))

LiveSpec == Spec /\ Fairness

----------------------------------------------------------------------------
Configs == {Load(env) : env \in Envs}

TypeOK ==
  /\ config \in Configs
  /\ desired \in Versions
  /\ releases \in 0..MaxReleases
  /\ pod \in [Pod -> [phase : Phases, version : Versions,
                      load : 0..MaxLoad, ready : BOOLEAN,
                      live : BOOLEAN]]
  /\ \E v \in Versions : schema \in 0..v
  /\ lock \in Pod \union {NoPod}
  /\ db \in BOOLEAN
  /\ kills \in 0..MaxKills

Serving(p) == pod[p].phase \in {"serving", "draining"}

(* A process that serves has every table its code was built against        *)
(* (main.rs:34-57), its guard has all it needs to reach a verdict (rule 8),*)
(* and outside development its keys, its verdicts and its credential travel*)
(* over https, the credential to the IdP's own host and no other           *)
(* (config.rs:27-45, 224-269).                                             *)
ServesWhenSound ==
  \A p \in Pod : Serving(p) =>
    /\ pod[p].version <= schema
    /\ IsConfigured(GuardConfig(config))
    /\ Host(config.introspect_url) = config.base_url
    /\ ~IsDev(config.app_env) =>
         /\ Https(config.jwks_url)
         /\ Https(Host(config.introspect_url))
         /\ config.introspect_api_key = "long"

(* "an upstream blip must not restart a perfectly healthy process"         *)
(* (health.rs:21-22), and a drain must "let in-flight requests finish"     *)
(* (server.rs:13-14): whatever the database does, wherever the routes are  *)
(* mounted and however a release overtakes another, a process that serves  *)
(* ends, unless killed, only after its SIGTERM and its last request.       *)
ServingEndsDrained ==
  [][ \A p \in Pod :
        Serving(p) /\ In(p, "off")' /\ kills' = kills
          => In(p, "draining") /\ pod[p].load = 0 ]_vars

(* "a database blip during a rollout does not turn into a crash loop"      *)
(* (postgres.rs:16-18): once the database is back for good, every pod comes*)
(* to serve the desired version and stays, unless it was rolled back behind*)
(* the schema.                                                             *)
SchemaCarried == schema <= desired

Recovers ==
  config.ok /\ <>[](db /\ SchemaCarried)
    => <>[](\A p \in Pod : In(p, "serving") /\ pod[p].version = desired)

(* "No service migrates its own database at startup": the schema does not  *)
(* change while a pod of an older version serves against it                *)
(* (contract/PLATFORM.md:770-779).                                         *)
SchemaStillWhileServed ==
  [][ schema' # schema
        => \A p \in Pod : Serving(p) => pod[p].version >= schema' ]_vars
=============================================================================
