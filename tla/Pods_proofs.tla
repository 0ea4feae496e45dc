----------------------------- MODULE Pods_proofs ----------------------------
(***************************************************************************)
(* What a process of the template service may rely on while it serves, for *)
(* any number of pods, any versions and any environments.                  *)
(***************************************************************************)
EXTENDS Pods, TLAPS

PodStates ==
  [phase : Phases, version : Versions, load : 0..MaxLoad,
   ready : BOOLEAN, live : BOOLEAN]

(* The migrator's advisory lock is held by the one pod that migrates. *)
LockFits ==
  /\ \A p \in Pod : In(p, "migrating") => lock = p
  /\ lock \in Pod => In(lock, "migrating")

(* Past boot the configuration was accepted, and past the migrations the   *)
(* schema has all that the binary carries.                                 *)
PastBoot(p) == pod[p].phase \in {"migrating", "serving", "draining"}

PodFits(p) ==
  /\ PastBoot(p) => config.ok
  /\ Serving(p) => pod[p].version <= schema

Inv == TypeOK /\ LockFits /\ \A p \in Pod : PodFits(p)

----------------------------------------------------------------------------
(* The configuration. *)

(* What load accepts holds all the guard needs, and outside development is *)
(* guarded: whatever the environment, no field is filled in by default     *)
(* after validate has looked at it.                                        *)
Accepted(loaded) ==
  /\ IsConfigured(GuardConfig(loaded))
  /\ Host(loaded.introspect_url) = loaded.base_url
  /\ ~IsDev(loaded.app_env) =>
       /\ Https(loaded.jwks_url)
       /\ Https(Host(loaded.introspect_url))
       /\ loaded.introspect_api_key = "long"

(* However the path begins, what is joined starts with the base and a      *)
(* slash: it names the base's host.                                        *)
LEMMA JoinedAtBase ==
  ASSUME NEW base, NEW path
  PROVE  LET url == JoinUrl(base, path)
         IN  /\ Head(url) = base /\ Host(url) = base
             /\ url # << >>
  <1>. DEFINE S == {base, path, "/", "path"}
              pieces == Pieces(path)
              url == JoinUrl(base, path)
  <1>1. pieces \in Seq(S) /\ Len(pieces) > 0 /\ Head(pieces) = pieces[1]
    <2>1. CASE path = "/path"
      <3>1. pieces = <<"/", "path">>  BY <2>1 DEF Pieces
      <3>2. "/" \in S /\ "path" \in S  BY <2>1
      <3>. HIDE DEF S, pieces
      <3>. QED  BY <3>1, <3>2
    <2>2. CASE path # "/path"
      <3>1. pieces = <<path>>  BY <2>2 DEF Pieces
      <3>2. path \in S  OBVIOUS
      <3>. HIDE DEF S, pieces
      <3>. QED  BY <3>1, <3>2
    <2>. QED  BY <2>1, <2>2
  <1>2. base \in S /\ "/" \in S  OBVIOUS
  <1>3. url = IF pieces[1] = "/" THEN <<base>> \o pieces
              ELSE <<base, "/">> \o pieces
    BY <1>1 DEF JoinUrl
  <1>. HIDE DEF S, pieces, url
  <1>4. url \in Seq(S) /\ Len(url) > 0 /\ url[1] = base /\ url[2] = "/"
    <2>1. CASE pieces[1] = "/"
      <3>1. url = <<base>> \o pieces  BY <1>3, <2>1
      <3>. QED  BY <1>1, <1>2, <2>1, <3>1
    <2>2. CASE pieces[1] # "/"
      <3>1. url = <<base, "/">> \o pieces  BY <1>3, <2>2
      <3>. QED  BY <1>1, <1>2, <3>1
    <2>. QED  BY <2>1, <2>2
  <1>5. Head(url) = base /\ url # << >>  BY <1>4
  <1>6. Host(url) = base  BY <1>4 DEF Host
  <1>. QED  BY <1>5, <1>6 DEF url

LEMMA LoadAccepts ==
  ASSUME NEW env, Load(env).ok
  PROVE  Accepted(Load(env))
  <1>1. /\ ~Missing(env)
        /\ Validate(Resolved(env))
        /\ Load(env) = Resolved(env)
    BY DEF Load, Refused
  <1>. DEFINE loaded == Resolved(env)
  <1>2. /\ loaded.issuer # Unset
        /\ loaded.jwks_url # Unset
        /\ loaded.introspect_api_key # Unset
    BY <1>1 DEF Missing, Resolved, Or, TrimEnd, Unset
  <1>j. /\ loaded.introspect_url # << >>
        /\ Head(loaded.introspect_url) = loaded.base_url
        /\ Host(loaded.introspect_url) = loaded.base_url
    BY JoinedAtBase DEF Resolved
  <1>. HIDE DEF loaded
  <1>3. IsConfigured(GuardConfig(loaded))
    BY <1>2, <1>j DEF IsConfigured, GuardConfig
  <1>4. ~IsDev(loaded.app_env) => Guarded(loaded)
    BY <1>1 DEF Validate, loaded
  <1>. QED  BY <1>1, <1>3, <1>4, <1>j DEF Accepted, Guarded, loaded

----------------------------------------------------------------------------
(* What the moves of one pod do. *)

LEMMA OffType == Off \in PodStates /\ Off.phase = "off"
  BY VersionsAssumption, BoundsAssumption
  DEF VersionsAssumption, BoundsAssumption, Off, PodStates, Phases

LEMMA PodFields ==
  ASSUME TypeOK, NEW p \in Pod
  PROVE  /\ pod \in [Pod -> PodStates]
         /\ pod[p] \in PodStates
         /\ pod[p].version \in Nat
         /\ pod[p].load \in 0..MaxLoad
  BY VersionsAssumption DEF VersionsAssumption, TypeOK, PodStates

LEMMA ExitEffect ==
  ASSUME TypeOK, NEW p \in Pod, Exit(p)
  PROVE  /\ pod' \in [Pod -> PodStates]
         /\ pod'[p].phase = "off"
         /\ \A q \in Pod \ {p} : pod'[q] = pod[q]
         /\ lock' = IF lock = p THEN NoPod ELSE lock
         /\ schema' = schema /\ db' = db
  BY OffType, PodFields DEF Exit

LEMMA EnterEffect ==
  ASSUME TypeOK, NEW p \in Pod, NEW phase \in Phases, Enter(p, phase)
  PROVE  /\ pod' \in [Pod -> PodStates]
         /\ pod'[p].phase = phase
         /\ pod'[p].version = pod[p].version
         /\ \A q \in Pod \ {p} : pod'[q] = pod[q]
  <1>1. /\ pod \in [Pod -> PodStates]
        /\ pod[p] \in PodStates
    BY PodFields
  <1>. DEFINE s == [pod[p] EXCEPT !.phase = phase]
  <1>2. /\ s \in PodStates
        /\ s.phase = phase
        /\ s.version = pod[p].version
    BY <1>1 DEF PodStates
  <1>3. pod' = [pod EXCEPT ![p] = s]  BY DEF Enter
  <1>. HIDE DEF s
  <1>. QED  BY <1>1, <1>2, <1>3

LEMMA InitInv == Init => Inv
  <1>. SUFFICES ASSUME Init PROVE Inv
    OBVIOUS
  <1>1. TypeOK
    <2>1. config \in Configs  BY DEF Init, Configs
    <2>2. schema \in 0..1 /\ 1 \in Versions
      BY VersionsAssumption DEF VersionsAssumption, Init
    <2>. QED
      BY <2>1, <2>2, OffType, BoundsAssumption, VersionsAssumption
      DEF BoundsAssumption, VersionsAssumption, Init, TypeOK, PodStates
  <1>2. \A p \in Pod : pod[p].phase = "off"  BY OffType DEF Init
  <1>3. LockFits
    BY <1>2, NoPodAssumption DEF NoPodAssumption, Init, LockFits, In
  <1>. QED  BY <1>1, <1>2, <1>3 DEF Inv, PodFits, PastBoot, Serving

(* A process ends. *)
LEMMA ExitInv ==
  ASSUME Inv, NEW p \in Pod, Exit(p), UNCHANGED deployment,
         kills' \in 0..MaxKills
  PROVE  Inv'
  <1>i. TypeOK  BY DEF Inv
  <1>1. /\ pod' \in [Pod -> PodStates]
        /\ pod'[p].phase = "off"
        /\ \A q \in Pod \ {p} : pod'[q] = pod[q]
        /\ lock' = IF lock = p THEN NoPod ELSE lock
        /\ schema' = schema /\ db' = db
    BY <1>i, ExitEffect
  <1>2. TypeOK'
    BY <1>i, <1>1 DEF TypeOK, PodStates, deployment
  <1>3. LockFits'
    BY <1>1, NoPodAssumption DEF NoPodAssumption, Inv, LockFits, In
  <1>4. ASSUME NEW q \in Pod PROVE PodFits(q)'
    BY <1>1 DEF Inv, PodFits, PastBoot, Serving, deployment
  <1>. QED  BY <1>2, <1>3, <1>4 DEF Inv

(* A process goes on within its phase. *)
LEMMA SamePhaseInv ==
  ASSUME Inv, NEW p \in Pod, NEW s \in PodStates,
         pod' = [pod EXCEPT ![p] = s],
         s.phase = pod[p].phase, s.version = pod[p].version,
         UNCHANGED <<deployment, database, kills>>
  PROVE  Inv'
  <1>i. TypeOK /\ pod \in [Pod -> PodStates]  BY PodFields DEF Inv
  <1>1. /\ pod' \in [Pod -> PodStates]
        /\ \A q \in Pod : /\ pod'[q].phase = pod[q].phase
                          /\ pod'[q].version = pod[q].version
    BY <1>i
  <1>2. TypeOK'
    BY <1>i, <1>1 DEF TypeOK, PodStates, deployment, database
  <1>3. LockFits'  BY <1>1 DEF Inv, LockFits, In, database, TypeOK
  <1>4. \A q \in Pod : PodFits(q)'
    BY <1>1 DEF Inv, PodFits, PastBoot, Serving, deployment, database
  <1>. QED  BY <1>2, <1>3, <1>4 DEF Inv

LEMMA BootInv ==
  ASSUME Inv, NEW p \in Pod, Start(p) \/ TakeMigrationLock(p) \/ Serve(p)
  PROVE  Inv'
  <1>i. TypeOK /\ pod \in [Pod -> PodStates]  BY PodFields DEF Inv
  <1>1. CASE Start(p)
    <2>. DEFINE b == [Off EXCEPT !.phase = "booting"]
                s == [b EXCEPT !.version = desired]
    <2>a. b \in PodStates /\ b.phase = "booting"
      BY OffType DEF PodStates, Phases
    <2>. HIDE DEF b
    <2>1. s \in PodStates /\ s.phase = "booting"
      BY <1>i, <2>a DEF PodStates, TypeOK
    <2>2. pod' = [pod EXCEPT ![p] = s]  BY <1>1 DEF Start, b
    <2>. HIDE DEF s
    <2>3. /\ pod' \in [Pod -> PodStates]
          /\ pod'[p].phase = "booting"
          /\ \A q \in Pod \ {p} : pod'[q] = pod[q]
      BY <1>i, <2>1, <2>2
    <2>4. TypeOK'
      BY <1>1, <1>i, <2>3 DEF Start, TypeOK, PodStates, deployment, database
    <2>5. LockFits'
      BY <1>1, <2>3 DEF Start, Inv, LockFits, In, database
    <2>6. \A q \in Pod : PodFits(q)'
      BY <1>1, <2>3 DEF Start, Inv, PodFits, PastBoot, Serving, deployment,
         database
    <2>. QED  BY <2>4, <2>5, <2>6 DEF Inv
  <1>2. CASE TakeMigrationLock(p)
    <2>1. /\ pod' \in [Pod -> PodStates]
          /\ pod'[p].phase = "migrating"
          /\ \A q \in Pod \ {p} : pod'[q] = pod[q]
      BY <1>2, <1>i, EnterEffect DEF TakeMigrationLock, Phases
    <2>2. TypeOK'
      BY <1>2, <1>i, <2>1 DEF TakeMigrationLock, TypeOK, PodStates, deployment
    <2>3. LockFits'
      BY <1>2, <2>1, NoPodAssumption
      DEF NoPodAssumption, TakeMigrationLock, Inv, LockFits, In
    <2>4. \A q \in Pod : PodFits(q)'
      BY <1>2, <2>1 DEF TakeMigrationLock, Inv, PodFits, PastBoot, Serving,
         deployment
    <2>. QED  BY <2>2, <2>3, <2>4 DEF Inv
  <1>3. CASE Serve(p)
    <2>1. /\ pod' \in [Pod -> PodStates]
          /\ pod'[p].phase = "serving"
          /\ pod'[p].version = pod[p].version
          /\ \A q \in Pod \ {p} : pod'[q] = pod[q]
      BY <1>3, <1>i, EnterEffect DEF Serve, Phases
    <2>2. TypeOK'
      BY <1>3, <1>i, <2>1 DEF Serve, TypeOK, PodStates, deployment
    <2>3. LockFits'
      BY <1>3, <2>1, NoPodAssumption
      DEF NoPodAssumption, Serve, Inv, LockFits, In
    <2>4. pod[p].version \in Nat  BY <1>i, PodFields
    <2>5. PastBoot(p)  BY <1>3 DEF Serve, PastBoot, In
    <2>6. \A q \in Pod : PodFits(q)'
      BY <1>3, <2>1, <2>4, <2>5 DEF Serve, Inv, PodFits, PastBoot, Serving,
         deployment
    <2>. QED  BY <2>2, <2>3, <2>6 DEF Inv
  <1>. QED  BY <1>1, <1>2, <1>3

(* The schema only grows, and never beyond what some version carries. *)
LEMMA ApplyMigrationInv ==
  ASSUME Inv, NEW p \in Pod, ApplyMigration(p)
  PROVE  Inv'
  <1>i. TypeOK  BY DEF Inv
  <1>1. schema \in Nat /\ schema' = schema + 1
    BY <1>i, VersionsAssumption DEF VersionsAssumption, TypeOK, ApplyMigration
  <1>2. pod[p].version \in Versions /\ pod[p].version \in Nat
    BY <1>i, PodFields DEF PodStates
  <1>3. schema' \in 0..pod[p].version
    BY <1>1, <1>2 DEF ApplyMigration
  <1>4. TypeOK'  BY <1>i, <1>2, <1>3 DEF TypeOK, ApplyMigration, deployment
  <1>5. LockFits'  BY DEF Inv, LockFits, In, ApplyMigration
  <1>6. ASSUME NEW q \in Pod PROVE PodFits(q)'
    <2>1. pod[q].version \in Nat  BY <1>i, PodFields
    <2>. QED  BY <1>1, <2>1 DEF Inv, PodFits, PastBoot, Serving, ApplyMigration,
                                deployment
  <1>. QED  BY <1>4, <1>5, <1>6 DEF Inv

(* Requests come and go, and the probes look. *)
LEMMA TrafficInv ==
  ASSUME Inv, NEW p \in Pod,
         Accept(p) \/ Answer(p) \/ ProbeReadiness(p) \/ ProbeLiveness(p)
  PROVE  Inv'
  <1>i. /\ pod[p] \in PodStates
        /\ pod[p].load \in 0..MaxLoad
        /\ MaxLoad \in Nat
    BY PodFields, BoundsAssumption DEF Inv, BoundsAssumption
  <1>1. CASE Accept(p)
    <2>. DEFINE s == [pod[p] EXCEPT !.load = pod[p].load + 1]
    <2>1. s \in PodStates /\ s.phase = pod[p].phase /\ s.version = pod[p].version
      BY <1>1, <1>i DEF Accept, PodStates
    <2>2. /\ pod' = [pod EXCEPT ![p] = s]
          /\ UNCHANGED <<deployment, database, kills>>
      BY <1>1 DEF Accept
    <2>. HIDE DEF s
    <2>. QED  BY <2>1, <2>2, SamePhaseInv
  <1>2. CASE Answer(p)
    <2>. DEFINE s == [pod[p] EXCEPT !.load = pod[p].load - 1]
    <2>1. s \in PodStates /\ s.phase = pod[p].phase /\ s.version = pod[p].version
      BY <1>2, <1>i DEF Answer, PodStates
    <2>2. /\ pod' = [pod EXCEPT ![p] = s]
          /\ UNCHANGED <<deployment, database, kills>>
      BY <1>2 DEF Answer
    <2>. HIDE DEF s
    <2>. QED  BY <2>1, <2>2, SamePhaseInv
  <1>3. CASE ProbeReadiness(p)
    <2>1. PICK ready \in BOOLEAN : pod' = [pod EXCEPT ![p] = [@ EXCEPT !.ready = ready]]
      BY <1>3 DEF ProbeReadiness, Readyz
    <2>. DEFINE s == [pod[p] EXCEPT !.ready = ready]
    <2>2. s \in PodStates /\ s.phase = pod[p].phase /\ s.version = pod[p].version
      BY <1>i DEF PodStates
    <2>3. /\ pod' = [pod EXCEPT ![p] = s]
          /\ UNCHANGED <<deployment, database, kills>>
      BY <1>3, <2>1 DEF ProbeReadiness
    <2>. HIDE DEF s
    <2>. QED  BY <2>2, <2>3, SamePhaseInv
  <1>4. CASE ProbeLiveness(p)
    <2>. DEFINE s == [pod[p] EXCEPT !.live = TRUE]
    <2>1. s \in PodStates /\ s.phase = pod[p].phase /\ s.version = pod[p].version
      BY <1>i DEF PodStates
    <2>2. Healthz(p)  BY DEF Healthz, Routes
    <2>3. /\ pod' = [pod EXCEPT ![p] = s]
          /\ UNCHANGED <<deployment, database, kills>>
      BY <1>4, <2>2 DEF ProbeLiveness
    <2>. HIDE DEF s
    <2>. QED  BY <2>1, <2>3, SamePhaseInv
  <1>. QED  BY <1>1, <1>2, <1>3, <1>4

LEMMA EndInv ==
  ASSUME Inv, NEW p \in Pod,
         \/ ConfigRefused(p) \/ MigrateFails(p) \/ Terminate(p)
         \/ Drained(p) \/ Kill(p)
  PROVE  Inv'
  <1>i. TypeOK /\ kills \in 0..MaxKills  BY DEF Inv, TypeOK
  <1>1. CASE Exit(p) /\ UNCHANGED deployment
    <2>1. kills' \in 0..MaxKills
      BY <1>i, BoundsAssumption DEF BoundsAssumption, ConfigRefused,
         MigrateFails, Terminate, Drained, Kill
    <2>. QED  BY <1>1, <2>1, ExitInv
  <1>2. CASE In(p, "serving") /\ Enter(p, "draining") /\ Terminate(p)
             /\ UNCHANGED database
    <2>1. /\ pod' \in [Pod -> PodStates]
          /\ pod'[p].phase = "draining"
          /\ pod'[p].version = pod[p].version
          /\ \A q \in Pod \ {p} : pod'[q] = pod[q]
      BY <1>2, <1>i, EnterEffect DEF Phases
    <2>2. TypeOK'
      BY <1>2, <1>i, <2>1 DEF Terminate, TypeOK, PodStates, deployment, database
    <2>3. LockFits'
      BY <1>2, <2>1, NoPodAssumption
      DEF NoPodAssumption, Inv, LockFits, In, database
    <2>4. \A q \in Pod : PodFits(q)'
      BY <1>2, <2>1 DEF Terminate, In, Inv, PodFits, PastBoot, Serving,
         deployment, database
    <2>. QED  BY <2>2, <2>3, <2>4 DEF Inv
  <1>. QED
    BY <1>1, <1>2 DEF ConfigRefused, MigrateFails, Terminate, Drained, Kill

LEMMA NextInv == Inv /\ [Next]_vars => Inv'
  <1>. SUFFICES ASSUME Inv, [Next]_vars PROVE Inv'
    OBVIOUS
  <1>1. CASE \E p \in Pod :
               \/ Start(p) \/ TakeMigrationLock(p) \/ Serve(p)
               \/ ApplyMigration(p)
               \/ Accept(p) \/ Answer(p) \/ ProbeReadiness(p) \/ ProbeLiveness(p)
               \/ ConfigRefused(p) \/ MigrateFails(p) \/ Terminate(p)
               \/ Drained(p) \/ Kill(p)
    BY <1>1, BootInv, ApplyMigrationInv, TrafficInv, EndInv
  <1>2. CASE Release
    <2>1. TypeOK'
      BY <1>2, BoundsAssumption
      DEF BoundsAssumption, Release, Inv, TypeOK, database
    <2>. QED  BY <1>2, <2>1 DEF Release, Inv, LockFits, PodFits, PastBoot,
                                Serving, In, database
  <1>3. CASE DbChanges
    <2>1. TypeOK'  BY <1>3 DEF DbChanges, Inv, TypeOK, deployment
    <2>. QED  BY <1>3, <2>1 DEF DbChanges, Inv, LockFits, PodFits, PastBoot,
                                Serving, In, deployment
  <1>4. CASE UNCHANGED vars
    BY <1>4 DEF vars, deployment, database, Inv, TypeOK, LockFits, PodFits,
                PastBoot, Serving, In
  <1>. QED  BY <1>1, <1>2, <1>3, <1>4 DEF Next

LEMMA SpecInv == Spec => []Inv
  BY InitInv, NextInv, PTL DEF Spec

----------------------------------------------------------------------------
(* Every state of a deployment is well formed: the configuration is one    *)
(* load made of an environment, and the schema one that some version made. *)
THEOREM TypeCorrect == Spec => []TypeOK
  <1>1. Inv => TypeOK  BY DEF Inv
  <1>. QED  BY <1>1, SpecInv, PTL

(* The migrator of postgres.rs:27-36 runs in one pod at a time, and the    *)
(* lock it takes is let go when the pod serves, fails, is killed or told to*)
(* go: nobody is left to wait for a pod that is gone.                      *)
MigratorCustody ==
  /\ \A p, q \in Pod : In(p, "migrating") /\ In(q, "migrating") => p = q
  /\ lock # NoPod => lock \in Pod /\ In(lock, "migrating")

THEOREM OneMigrates == Spec => []MigratorCustody
  <1>1. Inv => MigratorCustody
    BY DEF Inv, TypeOK, LockFits, MigratorCustody
  <1>. QED  BY <1>1, SpecInv, PTL

(* A pod that serves has every table its code was built against, whatever  *)
(* other versions migrate, roll back or crash around it; its guard has all *)
(* it needs, and outside development it fetches keys and verdicts over     *)
(* https only (main.rs:34-57, config.rs:224-269).                          *)
THEOREM ServesOnlySound == Spec => []ServesWhenSound
  <1>1. ASSUME Inv PROVE ServesWhenSound
    <2>1. ASSUME NEW p \in Pod, Serving(p)
          PROVE  pod[p].version <= schema /\ config.ok
      BY <1>1, <2>1 DEF Inv, PodFits, PastBoot, Serving
    <2>2. PICK env \in Envs : config = Load(env)
      BY <1>1 DEF Inv, TypeOK, Configs
    <2>3. config.ok => Accepted(config)  BY <2>2, LoadAccepts
    <2>. QED  BY <2>1, <2>3 DEF ServesWhenSound, Accepted
  <1>2. Inv => ServesWhenSound  BY <1>1
  <1>. QED  BY <1>2, SpecInv, PTL

(* Nothing but its own drain, or a kill from outside, ends a process that  *)
(* serves: no probe does, wherever the routes are mounted and whatever the *)
(* database does (health.rs:21-22, server.rs:13-14).                       *)
THEOREM EndsDrained == Spec => ServingEndsDrained
  <1>1. ASSUME Inv, [Next]_vars, NEW p \in Pod,
               Serving(p), In(p, "off")', kills' = kills
        PROVE  In(p, "draining") /\ pod[p].load = 0
    <2>i. TypeOK /\ pod \in [Pod -> PodStates] /\ kills \in Nat
      BY <1>1, PodFields, BoundsAssumption DEF BoundsAssumption, Inv, TypeOK
    <2>1. pod'[p].phase # pod[p].phase
      BY <1>1 DEF Serving, In
    <2>2. PICK q \in Pod :
            \/ Start(q) \/ TakeMigrationLock(q) \/ Serve(q)
            \/ Accept(q) \/ Answer(q) \/ ProbeReadiness(q) \/ ProbeLiveness(q)
            \/ ConfigRefused(q) \/ MigrateFails(q) \/ Terminate(q)
            \/ Drained(q) \/ Kill(q)
      BY <1>1, <2>1 DEF Next, Release, DbChanges, ApplyMigration, vars
    <2>3. q = p
      <3>1. PICK s : pod' = [pod EXCEPT ![q] = s]
        BY <2>2 DEF Start, TakeMigrationLock, Serve, Accept, Answer,
           ProbeReadiness, ProbeLiveness, ConfigRefused, MigrateFails,
           Terminate, Drained, Kill, Enter, Exit
      <3>. QED  BY <2>i, <2>1, <3>1
    <2>4. ~Kill(p)  BY <1>1, <2>i DEF Kill
    <2>5. ~Start(p) /\ ~TakeMigrationLock(p) /\ ~Serve(p) /\ ~ConfigRefused(p)
          /\ ~MigrateFails(p)
      BY <1>1 DEF Serving, In, Start, TakeMigrationLock, Serve, ConfigRefused,
                  MigrateFails
    <2>6. ~Terminate(p)
      BY <1>1, <2>i, EnterEffect DEF Serving, In, Terminate, Phases
    <2>7. ~Accept(p) /\ ~Answer(p) /\ ~ProbeReadiness(p) /\ ~ProbeLiveness(p)
      <3>1. Healthz(p)  BY DEF Healthz, Routes
      <3>2. pod[p] \in PodStates  BY <2>i
      <3>. QED  BY <2>1, <2>i, <3>1, <3>2
                DEF Accept, Answer, ProbeReadiness, ProbeLiveness, PodStates
    <2>. QED  BY <2>2, <2>3, <2>4, <2>5, <2>6, <2>7 DEF Drained
  <1>2. Inv /\ [Next]_vars
          => [\A p \in Pod :
                Serving(p) /\ In(p, "off")' /\ kills' = kills
                  => In(p, "draining") /\ pod[p].load = 0]_vars
    BY <1>1
  <1>. QED  BY <1>2, SpecInv, PTL DEF Spec, ServingEndsDrained
=============================================================================
