------------------------------ MODULE Startup ------------------------------
(***************************************************************************)
(* How the platform comes up: the main functions of the controller and the *)
(* API server, the migrations (internal/store/migrations.go) and the       *)
(* webhook manager (internal/webhook), which the controller runs before it *)
(* starts to reconcile.  Several processes may start at once, each call to *)
(* the database or the Kubernetes API is one step, a process dies at any   *)
(* point, and a step that returns an error ends the process, which the     *)
(* kubelet starts again.                                                   *)
(*                                                                         *)
(* External, modelled from their use: golang-migrate, which holds an       *)
(* advisory lock while it works and marks the schema dirty before it runs  *)
(* the SQL; Dex, which may be unreachable; the kubelet; the webhook's      *)
(* deployment, whose server reads its certificate once, when it starts.    *)
(***************************************************************************)
EXTENDS Naturals, FiniteSets

CONSTANTS Controllers, ApiServers, \* the processes
          Nobody,                  \* nobody holds the migration lock
          MaxCrashes,              \* bound: crashes of processes and webhook
          MaxCerts                 \* bound: certificate authorities generated

Processes == Controllers \cup ApiServers

ASSUME ProcessesAssumption == /\ Controllers \cap ApiServers = {}
                              /\ Nobody \notin Processes

ASSUME StartupBoundsAssumption == MaxCrashes \in Nat /\ MaxCerts \in Nat

VARIABLES proc,    \* how far each process is
          schema,  \* the version table: no version, dirty, or migrated
          lock,    \* who holds the migration lock
          made,    \* the objects of the webhook manager; 0: it does not exist
          certs,   \* certificate authorities are numbered as they are generated
          served,  \* whose certificate the webhook server presents; 0: it is down
          crashes

startupVars == <<proc, schema, lock, made, certs, served, crashes>>

\* (mutant) ensureService is left out.
NextStageNoService == [secret     |-> "deployment",
                       deployment |-> "validating",
                       service    |-> "validating",
                       validating |-> "mutating",
                       mutating   |-> "running"]

\* What EnsureAll ensures, in this order.
NextStage == [secret     |-> "deployment",
              deployment |-> "service",
              service    |-> "validating",
              validating |-> "mutating",
              mutating   |-> "running"]

Managed == {"secret", "deployment", "service", "validating", "mutating"}

Configs == {"validating", "mutating"}

Stages == {"down", "migrate", "applying", "auth", "running"} \cup Managed

\* missing: the last Get answered NotFound; ca: the CA last read from the secret.
ProcState == [stage : Stages, missing : BOOLEAN, ca : Nat]

StartupTypeOK == /\ proc \in [Processes -> ProcState]
                 /\ \A p \in Processes :
                      /\ proc[p].missing => proc[p].stage \in Managed
                      /\ proc[p].ca # 0 => proc[p].stage \in Configs
                 /\ schema \in {"none", "dirty", "migrated"}
                 /\ lock \in Processes \cup {Nobody}
                 /\ made \in [Managed -> Nat]
                 /\ certs \in 0..MaxCerts
                 /\ served \in Nat
                 /\ crashes \in 0..MaxCrashes

At(stage) == [stage |-> stage, missing |-> FALSE, ca |-> 0]

StartupInit == /\ proc = [p \in Processes |-> At("down")]
               /\ schema = "none" /\ lock = Nobody
               /\ made = [k \in Managed |-> 0]
               /\ certs = 0 /\ served = 0 /\ crashes = 0

-----------------------------------------------------------------------------
\* (mutant) what the last Get answered is carried into the next function.
GotoKeepingAnswer(p, stage) == proc' = [proc EXCEPT ![p].stage = stage]

\* The next function starts from scratch: each has its own local variables.
Goto(p, stage) == proc' = [proc EXCEPT ![p] = At(stage)]

\* os.Exit(1), or the process is killed; its database session ends with it.
Exit(p) == /\ Goto(p, "down")
           /\ lock' = IF lock = p THEN Nobody ELSE lock

Start(p) == /\ proc[p].stage = "down"
            /\ Goto(p, "migrate")
            /\ UNCHANGED <<schema, lock, made, certs, served, crashes>>

AfterMigrations(p) == IF p \in Controllers THEN "secret" ELSE "auth"

\* (mutant) any error of Up is taken for ErrNoChange.
MigrateIgnoringError(p) ==
  /\ proc[p].stage = "migrate"
  /\ lock = Nobody
  /\ \/ /\ schema # "none"
        /\ Goto(p, AfterMigrations(p)) /\ UNCHANGED <<schema, lock>>
     \/ /\ schema = "none" /\ schema' = "dirty" /\ lock' = p
        /\ Goto(p, "applying")
  /\ UNCHANGED <<made, certs, served, crashes>>

\* Up: with the lock in hand, no change to make, an error because the schema is
\* dirty, or the first half of a migration.
RunMigrationsEmbedded(p) ==
  /\ proc[p].stage = "migrate"
  /\ lock = Nobody
  /\ \/ /\ schema = "migrated"
        /\ Goto(p, AfterMigrations(p)) /\ UNCHANGED <<schema, lock>>
     \/ schema = "dirty" /\ Exit(p) /\ UNCHANGED schema
     \/ /\ schema = "none" /\ schema' = "dirty" /\ lock' = p
        /\ Goto(p, "applying")
  /\ UNCHANGED <<made, certs, served, crashes>>

\* The lock is not granted in time.
LockTimeout(p) == /\ proc[p].stage = "migrate"
                  /\ lock # Nobody
                  /\ Exit(p)
                  /\ UNCHANGED <<schema, made, certs, served, crashes>>

\* The SQL has run: the version is clean, the lock free.
FinishMigration(p) == /\ proc[p].stage = "applying"
                      /\ schema' = "migrated" /\ lock' = Nobody
                      /\ Goto(p, AfterMigrations(p))
                      /\ UNCHANGED <<made, certs, served, crashes>>

\* The API server fetches Dex's keys.  One that does not get them exits, which is
\* a Crash; Access models what it does with them.
NewAuthMiddleware(p) == /\ proc[p].stage = "auth"
                        /\ Goto(p, "running")
                        /\ UNCHANGED <<schema, lock, made, certs, served, crashes>>

-----------------------------------------------------------------------------
(***************************************************************************)
(* EnsureAll.  Each ensure function looks for its object and creates it if *)
(* it is not there; the two configurations first read the CA from the      *)
(* secret.  An object that exists is never compared or changed.            *)
(***************************************************************************)
readCA(p) ==
  /\ proc[p].stage \in Configs /\ proc[p].ca = 0
  /\ \/ /\ made["secret"] # 0
        /\ proc' = [proc EXCEPT ![p].ca = made["secret"]]
        /\ UNCHANGED lock
     \/ made["secret"] = 0 /\ Exit(p)
  /\ UNCHANGED <<schema, made, certs, served, crashes>>

\* (mutant) an object that is there already is an error.
GetFresh(p) ==
  LET k == proc[p].stage
  IN /\ k \in Managed /\ ~proc[p].missing
     /\ k \in Configs => proc[p].ca # 0
     /\ \/ made[k] # 0 /\ Exit(p)
        \/ /\ made[k] = 0 /\ proc' = [proc EXCEPT ![p].missing = TRUE]
           /\ UNCHANGED lock
     /\ UNCHANGED <<schema, made, certs, served, crashes>>

Get(p) ==
  LET k == proc[p].stage
  IN /\ k \in Managed /\ ~proc[p].missing
     /\ k \in Configs => proc[p].ca # 0
     /\ \/ made[k] # 0 /\ Goto(p, NextStage[k])
        \/ made[k] = 0 /\ proc' = [proc EXCEPT ![p].missing = TRUE]
     /\ UNCHANGED <<schema, lock, made, certs, served, crashes>>

\* What is created: a secret with a new CA and a server certificate it has
\* signed (GenerateCA, GenerateServerCert), a configuration with the CA read.
Content(p, k) == CASE k = "secret"   -> certs + 1
                   [] k \in Configs  -> proc[p].ca
                   [] OTHER          -> 1

\* (mutant) Create overwrites what another process has created meanwhile.
CreateOverwriting(p) ==
  LET k == proc[p].stage
  IN /\ k \in Managed /\ proc[p].missing
     /\ k = "secret" => certs < MaxCerts
     /\ made' = [made EXCEPT ![k] = Content(p, k)]
     /\ certs' = IF k = "secret" THEN certs + 1 ELSE certs
     /\ Goto(p, NextStage[k])
     /\ UNCHANGED <<schema, lock, served, crashes>>

Create(p) ==
  LET k == proc[p].stage
  IN /\ k \in Managed /\ proc[p].missing
     /\ k = "secret" => certs < MaxCerts
     /\ certs' = IF k = "secret" THEN certs + 1 ELSE certs
     /\ \/ /\ made[k] = 0
           /\ made' = [made EXCEPT ![k] = Content(p, k)]
           /\ Goto(p, NextStage[k]) /\ UNCHANGED lock
        \/ made[k] # 0 /\ Exit(p) /\ UNCHANGED made
     /\ UNCHANGED <<schema, served, crashes>>

Crash(p) == /\ proc[p].stage # "down"
            /\ crashes < MaxCrashes /\ crashes' = crashes + 1
            /\ Exit(p)
            /\ UNCHANGED <<schema, made, certs, served>>

-----------------------------------------------------------------------------
(***************************************************************************)
(* The webhook server.                                                     *)
(***************************************************************************)
\* The pod starts once the secret can be mounted; main loads the certificate.
WebhookStart == /\ served = 0
                /\ made["deployment"] # 0 /\ made["secret"] # 0
                /\ served' = made["secret"]
                /\ UNCHANGED <<proc, schema, lock, made, certs, crashes>>

WebhookCrash == /\ served # 0
                /\ crashes < MaxCrashes /\ crashes' = crashes + 1
                /\ served' = 0
                /\ UNCHANGED <<proc, schema, lock, made, certs>>

\* The API server gets through to the server: it trusts the certificate only if
\* the CA in the configuration has signed it.
Reaches(config) == made["service"] # 0 /\ served # 0 /\ served = made[config]

Running(p) == proc[p].stage = "running"

ProcessStep(p) == \/ Start(p) \/ RunMigrationsEmbedded(p) \/ FinishMigration(p)
                  \/ NewAuthMiddleware(p)
                  \/ readCA(p) \/ Get(p) \/ Create(p)

StartupNext == \/ \E p \in Processes : ProcessStep(p) \/ LockTimeout(p) \/ Crash(p)
               \/ WebhookStart \/ WebhookCrash

=============================================================================
