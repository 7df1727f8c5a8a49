-------------------------- MODULE AdmissionProofs --------------------------
(***************************************************************************)
(* What Admission promises for any number of controllers, API servers,     *)
(* crashes and pods: nobody works on a schema that is not there, the       *)
(* certificates agree, and no pod gets into a tenant's namespace unseen.   *)
(***************************************************************************)
EXTENDS Admission, TLAPS

\* For every pod, the handlers' checks are those of the README's table.
THEOREM ChecksMatchTable == RulesMatchTable
<1> SUFFICES ASSUME NEW pod PROVE validatePodResource(pod) <=> Compliant(pod)
  BY DEF RulesMatchTable
<1>1. \A c : validateContainer(c) <=> ~Blocked(c)
  BY SMT DEF validateContainer, Blocked
<1>2. \A c : validateEphemeralContainer(c) <=> ~Blocked(c)
  BY SMT DEF validateEphemeralContainer, Blocked
<1>3. Compliant(pod) <=> /\ \A c \in pod["containers"] : ~Blocked(c)
                         /\ \A c \in pod["initContainers"] : ~Blocked(c)
                         /\ \A c \in pod["ephemeralContainers"] : ~Blocked(c)
  BY DEF Compliant, Places
<1>4. QED
  BY <1>1, <1>2, <1>3 DEF validatePodResource

-----------------------------------------------------------------------------
(***************************************************************************)
(* Types.                                                                  *)
(***************************************************************************)
\* A process that goes to a stage has no answer and no CA in hand.
LEMMA GotoType ==
  ASSUME StartupTypeOK, NEW p \in Processes, NEW stage \in Stages, Goto(p, stage)
  PROVE  /\ proc' \in [Processes -> ProcState]
         /\ \A q \in Processes : /\ proc'[q].missing => proc'[q].stage \in Managed
                                 /\ proc'[q].ca # 0 => proc'[q].stage \in Configs
<1>1. At(stage) \in ProcState
  BY DEF At, ProcState
<1>2. At(stage).missing = FALSE /\ At(stage).ca = 0
  BY DEF At
<1>3. proc \in [Processes -> ProcState]
  BY DEF StartupTypeOK
<1>4. proc' = [proc EXCEPT ![p] = At(stage)]
  BY DEF Goto
<1>5. proc' \in [Processes -> ProcState]
  BY <1>1, <1>3, <1>4
<1>6. ASSUME NEW q \in Processes
      PROVE  /\ proc'[q].missing => proc'[q].stage \in Managed
             /\ proc'[q].ca # 0 => proc'[q].stage \in Configs
  <2>1. CASE q = p
    BY <1>2, <1>3, <1>4, <2>1
  <2>2. CASE q # p
    BY <1>3, <1>4, <2>2 DEF StartupTypeOK
  <2>3. QED
    BY <2>1, <2>2
<1>7. QED
  BY <1>5, <1>6

\* The stages a process is sent to.
LEMMA StagesReached ==
  /\ \A k \in Managed : NextStage[k] \in Stages
  /\ \A p : AfterMigrations(p) \in Stages
  /\ {"down", "migrate", "applying", "running"} \subseteq Stages
BY DEF Managed, NextStage, Stages, AfterMigrations

\* Every step of the platform's start keeps the types.
LEMMA StartupTypeStep ==
  ASSUME StartupTypeOK, StartupNext
  PROVE  StartupTypeOK'
<1> USE StartupBoundsAssumption, StagesReached
<1>0. /\ proc \in [Processes -> ProcState] /\ made \in [Managed -> Nat]
      /\ certs \in Nat /\ crashes \in Nat /\ served \in Nat
  BY DEF StartupTypeOK
<1>1. ASSUME NEW p \in Processes, Start(p) PROVE StartupTypeOK'
  BY <1>1, GotoType DEF Start, StartupTypeOK
<1>2. ASSUME NEW p \in Processes, RunMigrationsEmbedded(p) PROVE StartupTypeOK'
  <2>1. \E stage \in Stages : Goto(p, stage)
    BY <1>2 DEF RunMigrationsEmbedded, Exit
  <2>2. QED
    BY <1>2, <2>1, GotoType DEF RunMigrationsEmbedded, Exit, StartupTypeOK
<1>3. ASSUME NEW p \in Processes, FinishMigration(p) PROVE StartupTypeOK'
  BY <1>3, GotoType DEF FinishMigration, StartupTypeOK
<1>4. ASSUME NEW p \in Processes, readCA(p) PROVE StartupTypeOK'
  <2>1. CASE Exit(p)
    BY <1>4, <2>1, GotoType DEF readCA, Exit, StartupTypeOK
  <2>2. CASE proc' = [proc EXCEPT ![p].ca = made["secret"]] /\ UNCHANGED lock
    <3>1. made["secret"] \in Nat
      BY <1>0 DEF Managed
    <3>2. proc' \in [Processes -> ProcState]
      BY <1>0, <2>2, <3>1 DEF ProcState
    <3>3. \A q \in Processes : /\ proc'[q].missing = proc[q].missing
                              /\ proc'[q].stage = proc[q].stage
                              /\ q # p => proc'[q].ca = proc[q].ca
      BY <1>0, <2>2 DEF ProcState
    <3>4. proc[p].stage \in Configs
      BY <1>4 DEF readCA
    <3>5. QED
      BY <1>4, <2>2, <3>2, <3>3, <3>4 DEF readCA, StartupTypeOK
  <2>3. QED
    BY <1>4, <2>1, <2>2 DEF readCA
<1>5. ASSUME NEW p \in Processes, Get(p) PROVE StartupTypeOK'
  <2>1. CASE Goto(p, NextStage[proc[p].stage])
    BY <1>5, <2>1, GotoType DEF Get, StartupTypeOK
  <2>2. CASE proc' = [proc EXCEPT ![p].missing = TRUE]
    <3>1. proc' \in [Processes -> ProcState]
      BY <1>0, <2>2 DEF ProcState
    <3>2. \A q \in Processes : /\ q # p => proc'[q].missing = proc[q].missing
                              /\ proc'[q].stage = proc[q].stage
                              /\ proc'[q].ca = proc[q].ca
      BY <1>0, <2>2 DEF ProcState
    <3>3. proc[p].stage \in Managed
      BY <1>5 DEF Get
    <3>4. QED
      BY <1>5, <3>1, <3>2, <3>3 DEF Get, StartupTypeOK
  <2>3. QED
    BY <1>5, <2>1, <2>2 DEF Get
<1>6. ASSUME NEW p \in Processes, Create(p) PROVE StartupTypeOK'
  <2> DEFINE k == proc[p].stage
  <2>1. k \in Managed /\ (k = "secret" => certs < MaxCerts)
    BY <1>6 DEF Create
  <2>2. certs' \in 0..MaxCerts
    BY <1>6, <2>1 DEF Create, StartupTypeOK
  <2>3. Content(p, k) \in Nat
    BY <1>0 DEF Content, ProcState, Configs
  <2>4. made' \in [Managed -> Nat]
    BY <1>0, <1>6, <2>3 DEF Create
  <2>5. Goto(p, NextStage[k]) \/ Exit(p)
    BY <1>6 DEF Create
  <2>6. lock' \in Processes \cup {Nobody} /\ UNCHANGED <<schema, served, crashes>>
    BY <1>6 DEF Create, Exit, StartupTypeOK
  <2>7. QED
    BY <2>1, <2>2, <2>4, <2>5, <2>6, GotoType DEF Exit, StartupTypeOK
<1>7. ASSUME NEW p \in Processes, LockTimeout(p) PROVE StartupTypeOK'
  BY <1>7, GotoType DEF LockTimeout, Exit, StartupTypeOK
<1>8. ASSUME NEW p \in Processes, Crash(p) PROVE StartupTypeOK'
  BY <1>8, GotoType DEF Crash, Exit, StartupTypeOK
<1>12. ASSUME NEW p \in Processes, NewAuthMiddleware(p) PROVE StartupTypeOK'
  BY <1>12, GotoType DEF NewAuthMiddleware, StartupTypeOK
<1>9. CASE WebhookStart
  BY <1>0, <1>9 DEF WebhookStart, StartupTypeOK, Managed
<1>10. CASE WebhookCrash
  BY <1>0, <1>10 DEF WebhookCrash, StartupTypeOK
<1>11. QED
  BY <1>1, <1>2, <1>3, <1>4, <1>5, <1>6, <1>7, <1>8, <1>9, <1>10, <1>12
  DEF StartupNext, ProcessStep

\* Every step of the whole system keeps the types.
LEMMA TypeStep ==
  ASSUME TypeOK, [Next]_admissionVars
  PROVE  TypeOK'
<1>1. CASE UNCHANGED admissionVars
  BY <1>1 DEF admissionVars, startupVars, podVars, operatorVars, TypeOK, StartupTypeOK
<1>2. CASE StartupNext /\ UNCHANGED <<podVars, operatorVars>>
  BY <1>2, StartupTypeStep DEF TypeOK, podVars, operatorVars
<1>3. ASSUME UNCHANGED startupVars PROVE StartupTypeOK'
  BY <1>3 DEF startupVars, TypeOK, StartupTypeOK
<1>4. CASE ProvisionTenant
  BY <1>3, <1>4 DEF ProvisionTenant, operatorVars, TypeOK
<1>5. ASSUME NEW pod \in Pods, Submit(pod) PROVE TypeOK'
  BY <1>3, <1>5 DEF Submit, operatorVars, TypeOK, Configs, NoRequest
<1>6. CASE CallMutating
  <2>1. UNCHANGED <<labelled, operator, regenerations, admitted>> /\ StartupTypeOK'
    BY <1>3, <1>6 DEF CallMutating, Refuse, operatorVars
  <2>2. submitted \in Pods
    BY <1>6 DEF CallMutating, TypeOK, NoRequest
  <2>3. \/ request' = NoRequest /\ submitted' = NoPod
        \/ \E pod : /\ request' = [pod |-> pod, next |-> "validating"]
                    /\ submitted' = submitted
    <3>1. CASE request' = [request EXCEPT !.next = "validating"]
                 /\ UNCHANGED submitted
      BY <3>1 DEF TypeOK
    <3>2. QED
      BY <1>6, <3>1 DEF CallMutating, Refuse
  <2>4. QED
    BY <2>1, <2>2, <2>3 DEF TypeOK, Configs, NoRequest
<1>7. CASE CallValidating
  <2>1. UNCHANGED <<labelled, operator, regenerations>> /\ StartupTypeOK'
    BY <1>3, <1>7 DEF CallValidating, operatorVars
  <2>2. submitted \in Pods
    BY <1>7 DEF CallValidating, TypeOK, NoRequest
  <2>3. Admit \/ Refuse
    BY <1>7 DEF CallValidating
  <2>4. QED
    BY <2>1, <2>2, <2>3 DEF Admit, Refuse, TypeOK, NoRequest
<1>8. CASE Regenerate
  <2> USE RegenerationsAssumption
  <2>1. ASSUME NEW k \in {"validating", "mutating", "secret"},
               NEW command \in Commands, Delete(k, command)
        PROVE  StartupTypeOK' /\ UNCHANGED podVars /\ operator' \in Commands
    BY <2>1 DEF Delete, TypeOK, StartupTypeOK
  <2>2. CASE \E k \in {"validating", "mutating", "secret"}, command \in Commands :
               /\ Delete(k, command)
               /\ \/ UNCHANGED regenerations
                  \/ /\ regenerations < MaxRegenerations
                     /\ regenerations' = regenerations + 1
    BY <2>1, <2>2 DEF TypeOK, podVars
  <2>3. CASE operator = "restart" /\ operator' = "idle"
    <3>1. /\ proc' = [p \in Processes |-> IF p \in Controllers THEN At("down")
                                                              ELSE proc[p]]
          /\ UNCHANGED <<schema, lock, made, certs, served, crashes, podVars,
                         regenerations>>
      BY <1>8, <2>3 DEF Regenerate, Delete, Commands
    <3>2. At("down") \in ProcState /\ ~At("down").missing /\ At("down").ca = 0
      BY DEF At, ProcState, Stages
    <3>3. /\ proc' \in [Processes -> ProcState]
          /\ \A q \in Processes : proc'[q] \in {At("down"), proc[q]}
      BY <3>1, <3>2 DEF TypeOK, StartupTypeOK
    <3>4. StartupTypeOK'
      BY <3>1, <3>2, <3>3 DEF TypeOK, StartupTypeOK
    <3>5. QED
      BY <2>3, <3>1, <3>4 DEF TypeOK, podVars, Commands
  <2>4. CASE /\ regenerations < MaxRegenerations /\ regenerations' = regenerations + 1
             /\ Delete("validating", "deleteMutating")
    BY <2>2, <2>4 DEF Commands
  <2>5. CASE Delete("mutating", "deleteSecret") /\ UNCHANGED regenerations
    BY <2>2, <2>5 DEF Commands
  <2>6. CASE Delete("secret", "restart") /\ UNCHANGED regenerations
    BY <2>2, <2>6 DEF Commands
  <2>7. QED
    BY <1>8, <2>3, <2>4, <2>5, <2>6 DEF Regenerate
<1>9. QED
  BY <1>1, <1>2, <1>4, <1>5, <1>6, <1>7, <1>8 DEF Next, ApiServerCalls

\* The state is well typed in every behaviour; a process carries an answer only
\* within the ensure function that asked for it.
THEOREM TypeCorrect == Spec => []TypeOK
<1>1. Init => TypeOK
  <2> SUFFICES ASSUME Init PROVE TypeOK
    OBVIOUS
  <2> USE StartupBoundsAssumption, RegenerationsAssumption
  <2>1. At("down") \in ProcState /\ ~At("down").missing /\ At("down").ca = 0
    BY DEF At, ProcState, Stages
  <2>2. StartupTypeOK
    BY <2>1 DEF Init, StartupInit, StartupTypeOK
  <2>3. labelled \in BOOLEAN
    BY Zenon DEF Init
  <2>4. request = [pod |-> request.pod, next |-> request.next]
    BY DEF Init, NoRequest
  <2>5. regenerations \in 0..MaxRegenerations /\ operator \in Commands
    BY DEF Init, Commands
  <2>6. QED
    BY <2>2, <2>3, <2>4, <2>5 DEF Init, TypeOK
<1>2. QED
  BY <1>1, TypeStep, PTL DEF Spec

-----------------------------------------------------------------------------
(***************************************************************************)
(* The schema.                                                             *)
(***************************************************************************)
Working(p) == proc[p].stage \in Managed \cup {"auth", "running"}

\* No process works on a schema that is not there, however many start at once
\* and wherever they die.
THEOREM SchemaIsReady == Spec => []SchemaBeforeWork
<1>1. Init => SchemaBeforeWork
  BY DEF Init, StartupInit, At, SchemaBeforeWork, Managed
<1>2. TypeOK /\ SchemaBeforeWork /\ [Next]_admissionVars => SchemaBeforeWork'
  <2> SUFFICES ASSUME TypeOK, SchemaBeforeWork, [Next]_admissionVars
               PROVE  SchemaBeforeWork'
    OBVIOUS
  <2>1. proc \in [Processes -> ProcState]
    BY DEF TypeOK, StartupTypeOK
  <2>2. ASSUME UNCHANGED schema,
               \A p \in Processes : Working(p)' => Working(p)
        PROVE  SchemaBeforeWork'
    BY <2>2 DEF SchemaBeforeWork, Working
  <2>3. ASSUME NEW p \in Processes, NEW stage, Goto(p, stage)
        PROVE  /\ proc'[p].stage = stage
               /\ \A q \in Processes : q # p => proc'[q] = proc[q]
    BY <2>1, <2>3 DEF Goto, At
  <2>4. ASSUME NEW p \in Processes, Exit(p), UNCHANGED schema
        PROVE  SchemaBeforeWork'
    BY <2>2, <2>3, <2>4 DEF Exit, Working, Managed
  <2>5. ASSUME NEW p \in Processes, Start(p) PROVE SchemaBeforeWork'
    BY <2>2, <2>3, <2>5 DEF Start, Working, Managed
  <2>6. ASSUME NEW p \in Processes, RunMigrationsEmbedded(p)
        PROVE  SchemaBeforeWork'
    <3>1. CASE schema = "migrated"
      BY <2>6, <3>1 DEF RunMigrationsEmbedded, SchemaBeforeWork
    <3>2. CASE schema = "dirty"
      BY <2>4, <2>6, <3>2 DEF RunMigrationsEmbedded
    <3>3. CASE schema = "none"
      <4>1. Goto(p, "applying")
        BY <2>6, <3>3 DEF RunMigrationsEmbedded
      <4>2. \A q \in Processes : ~Working(q)'
        BY <2>3, <3>3, <4>1 DEF SchemaBeforeWork, Working, Managed
      <4>3. QED
        BY <4>2 DEF SchemaBeforeWork, Working
    <3>4. QED
      BY <3>1, <3>2, <3>3 DEF TypeOK, StartupTypeOK
  <2>7. ASSUME NEW p \in Processes, FinishMigration(p) PROVE SchemaBeforeWork'
    BY <2>7 DEF FinishMigration, SchemaBeforeWork
  <2>8. ASSUME NEW p \in Processes, readCA(p) PROVE SchemaBeforeWork'
    <3>1. CASE Exit(p)
      BY <2>4, <2>8, <3>1 DEF readCA
    <3>2. CASE proc' = [proc EXCEPT ![p].ca = made["secret"]]
      BY <2>1, <2>2, <2>8, <3>2 DEF readCA, Working, ProcState
    <3>3. QED
      BY <2>8, <3>1, <3>2 DEF readCA
  <2>9. ASSUME NEW p \in Processes, Get(p) \/ Create(p) \/ NewAuthMiddleware(p)
        PROVE  SchemaBeforeWork'
    BY <2>9 DEF Get, Create, NewAuthMiddleware, SchemaBeforeWork
  <2>10. ASSUME NEW p \in Processes, LockTimeout(p) \/ Crash(p)
         PROVE  SchemaBeforeWork'
    BY <2>4, <2>10 DEF LockTimeout, Crash
  <2>11. CASE WebhookStart \/ WebhookCrash
    BY <2>2, <2>11 DEF WebhookStart, WebhookCrash, Working
  <2>12. CASE UNCHANGED <<proc, schema>>
    BY <2>2, <2>12 DEF Working
  <2>13. CASE Regenerate
    <3>1. UNCHANGED schema /\ \A q \in Processes : proc'[q] \in {At("down"), proc[q]}
      BY <2>1, <2>13 DEF Regenerate, Delete
    <3>2. QED
      BY <2>2, <3>1 DEF Working, At, Managed
  <2>14. QED
    BY <2>5, <2>6, <2>7, <2>8, <2>9, <2>10, <2>11, <2>12, <2>13
    DEF Next, StartupNext, ProcessStep, ProvisionTenant, Submit, ApiServerCalls,
        CallMutating, CallValidating, startupVars, admissionVars
<1>3. QED
  BY <1>1, <1>2, TypeCorrect, PTL DEF Spec

-----------------------------------------------------------------------------
(***************************************************************************)
(* Certificates and pods, as long as nobody deletes what EnsureAll made.   *)
(* CertificatesAgree and AdmittedChecked rest on how far each process is:  *)
(* one that is past an object has seen it, and the CA it holds is that of  *)
(* the secret.  Both configurations exist before a controller runs, so     *)
(* before there is a namespace, so before there is a request.              *)
(***************************************************************************)
Past(p) ==
  /\ proc[p].stage \in {"deployment", "service"} \cup Configs => made["secret"] # 0
  /\ proc[p].stage = "mutating" => made["validating"] # 0
  /\ p \in Controllers /\ proc[p].stage = "running"
       => \A k \in Configs : made[k] # 0
  /\ p \in Controllers => proc[p].stage # "auth"
  /\ proc[p].ca # 0 => proc[p].ca = made["secret"]
  /\ proc[p].missing /\ proc[p].stage \in Configs => proc[p].ca # 0

Objects == /\ \A p \in Processes : Past(p)
           /\ \A k \in Configs : made[k] # 0 => made[k] = made["secret"]
           /\ served # 0 => served = made["secret"]

PodsSeen ==
  /\ labelled => \A k \in Configs : made[k] # 0
  /\ request.next # "none" => labelled
  /\ request.next = "mutating" => request.pod = submitted
  /\ request.next = "validating" => request.pod = mutatePodHandler(TenantNs, submitted)
  /\ \A a \in admitted : Compliant(a[2]) /\ a[2] = mutatePodHandler(TenantNs, a[1])

Undisturbed == regenerations = 0 => operator = "idle" /\ Objects /\ PodsSeen

\* Objects is kept by a step that changes no object and takes the process p alone
\* to a place it may be in.
LEMMA ObjectsKept ==
  ASSUME TypeOK, Objects, UNCHANGED <<made, served>>, NEW p \in Processes,
         \A q \in Processes : q # p => proc'[q] = proc[q], Past(p)'
  PROVE  Objects'
BY DEF Objects, Past

\* Every step of the platform's start keeps Objects, and no object goes away.
LEMMA ObjectsStep ==
  ASSUME TypeOK, Objects, StartupNext
  PROVE  /\ Objects'
         /\ \A k \in Managed : made[k] # 0 => made'[k] # 0
<1>0. /\ proc \in [Processes -> ProcState] /\ made \in [Managed -> Nat]
      /\ certs \in Nat
  BY StartupBoundsAssumption DEF TypeOK, StartupTypeOK
<1>1. ASSUME NEW p \in Processes, NEW stage, Goto(p, stage)
      PROVE  /\ proc'[p].stage = stage /\ proc'[p].ca = 0 /\ ~proc'[p].missing
             /\ \A q \in Processes : q # p => proc'[q] = proc[q]
  BY <1>0, <1>1 DEF Goto, At
<1>2. ASSUME NEW p \in Processes, Goto(p, "down") \/ Goto(p, "migrate")
               \/ Goto(p, "applying"), UNCHANGED <<made, served>>
      PROVE  Objects'
  <2>1. Past(p)'
    BY <1>1, <1>2 DEF Past, Configs
  <2>2. QED
    BY <1>1, <1>2, <2>1, ObjectsKept
<1>3. ASSUME NEW p \in Processes, Goto(p, AfterMigrations(p)),
             UNCHANGED <<made, served>>
      PROVE  Objects'
  <2>1. proc'[p].stage = AfterMigrations(p) /\ proc'[p].ca = 0
        /\ ~proc'[p].missing /\ \A q \in Processes : q # p => proc'[q] = proc[q]
    BY <1>1, <1>3
  <2>2. Past(p)'
    BY <2>1 DEF Past, AfterMigrations, Configs
  <2>3. QED
    BY <1>3, <2>1, <2>2, ObjectsKept
<1>4. ASSUME NEW p \in Processes, Start(p) \/ LockTimeout(p) \/ Crash(p)
      PROVE  Objects' /\ UNCHANGED made
  BY <1>2, <1>4 DEF Start, LockTimeout, Crash, Exit
<1>5. ASSUME NEW p \in Processes, RunMigrationsEmbedded(p) \/ FinishMigration(p)
      PROVE  Objects' /\ UNCHANGED made
  BY <1>2, <1>3, <1>5 DEF RunMigrationsEmbedded, FinishMigration, Exit
<1>12. ASSUME NEW p \in Processes, NewAuthMiddleware(p) PROVE Objects' /\ UNCHANGED made
  <2>1. Goto(p, "running") /\ UNCHANGED <<made, served>> /\ p \notin Controllers
    BY <1>12 DEF NewAuthMiddleware, Objects, Past
  <2>2. Past(p)'
    BY <1>1, <2>1 DEF Past, Configs
  <2>3. QED
    BY <1>1, <2>1, <2>2, ObjectsKept
<1>6. ASSUME NEW p \in Processes, readCA(p) PROVE Objects' /\ UNCHANGED made
  <2>1. UNCHANGED <<made, served>> /\ proc[p].stage \in Configs
    BY <1>6 DEF readCA
  <2>2. CASE Exit(p)
    BY <1>2, <2>1, <2>2 DEF Exit
  <2>3. CASE proc' = [proc EXCEPT ![p].ca = made["secret"]]
    <3>1. /\ proc'[p].stage = proc[p].stage /\ proc'[p].ca = made["secret"]
          /\ \A q \in Processes : q # p => proc'[q] = proc[q]
      BY <1>0, <2>3 DEF ProcState
    <3>2. Past(p)
      BY DEF Objects
    <3>3. Past(p)'
      BY <2>1, <3>1, <3>2 DEF Past
    <3>4. QED
      BY <2>1, <3>1, <3>3, ObjectsKept
  <2>4. QED
    BY <1>6, <2>2, <2>3 DEF readCA
<1>7. ASSUME NEW p \in Processes, NEW k \in Managed, proc[p].stage = k,
             made[k] # 0, Past(p), k = "mutating" => made["validating"] # 0,
             k \in Configs => made["secret"] # 0
      PROVE  LET next == NextStage[k]
             IN /\ next \in {"deployment", "service"} \cup Configs
                     => made["secret"] # 0
                /\ next = "mutating" => made["validating"] # 0
                /\ next = "running" => \A c \in Configs : made[c] # 0
                /\ next # "auth"
  BY <1>7 DEF NextStage, Managed, Configs, Past
<1>8. ASSUME NEW p \in Processes, Get(p) PROVE Objects' /\ UNCHANGED made
  <2> DEFINE k == proc[p].stage
  <2>1. UNCHANGED <<made, served>> /\ k \in Managed /\ Past(p)
    BY <1>8 DEF Get, Objects
  <2>2. CASE made[k] # 0 /\ Goto(p, NextStage[k])
    <3>1. /\ proc'[p].stage = NextStage[k] /\ proc'[p].ca = 0 /\ ~proc'[p].missing
          /\ \A q \in Processes : q # p => proc'[q] = proc[q]
      BY <1>1, <2>2
    <3>2. /\ k = "mutating" => made["validating"] # 0
          /\ k \in Configs => made["secret"] # 0
      BY <2>1 DEF Past
    <3>3. Past(p)'
      BY <1>7, <2>1, <2>2, <3>1, <3>2 DEF Past
    <3>4. QED
      BY <2>1, <3>1, <3>3, ObjectsKept
  <2>3. CASE proc' = [proc EXCEPT ![p].missing = TRUE]
    <3>1. /\ proc'[p].stage = proc[p].stage /\ proc'[p].ca = proc[p].ca
          /\ \A q \in Processes : q # p => proc'[q] = proc[q]
      BY <1>0, <2>3 DEF ProcState
    <3>2. Past(p)'
      BY <1>8, <2>1, <3>1 DEF Past, Get
    <3>3. QED
      BY <2>1, <3>1, <3>2, ObjectsKept
  <2>4. QED
    BY <1>8, <2>2, <2>3 DEF Get
<1>9. ASSUME NEW p \in Processes, Create(p)
      PROVE  Objects' /\ \A k \in Managed : made[k] # 0 => made'[k] # 0
  <2> DEFINE k == proc[p].stage
  <2>1. UNCHANGED served /\ k \in Managed /\ Past(p)
    BY <1>9 DEF Create, Objects
  <2>2. CASE Exit(p) /\ UNCHANGED made
    BY <1>2, <2>1, <2>2 DEF Exit
  <2>3. CASE /\ made[k] = 0 /\ made' = [made EXCEPT ![k] = Content(p, k)]
             /\ Goto(p, NextStage[k])
    <3>1. /\ proc'[p].stage = NextStage[k] /\ proc'[p].ca = 0 /\ ~proc'[p].missing
          /\ \A q \in Processes : q # p => proc'[q] = proc[q]
      BY <1>1, <2>3
    <3>2. /\ \A j \in Managed : j # k => made'[j] = made[j]
          /\ made'[k] = Content(p, k)
      BY <1>0, <2>1, <2>3
    <3>3. /\ k = "mutating" => made["validating"] # 0
          /\ k \in Configs => made["secret"] # 0
      BY <2>1 DEF Past
    <3>4. CASE k = "secret"
      <4>1. made'["secret"] = certs + 1 /\ made["secret"] = 0
        BY <2>3, <3>2, <3>4 DEF Content, Configs
      <4>2. \A j \in Configs : made[j] = 0 /\ made'[j] = 0
        BY <3>2, <3>4, <4>1 DEF Objects, Configs, Managed
      <4>3. \A q \in Processes : proc[q].ca = 0
        BY <1>0, <4>1 DEF Objects, Past, ProcState
      <4>4. \A q \in Processes : q # p => Past(q)'
        BY <1>0, <3>1, <4>1, <4>2, <4>3 DEF Objects, Past, Configs
      <4>5. proc'[p].stage = "deployment"
        BY <3>1, <3>4 DEF NextStage
      <4>6. Past(p)'
        BY <1>0, <3>1, <4>1, <4>5 DEF Past, Configs
      <4>7. served = 0
        BY <4>1 DEF Objects
      <4>8. Objects'
        BY <2>1, <4>2, <4>4, <4>6, <4>7 DEF Objects
      <4>9. QED
        BY <1>0, <3>2, <3>4, <4>1, <4>8
    <3>5. CASE k # "secret"
      <4>1. made'["secret"] = made["secret"]
        BY <3>2, <3>5 DEF Managed
      <4>2. proc[p].missing
        BY <1>9 DEF Create
      <4>3. k \in Configs => Content(p, k) = made["secret"] /\ made["secret"] # 0
        BY <2>1, <3>3, <3>5, <4>2 DEF Content, Past, Configs
      <4>4. Content(p, k) # 0
        BY <3>5, <4>3 DEF Content
      <4>5. \A j \in Managed : made[j] # 0 => made'[j] # 0
        BY <3>2, <4>4
      <4>6. \A q \in Processes : q # p => Past(q)'
        BY <3>1, <4>1, <4>5 DEF Objects, Past, Configs, Managed
      <4>7. Past(p)'
        BY <2>1, <3>1, <3>2, <3>3, <3>5, <4>1, <4>4, <4>5
        DEF Past, NextStage, Managed, Configs
      <4>8. \A j \in Configs : made'[j] # 0 => made'[j] = made'["secret"]
        BY <3>2, <4>1, <4>3 DEF Objects, Configs, Managed
      <4>9. Objects'
        BY <2>1, <4>1, <4>6, <4>7, <4>8 DEF Objects
      <4>10. QED
        BY <4>5, <4>9
    <3>6. QED
      BY <3>4, <3>5
  <2>4. QED
    BY <1>9, <2>2, <2>3 DEF Create
<1>10. CASE WebhookStart \/ WebhookCrash
  BY <1>10 DEF WebhookStart, WebhookCrash, Objects, Past
<1>11. QED
  BY <1>4, <1>5, <1>6, <1>8, <1>9, <1>10, <1>12 DEF StartupNext, ProcessStep

\* A step that is not the operator's keeps Undisturbed, and the operator's first
\* step counts.
LEMMA UndisturbedStep ==
  ASSUME TypeOK, Undisturbed, [Next]_admissionVars, regenerations' = 0
  PROVE  Undisturbed'
<1>0. /\ made \in [Managed -> Nat] /\ regenerations \in Nat
      /\ Configs \subseteq Managed
  BY RegenerationsAssumption DEF TypeOK, StartupTypeOK, Configs, Managed
<1>1. ASSUME UNCHANGED <<startupVars, operatorVars>> PROVE
        regenerations = 0 /\ Objects /\ PodsSeen /\ Objects' /\ operator' = "idle"
  BY <1>1 DEF Undisturbed, Objects, Past, startupVars, operatorVars
<1>2. CASE StartupNext /\ UNCHANGED <<podVars, operatorVars>>
  <2>1. Objects /\ PodsSeen /\ operator' = "idle"
    BY <1>2 DEF Undisturbed, operatorVars
  <2>2. Objects' /\ \A k \in Managed : made[k] # 0 => made'[k] # 0
    BY <1>2, <2>1, ObjectsStep
  <2>3. PodsSeen'
    BY <1>0, <1>2, <2>1, <2>2 DEF PodsSeen, podVars
  <2>4. QED
    BY <2>1, <2>2, <2>3 DEF Undisturbed
<1>3. CASE ProvisionTenant
  <2>1. /\ Objects /\ PodsSeen /\ Objects' /\ operator' = "idle"
        /\ UNCHANGED <<made, request, submitted, admitted>>
    BY <1>1, <1>3 DEF ProvisionTenant, startupVars
  <2>2. \A k \in Configs : made'[k] # 0
    BY <1>3, <2>1 DEF ProvisionTenant, Objects, Past, Running, Processes
  <2>3. PodsSeen'
    BY <1>3, <2>1, <2>2 DEF PodsSeen, ProvisionTenant
  <2>4. QED
    BY <2>1, <2>3 DEF Undisturbed
<1>4. ASSUME NEW pod \in Pods, Submit(pod) PROVE Undisturbed'
  <2>1. /\ Objects /\ PodsSeen /\ Objects' /\ operator' = "idle"
        /\ UNCHANGED <<made, labelled, admitted>> /\ labelled
        /\ request'.pod = pod /\ request'.next = "mutating" /\ submitted' = pod
    BY <1>1, <1>4 DEF Submit, startupVars
  <2>2. PodsSeen'
    BY <2>1 DEF PodsSeen
  <2>3. QED
    BY <2>1, <2>2 DEF Undisturbed
<1>5. CASE CallMutating
  <2>1. /\ Objects /\ PodsSeen /\ Objects' /\ operator' = "idle"
        /\ UNCHANGED <<made, labelled, admitted>>
    BY <1>1, <1>5 DEF CallMutating, Refuse, startupVars
  <2>2. /\ made["mutating"] # 0 /\ labelled /\ request.pod = submitted
    BY <1>5, <2>1 DEF CallMutating, PodsSeen, Configs
  <2>3. CASE /\ request' = [pod  |-> mutatePodHandler(TenantNs, request.pod),
                            next |-> "validating"]
             /\ UNCHANGED submitted
    <3>1. /\ request'.next = "validating"
          /\ request'.pod = mutatePodHandler(TenantNs, submitted)
      BY <2>2, <2>3
    <3>2. PodsSeen'
      BY <2>1, <2>2, <2>3, <3>1 DEF PodsSeen
    <3>3. QED
      BY <2>1, <3>2 DEF Undisturbed
  <2>4. CASE Refuse
    BY <2>1, <2>4 DEF Undisturbed, PodsSeen, Refuse, NoRequest
  <2>5. QED
    BY <1>5, <2>2, <2>3, <2>4 DEF CallMutating
<1>6. CASE CallValidating
  <2>1. /\ Objects /\ PodsSeen /\ Objects' /\ operator' = "idle"
        /\ UNCHANGED <<made, labelled>>
    BY <1>1, <1>6 DEF CallValidating, startupVars
  <2>2. /\ made["validating"] # 0
        /\ request.pod = mutatePodHandler(TenantNs, submitted)
    BY <1>6, <2>1 DEF CallValidating, PodsSeen, Configs
  <2>3. CASE Refuse
    BY <2>1, <2>3 DEF Undisturbed, PodsSeen, Refuse, NoRequest
  <2>4. CASE validatePodHandler(TenantNs, request.pod) /\ Admit
    <3>1. Compliant(request.pod)
      BY <2>4, TenantNsAssumption, ChecksMatchTable
      DEF validatePodHandler, RulesMatchTable
    <3>2. PodsSeen'
      BY <2>1, <2>2, <2>4, <3>1 DEF PodsSeen, Admit, NoRequest
    <3>3. QED
      BY <2>1, <3>2 DEF Undisturbed
  <2>5. QED
    BY <1>6, <2>2, <2>3, <2>4 DEF CallValidating
<1>7. CASE Regenerate
  BY <1>0, <1>7 DEF Regenerate, Undisturbed
<1>8. CASE UNCHANGED admissionVars
  <2>1. /\ Objects /\ PodsSeen /\ Objects' /\ operator' = "idle"
        /\ UNCHANGED <<made, podVars>>
    BY <1>1, <1>8 DEF admissionVars, startupVars
  <2>2. QED
    BY <2>1 DEF Undisturbed, PodsSeen, podVars
<1>9. QED
  BY <1>2, <1>3, <1>4, <1>5, <1>6, <1>7, <1>8 DEF Next, ApiServerCalls

\* As long as nobody deletes what EnsureAll made, Undisturbed holds.
LEMMA Undisturbing == Spec => []Undisturbed
<1>1. Init => Undisturbed
  BY DEF Init, StartupInit, Undisturbed, Objects, Past, PodsSeen, NoRequest, At,
         Configs, Managed
<1>2. TypeOK /\ Undisturbed /\ [Next]_admissionVars => Undisturbed'
  <2>1. ASSUME regenerations' # 0 PROVE Undisturbed'
    BY <2>1 DEF Undisturbed
  <2>2. QED
    BY <2>1, UndisturbedStep
<1>3. QED
  BY <1>1, <1>2, TypeCorrect, PTL DEF Spec

\* However many controllers start at once, and whichever of them die or lose the
\* race to create an object: both configurations trust the secret's certificate,
\* and the webhook server presents it.
THEOREM CertificatesSound == Spec => []CertificatesAgree
<1>1. Undisturbed => CertificatesAgree
  BY DEF Undisturbed, Objects, CertificatesAgree
<1>2. QED
  BY <1>1, Undisturbing, PTL

\* No pod, of any shape, is stored in a tenant's namespace unchecked or unlabelled.
THEOREM NoPodUnseen == Spec => []AdmittedChecked
<1>1. Undisturbed => AdmittedChecked
  BY DEF Undisturbed, PodsSeen, AdmittedChecked
<1>2. QED
  BY <1>1, Undisturbing, PTL

=============================================================================
