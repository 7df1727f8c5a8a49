----------------------------- MODULE Admission -----------------------------
(***************************************************************************)
(* Pods on their way into a tenant namespace: the Kubernetes API server    *)
(* calls the mutating and then the validating webhook (cmd/webhook) as the *)
(* two configurations that the webhook manager created tell it to, and     *)
(* stores the pod if both let it pass.  FailurePolicy is Fail: a webhook   *)
(* that cannot be reached refuses the pod.  A configuration that does not  *)
(* exist is not called.                                                    *)
(*                                                                         *)
(* The operator may follow the README's "Webhook TLS certificate issues":  *)
(* delete both configurations and the secret and restart the controller.   *)
(***************************************************************************)
EXTENDS Startup, PodRules

CONSTANTS TenantNs,        \* the namespace of a tenant
          Pods,            \* the pods that are created
          NoPod,           \* no request is in flight
          MaxRegenerations \* bound: how often the operator regenerates

\* NsName of the reconciler begins with "tenant-".
ASSUME TenantNsAssumption == shouldValidateNamespace(TenantNs)

ASSUME RegenerationsAssumption == MaxRegenerations \in Nat

VARIABLES labelled,  \* a controller has created the namespace, with its label
          request,   \* the pod being admitted and the webhook to call next
          submitted, \* that pod as its author sent it
          admitted,  \* <<pod as sent, pod as stored>>
          operator,  \* the operator's next command
          regenerations

podVars == <<labelled, request, submitted, admitted>>

operatorVars == <<operator, regenerations>>

admissionVars == <<startupVars, podVars, operatorVars>>

Commands == {"idle", "deleteMutating", "deleteSecret", "restart"}

NoRequest == [pod |-> NoPod, next |-> "none"]

TypeOK == /\ StartupTypeOK
          /\ labelled \in BOOLEAN
          /\ request = [pod |-> request.pod, next |-> request.next]
          /\ \/ request = NoRequest /\ submitted = NoPod
             \/ request.next \in Configs /\ submitted \in Pods
          /\ \A a \in admitted : a[1] \in Pods
          /\ operator \in Commands
          /\ regenerations \in 0..MaxRegenerations

Init == /\ StartupInit
        /\ labelled = FALSE
        /\ request = NoRequest /\ submitted = NoPod
        /\ admitted = {}
        /\ operator = "idle" /\ regenerations = 0

-----------------------------------------------------------------------------
\* Only after EnsureAll does mgr.Start let the reconciler create namespaces.
ProvisionTenant == /\ ~labelled
                   /\ \E p \in Controllers : Running(p)
                   /\ labelled' = TRUE
                   /\ UNCHANGED <<startupVars, request, submitted, admitted,
                                  operatorVars>>

Submit(pod) == /\ labelled
               /\ request = NoRequest
               /\ \A a \in admitted : a[1] # pod
               /\ request' = [pod |-> pod, next |-> "mutating"]
               /\ submitted' = pod
               /\ UNCHANGED <<startupVars, labelled, admitted, operatorVars>>

Refuse == request' = NoRequest /\ submitted' = NoPod /\ UNCHANGED admitted

\* strings.Split(namespace, "-")[2] is out of range: the handler panics.
MutatePanics(ns) == shouldValidateNamespace(ns) /\ Len(ns) < 3

CallMutating ==
  /\ request.next = "mutating"
  /\ \/ /\ made["mutating"] = 0
        /\ request' = [request EXCEPT !.next = "validating"]
        /\ UNCHANGED <<submitted, admitted>>
     \/ /\ made["mutating"] # 0 /\ Reaches("mutating") /\ ~MutatePanics(TenantNs)
        /\ request' = [pod  |-> mutatePodHandler(TenantNs, request.pod),
                       next |-> "validating"]
        /\ UNCHANGED <<submitted, admitted>>
     \/ /\ made["mutating"] # 0
        /\ ~Reaches("mutating") \/ MutatePanics(TenantNs)
        /\ Refuse
  /\ UNCHANGED <<startupVars, labelled, operatorVars>>

Admit == /\ admitted' = admitted \cup {<<submitted, request.pod>>}
         /\ request' = NoRequest /\ submitted' = NoPod

CallValidating ==
  /\ request.next = "validating"
  /\ LET passes == \/ made["validating"] = 0
                   \/ /\ Reaches("validating")
                      /\ validatePodHandler(TenantNs, request.pod)
     IN IF passes THEN Admit ELSE Refuse
  /\ UNCHANGED <<startupVars, labelled, operatorVars>>

-----------------------------------------------------------------------------
(***************************************************************************)
(* The operator.                                                           *)
(***************************************************************************)
Delete(k, command) == /\ made' = [made EXCEPT ![k] = 0]
                      /\ operator' = command
                      /\ UNCHANGED <<proc, schema, lock, certs, served, crashes,
                                     podVars>>

Regenerate ==
  \/ /\ operator = "idle" /\ regenerations < MaxRegenerations
     /\ \A p \in Controllers : Running(p)
     /\ Delete("validating", "deleteMutating")
     /\ regenerations' = regenerations + 1
  \/ /\ operator = "deleteMutating" /\ Delete("mutating", "deleteSecret")
     /\ UNCHANGED regenerations
  \/ /\ operator = "deleteSecret" /\ Delete("secret", "restart")
     /\ UNCHANGED regenerations
  \/ /\ operator = "restart" /\ operator' = "idle"
     /\ proc' = [p \in Processes |-> IF p \in Controllers THEN At("down")
                                                         ELSE proc[p]]
     /\ UNCHANGED <<schema, lock, made, certs, served, crashes, podVars,
                    regenerations>>

CompliantPods == {pod \in Pods : Compliant(pod)}

ApiServerCalls == CallMutating \/ CallValidating

Next == \/ StartupNext /\ UNCHANGED <<podVars, operatorVars>>
        \/ ProvisionTenant
        \/ \E pod \in Pods : Submit(pod)
        \/ ApiServerCalls
        \/ Regenerate

(***************************************************************************)
(* Processes that do not crash go on, those that are down are restarted,   *)
(* the API server answers, an operator who has begun goes through with it, *)
(* and a compliant pod is submitted again when it was refused.             *)
(***************************************************************************)
Fairness == /\ \A p \in Processes : WF_admissionVars(ProcessStep(p)
                                      /\ UNCHANGED <<podVars, operatorVars>>)
            /\ WF_admissionVars(WebhookStart /\ UNCHANGED <<podVars, operatorVars>>)
            /\ WF_admissionVars(ProvisionTenant)
            /\ \A pod \in CompliantPods : SF_admissionVars(Submit(pod))
            /\ WF_admissionVars(ApiServerCalls)
            /\ WF_admissionVars(Regenerate /\ operator # "idle")

Spec == Init /\ [][Next]_admissionVars /\ Fairness

-----------------------------------------------------------------------------
\* No process works on a schema that is not there: also when another process
\* dies between marking the schema dirty and finishing the migration.
SchemaBeforeWork ==
  \A p \in Processes : proc[p].stage \in Managed \cup {"auth", "running"}
                         => schema = "migrated"

\* Whatever controllers start at the same time, overwriting nothing, both
\* configurations trust the certificate in the secret, and so the server that
\* loads it; as long as nobody deletes any of them.
CertificatesAgree ==
  regenerations = 0 =>
    /\ \A k \in Configs : made[k] # 0 => made[k] = made["secret"]
    /\ served # 0 => served = made["secret"]

\* Every pod created in a tenant namespace has been seen by both webhooks: it has
\* none of the configurations in the README's table of blocked ones, and it
\* carries the labels.  There is no moment, from the first start of the first
\* controller on, at which a tenant namespace exists and a webhook is not called,
\* as long as nobody deletes the configurations.  This is not the README's
\* "Non-root containers (runAsNonRoot: true)": the table, like the code, lets an
\* unset value pass.  Nor is it about ephemeral containers, which reach a pod
\* later, through a subresource that the configurations' rules do not name.
AdmittedChecked ==
  regenerations = 0 =>
    \A a \in admitted : Compliant(a[2]) /\ a[2] = mutatePodHandler(TenantNs, a[1])

\* Every process comes up for good, after losing races to create an object,
\* waiting for the migration lock or fetching Dex's keys in vain, unless a process that died in the
\* middle of the migration has left the schema dirty: then none does.
UpUnlessDirty ==
  \A p \in Processes : <>[]Running(p) \/ <>[](schema = "dirty")

\* Somebody regenerated the certificates, and the webhook server or one of the
\* configurations is left with a former one.
FormerCertificate == /\ regenerations > 0
                     /\ \E k \in Configs : served # 0 /\ made[k] \notin {0, served}

\* A pod that the README's table does not block and that is submitted again and
\* again is stored in the end, also one that does not set runAsNonRoot, after any
\* crashes of controllers and webhook server; two things alone can prevent
\* it for good: a dirty schema, and a former certificate still in use.
CompliantAdmitted ==
  \A pod \in CompliantPods :
    \/ <>(\E a \in admitted : a[1] = pod)
    \/ <>[](schema = "dirty")
    \/ <>[]FormerCertificate

\* README, "Webhook TLS certificate issues: Delete and regenerate": the procedure
\* gets a webhook that works, to which the API server gets through again.
RegenerationHeals == <>[](\A k \in Configs : Reaches(k))

=============================================================================
