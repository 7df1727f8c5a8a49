------------------------------ MODULE PodRules ------------------------------
(***************************************************************************)
(* The decisions of the admission webhook (cmd/webhook): which namespaces  *)
(* it looks at, which pods it accepts and how it labels them, as pure      *)
(* operators.                                                              *)
(*                                                                         *)
(* A container keeps what the checks read: the resources it has a non-zero *)
(* limit for, whether it has a security context, and of that the pointers  *)
(* to booleans ("nil", "true", "false") and the user ("nil", "root",       *)
(* "other").  A nil and an empty limits map are refused alike.  A pod has  *)
(* containers in three places, and labels.  A namespace is the sequence of *)
(* its dash-separated parts.                                               *)
(***************************************************************************)
EXTENDS Naturals, Sequences

BoolPtr == {"nil", "true", "false"}

Container == [limits : SUBSET {"cpu", "memory"}, securityContext : BOOLEAN,
              privileged : BoolPtr, runAsNonRoot : BoolPtr,
              runAsUser : {"nil", "root", "other"},
              readOnlyRootFilesystem : BoolPtr,
              allowPrivilegeEscalation : BoolPtr]

Places == {"containers", "initContainers", "ephemeralContainers"}

\* The system namespaces of the code do not begin with "tenant-" anyway.
shouldValidateNamespace(ns) == Len(ns) > 1 /\ ns[1] = "tenant"

validateContainer(c) ==
  /\ {"cpu", "memory"} \subseteq c.limits
  /\ c.securityContext
  /\ c.privileged # "true" /\ c.runAsNonRoot # "false" /\ c.runAsUser # "root"
  /\ c.readOnlyRootFilesystem = "true"
  /\ c.allowPrivilegeEscalation = "false"

\* A second copy of the same checks.  A pod is created without any such container,
\* and pods/ephemeralcontainers, through which one comes later, is no resource of
\* the configurations' rules: these checks see only the updates of other fields.
validateEphemeralContainer(c) ==
  /\ {"cpu", "memory"} \subseteq c.limits
  /\ c.securityContext
  /\ c.privileged # "true" /\ c.runAsNonRoot # "false" /\ c.runAsUser # "root"
  /\ c.readOnlyRootFilesystem = "true"
  /\ c.allowPrivilegeEscalation = "false"

\* (mutant) init containers are not looked at.
validatePodResourceNoInit(pod) ==
  /\ \A c \in pod.containers : validateContainer(c)
  /\ \A c \in pod.ephemeralContainers : validateEphemeralContainer(c)

validatePodResource(pod) ==
  /\ \A c \in pod.containers : validateContainer(c)
  /\ \A c \in pod.initContainers : validateContainer(c)
  /\ \A c \in pod.ephemeralContainers : validateEphemeralContainer(c)

validatePodHandler(ns, pod) ==
  shouldValidateNamespace(ns) => validatePodResource(pod)

\* The first patch puts an empty map in place of the pod's labels.  The second
\* and third label it with the two parts of the namespace's name after "tenant",
\* whatever they were made of.
mutatePodHandler(ns, pod) ==
  IF shouldValidateNamespace(ns)
    THEN [pod EXCEPT !.labels = {<<"name", ns[2]>>, <<"tier", ns[3]>>}]
    ELSE pod

-----------------------------------------------------------------------------
\* The README's table of blocked configurations.  Its list of features says more:
\* "Non-root containers (runAsNonRoot: true)".  An unset value is not blocked.
Blocked(c) == \/ c.privileged = "true"
              \/ c.runAsNonRoot = "false" \/ c.runAsUser = "root"
              \/ ~c.securityContext
              \/ c.readOnlyRootFilesystem # "true"
              \/ c.allowPrivilegeEscalation # "false"
              \/ "cpu" \notin c.limits \/ "memory" \notin c.limits

Compliant(pod) == \A place \in Places : \A c \in pod[place] : ~Blocked(c)

\* Early returns, unset pointers, zero quantities and two copies of the checks
\* included, the handler accepts a tenant's pod if and only if no container of
\* any kind is blocked by the table.
RulesMatchTable ==
  \A pod : validatePodResource(pod) <=> Compliant(pod)

=============================================================================
