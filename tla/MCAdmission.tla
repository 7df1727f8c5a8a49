---------------------------- MODULE MCAdmission ----------------------------
(***************************************************************************)
(* Small instances of Admission.                                           *)
(***************************************************************************)
EXTENDS Admission

TenantAX == <<"tenant", "a", "x">>

Good == [limits |-> {"cpu", "memory"}, securityContext |-> TRUE,
         privileged |-> "nil", runAsNonRoot |-> "true", runAsUser |-> "nil",
         readOnlyRootFilesystem |-> "true", allowPrivilegeEscalation |-> "false"]

GoodPod == [containers |-> {Good}, initContainers |-> {},
            ephemeralContainers |-> {}, labels |-> {<<"app", "web">>}]

OnlyGood == {GoodPod}

\* The first pod does not say that it runs as another user than root.  The second
\* is refused for its init container alone.
UnsetAndBad ==
  {[GoodPod EXCEPT !.containers = {[Good EXCEPT !.runAsNonRoot = "nil"]}],
   [GoodPod EXCEPT !.initContainers = {[Good EXCEPT !.privileged = "true"]}]}

=============================================================================
