-------------------------- MODULE TenantResources --------------------------
(***************************************************************************)
(* What the controller builds for a tenant and how it recognises drift:    *)
(* the build... and ...NeedsUpdate functions of tenant_reconciler.go, as   *)
(* pure operators on records.                                              *)
(*                                                                         *)
(* A Kubernetes object is abstracted to                                    *)
(*   kind, ns   what it is and the namespace it lives in (or names),       *)
(*   of         the part of its name that depends on the tenant,           *)
(*   owner      the uid in its only owner reference,                       *)
(*   val        the content its NeedsUpdate function compares,             *)
(*   hidden     TRUE when content that function does not compare differs   *)
(*              from what the build function produced.                     *)
(* Names are sequences of dash-free parts, as in TenantStore.              *)
(***************************************************************************)
EXTENDS Naturals, Sequences

Kinds == {"Namespace", "Quota", "AdminRole", "OperatorRole",
          "AdminRoleBinding", "OperatorRoleBinding",
          "NetworkPolicy", "LimitRange"}

RoleKinds == {"AdminRole", "OperatorRole"}

BindingKinds == {"AdminRoleBinding", "OperatorRoleBinding"}

\* fmt.Sprintf("tenant-%s-%s", t.Name, t.Spec.Name)
NsName(t) == t.name \o t.specName

Object(kind, t, of, val) ==
  [kind |-> kind, ns |-> NsName(t), of |-> of, owner |-> t.uid,
   val |-> val, hidden |-> FALSE]

buildNamespace(t) == Object("Namespace", t, <<>>, "built")

\* The three quotas differ in their name, tenant-quota-<tier>, and in their
\* hard limits: of and val are both the tier.
buildFreeTier(t) == Object("Quota", t, <<"free">>, "free")

buildProTier(t) == Object("Quota", t, <<"pro">>, "pro")

buildEnterpriseTier(t) == Object("Quota", t, <<"enterprise">>, "enterprise")

\* The CRD admits no other tier, so the nil of the default case never occurs.
buildResourceQuota(t) == CASE t.tier = "free" -> buildFreeTier(t)
                           [] t.tier = "pro"  -> buildProTier(t)
                           [] OTHER           -> buildEnterpriseTier(t)

\* Role and binding names, subjects and roleRef all derive from t.Name.
buildAdminRole(t) == Object("AdminRole", t, t.name, "built")

buildOperatorRole(t) == Object("OperatorRole", t, t.name, "built")

buildAdminRoleBinding(t) == Object("AdminRoleBinding", t, t.name, "built")

buildOperatorRoleBinding(t) ==
  Object("OperatorRoleBinding", t, t.name, "built")

buildNetworkPolicy(t) == Object("NetworkPolicy", t, <<>>, "built")

\* Its default and defaultRequest are the tier's entry of the configuration.
buildLimitRange(t) == Object("LimitRange", t, <<>>, t.tier)

Build(kind, t) ==
  CASE kind = "Namespace"           -> buildNamespace(t)
    [] kind = "Quota"               -> buildResourceQuota(t)
    [] kind = "AdminRole"           -> buildAdminRole(t)
    [] kind = "OperatorRole"        -> buildOperatorRole(t)
    [] kind = "AdminRoleBinding"    -> buildAdminRoleBinding(t)
    [] kind = "OperatorRoleBinding" -> buildOperatorRoleBinding(t)
    [] kind = "NetworkPolicy"       -> buildNetworkPolicy(t)
    [] OTHER                        -> buildLimitRange(t)

-----------------------------------------------------------------------------
\* (mutant) the namespace is not part of the key.
SameKeyAnyNamespace(o, d) == o.kind = d.kind /\ o.of = d.of

\* client.ObjectKeyFromObject, per kind.
SameKey(o, d) == o.kind = d.kind /\ o.ns = d.ns /\ o.of = d.of

\* Labels, annotations and owner references are compared.  (The label the API
\* server adds to every namespace makes this TRUE more often; the update it
\* then causes changes nothing.)
nsNeedsUpdate(o, d) == o.val # d.val \/ o.owner # d.owner

rqNeedsUpdate(o, d) == o.val # d.val \/ o.owner # d.owner

\* (mutant) the rules are not compared.
roleNeedsUpdateNoRules(o, d) == o.owner # d.owner

\* normalizeRule collects resourceNames and leaves them out of its key: a rule
\* narrowed by resourceNames is hidden drift.
roleNeedsUpdate(o, d) == o.val # d.val \/ o.owner # d.owner

\* (mutant) owner references are not compared, as in npNeedsUpdate.
rbNeedsUpdateNoOwner(o, d) == o.val # d.val

rbNeedsUpdate(o, d) == o.val # d.val \/ o.owner # d.owner

\* Only the numbers of policy types, ingress and egress rules are compared:
\* what the rules admit is hidden, and the owner is ignored.
npNeedsUpdate(o, d) == o.val # d.val

\* Only default is compared: defaultRequest is hidden, the owner is ignored.
lrNeedsUpdate(o, d) == o.val # d.val

needsUpdate(o, d) ==
  CASE d.kind = "Namespace"     -> nsNeedsUpdate(o, d)
    [] d.kind = "Quota"         -> rqNeedsUpdate(o, d)
    [] d.kind \in RoleKinds     -> roleNeedsUpdate(o, d)
    [] d.kind \in BindingKinds  -> rbNeedsUpdate(o, d)
    [] d.kind = "NetworkPolicy" -> npNeedsUpdate(o, d)
    [] OTHER                    -> lrNeedsUpdate(o, d)

-----------------------------------------------------------------------------
(***************************************************************************)
(* What somebody with kubectl may make of an object o: change what is      *)
(* compared, change what is not compared (where there is such content), or *)
(* replace a binding by one with another roleRef, which is immutable.      *)
(***************************************************************************)
Tampered(o) ==
  {[o EXCEPT !.val = "other"]}
  \cup (IF o.kind \in RoleKinds \cup {"NetworkPolicy", "LimitRange"}
          THEN {[o EXCEPT !.hidden = TRUE]} ELSE {})
  \cup (IF o.kind \in BindingKinds
          THEN {[o EXCEPT !.val = "otherRoleRef"]} ELSE {})

\* The API server rejects an update that changes roleRef.
ImmutableChanged(o) == o.val = "otherRoleRef"

=============================================================================
