----------------------- MODULE TenantControllerProofs -----------------------
(***************************************************************************)
(* Theorems about TenantController, for any sets of names, tiers and       *)
(* addresses and any bounds: type correctness, NoOrphanRow,                *)
(* ProvisioningHeld, NoLostEdit and the refinement of TenantLifecycle.     *)
(***************************************************************************)
EXTENDS TenantController, SequenceTheorems, TLAPS

(***************************************************************************)
(* The inductive invariant.  The worker acts on copies, so it says how far *)
(* a copy v, the worker's or the cache's, can be from the truth.  It says  *)
(* nothing of other callers' rows: NoOrphanRow rests on it, step by step   *)
(* (RowsStep), and so does its counterpart where the API server writes     *)
(* rows as well (PlatformProofs).                                          *)
(***************************************************************************)
\* uids are issued once, and a resource is in crs once.
UidsIssued == /\ issued <= MaxIds
              /\ \A c \in crs \cup cache : 1 <= c.uid /\ c.uid <= issued

UniqueUid(S) == \A c, d \in S : c.uid = d.uid => c = d

\* v is the current version of c or an older one; once set, the finalizer and
\* the deletion mark stay.
OlderVersion(v, c) == /\ v.name = c.name
                      /\ v.rv <= c.rv
                      /\ v.rv = c.rv => v = c
                      /\ v.finalizer => c.finalizer
                      /\ v.deleting => c.deleting

\* A copy that Reconcile would provision is never a copy of something gone.
Copy(v) == /\ \A c \in crs : c.uid = v.uid => OlderVersion(v, c)
           /\ v.finalizer /\ ~v.deleting => Held(v.uid)

\* What the worker's position says about its copy.  In the second line, the
\* cache is at least as new as a copy that is about to lose its finalizer: no
\* later reconciliation can see that uid as alive again.
CurFacts ==
  pc # "idle" =>
    /\ Copy(cur)
    /\ cur.uid <= issued
    /\ pc \in Provisioning => cur.finalizer /\ ~cur.deleting
    /\ pc \in {"deleteRow", "removeFinalizer"} =>
         /\ cur.deleting
         /\ \A v \in cache : v.uid = cur.uid => v.deleting
    /\ pc = "removeFinalizer" => GetTenantByID(cur.uid) = {}

Inv == /\ TypeOK
       /\ UidsIssued
       /\ UniqueUid(crs)
       /\ UniqueUid(cache)
       /\ \A v \in cache : Copy(v)
       /\ CurFacts

-----------------------------------------------------------------------------
(***************************************************************************)
(* Type correctness.                                                       *)
(***************************************************************************)
\* The build functions produce managed objects.
LEMMA BuildType ==
  ASSUME NEW t \in Tenant, NEW kind \in Kinds
  PROVE  Build(kind, t) \in ManagedObject
<1>1. NsName(t) \in Seq(Segment)
  <2>1. t.name \in Seq(Segment) /\ t.specName \in Seq(Segment)
    BY CRNamesAssumption, SpecNamesAssumption DEF Tenant
  <2>2. QED
    BY <2>1, ConcatProperties DEF NsName
<1>2. t.name \in Seq(Segment \cup Tiers)
  <2>1. t.name \in Seq(Segment)
    BY CRNamesAssumption DEF Tenant
  <2>2. QED
    BY <2>1
<1>3. /\ <<>> \in Seq(Segment \cup Tiers)
      /\ \A x \in Tiers : <<x>> \in Seq(Segment \cup Tiers)
  OBVIOUS
<1>4. t.uid \in Nat /\ t.tier \in Tiers
  BY DEF Tenant, CRTiers
<1>5. ASSUME NEW k \in Kinds, NEW of \in Seq(Segment \cup Tiers),
             NEW val \in Tiers \cup {"built"}
      PROVE  Object(k, t, of, val) \in ManagedObject
  BY <1>1, <1>4 DEF Object, ManagedObject
<1>6. "free" \in Tiers /\ "pro" \in Tiers /\ "enterprise" \in Tiers
  BY DEF Tiers
<1>7. buildResourceQuota(t) \in ManagedObject
  BY <1>3, <1>5, <1>6 DEF buildResourceQuota, buildFreeTier, buildProTier,
     buildEnterpriseTier, Kinds
<1>8. buildLimitRange(t) \in ManagedObject
  BY <1>3, <1>4, <1>5 DEF buildLimitRange, Kinds
<1>9. QED
  BY <1>2, <1>3, <1>5, <1>7, <1>8 DEF Build, buildNamespace, buildAdminRole,
     buildOperatorRole, buildAdminRoleBinding, buildOperatorRoleBinding,
     buildNetworkPolicy, Kinds

\* Tampering keeps an object a managed object.
LEMMA TamperedType ==
  ASSUME NEW o \in ManagedObject, NEW x \in Tampered(o)
  PROVE  x \in ManagedObject
BY DEF Tampered, ManagedObject

\* A new resource is a tenant with a uid of its own.
LEMMA NewCRType ==
  ASSUME issued \in Nat, NEW n \in CRNames, NEW s \in SpecNames,
         NEW t \in CRTiers, NEW e \in Emails
  PROVE  NewCR(n, s, t, e) \in Tenant /\ NewCR(n, s, t, e).uid = issued + 1
<1>1. <<>> \in Seq(Segment) /\ 1 \in Nat /\ FreshId \in Nat
  BY DEF FreshId
<1>2. NewCR(n, s, t, e) \in Tenant
  BY <1>1 DEF Tenant, NewCR
<1>3. QED
  BY <1>2 DEF NewCR, FreshId

\* What an accepted update stores is a tenant.
LEMMA AcceptedType ==
  ASSUME NEW v \in Tenant, NEW w \in Tenant
  PROVE  Accepted(v, w) \in Tenant
<1>1. v.rv + 1 \in Nat
  <2>1. v.rv \in Nat
    BY DEF Tenant
  <2>2. QED
    BY <2>1
<1>2. ASSUME NEW n \in Nat PROVE [w EXCEPT !.rv = n] \in Tenant
  BY DEF Tenant
<1>3. QED
  BY <1>1, <1>2 DEF Accepted

\* The statements of the store keep the tables' types.
LEMMA StoreType ==
  ASSUME StoreTypeOK, NEW t \in Tenant,
         \/ CreateTenant(t)
         \/ UpdateTenant(t)
         \/ DeleteTenant(t.uid)
  PROVE  tenants' \subseteq TenantRow /\ members' \subseteq MemberRow
<1>1. members' \subseteq MemberRow
  BY DEF StoreTypeOK, CreateTenant, UpdateTenant, DeleteTenant
<1>2. /\ t.specName \in Seq(Segment) /\ t.statusNs \in Seq(Segment)
      /\ t.uid \in Nat /\ t.tier \in TierValues /\ t.email \in Emails
  BY SpecNamesAssumption DEF Tenant, CRTiers
<1>3. CASE CreateTenant(t)
  <2>1. Row(t) \in TenantRow
    BY <1>2 DEF Row, TenantRow
  <2>2. QED
    BY <1>1, <1>3, <2>1 DEF CreateTenant, StoreTypeOK
<1>4. CASE UpdateTenant(t)
  <2>1. \A r \in TenantRow :
          [r EXCEPT !.tier = t.tier, !.ownerEmail = t.email] \in TenantRow
    BY <1>2 DEF TenantRow
  <2>2. QED
    BY <1>1, <1>4, <2>1 DEF UpdateTenant, StoreTypeOK
<1>5. CASE DeleteTenant(t.uid)
  <2>1. \A r \in TenantRow : [r EXCEPT !.deleted = TRUE] \in TenantRow
    BY DEF TenantRow
  <2>2. QED
    BY <1>1, <1>5, <2>1 DEF DeleteTenant, StoreTypeOK
<1>6. QED
  BY <1>3, <1>4, <1>5

\* Every step keeps the types.
LEMMA TypeStep == TypeOK /\ [Next]_vars => TypeOK'
<1> SUFFICES ASSUME TypeOK, [Next]_vars PROVE TypeOK'
  OBVIOUS
<1> USE DEF TypeOK
<1>1. ASSUME pc # "idle" PROVE cur \in Tenant
  BY <1>1
<1>2. ASSUME NEW v \in Tenant, NEW w \in Tenant, Write(v, w)
      PROVE  crs' \subseteq Tenant
  BY <1>2, AcceptedType DEF Write
<1>3. ASSUME Requeue, pc # "idle"
      PROVE  /\ queue' \subseteq CRNames
             /\ pc' \in Calls /\ cur' = NoTenant /\ pc' = "idle"
  BY <1>1, <1>3 DEF Requeue, Calls, Tenant
<1>4. ASSUME NEW b \in Bounded, NEW max, Spend(b, max)
      PROVE  spent' \in [Bounded -> Nat]
  BY <1>4 DEF Spend
<1>5. CASE UNCHANGED vars
  BY <1>5 DEF vars, storeVars, crVars, clusterVars, workVars, StoreTypeOK
<1>6. ASSUME NEW n \in CRNames, NEW s \in SpecNames, NEW t \in CRTiers,
             NEW e \in Emails, CreateCR(n, s, t, e)
      PROVE  TypeOK'
  <2>1. FreshId \in Nat
    BY DEF FreshId, StoreTypeOK
  <2>2. NewCR(n, s, t, e) \in Tenant
    BY NewCRType DEF StoreTypeOK
  <2>3. QED
    BY <1>6, <2>1, <2>2 DEF CreateCR, StoreTypeOK, clusterVars, workVars
<1>7. ASSUME NEW c \in crs, NEW s \in SpecNames, NEW t \in CRTiers,
             NEW e \in Emails, EditCR(c, s, t, e)
      PROVE  TypeOK'
  <2> DEFINE w == [c EXCEPT !.specName = s, !.tier = t, !.email = e]
  <2>1. c \in Tenant
    OBVIOUS
  <2>2. w \in Tenant
    BY <2>1 DEF Tenant
  <2>3. Write(c, w) /\ Spend("edits", MaxEdits)
    BY <1>7 DEF EditCR
  <2>4. crs' \subseteq Tenant /\ spent' \in [Bounded -> Nat]
    BY <1>2, <1>4, <2>1, <2>2, <2>3 DEF Bounded
  <2>5. QED
    BY <1>7, <2>4 DEF EditCR, storeVars, StoreTypeOK, clusterVars, workVars
<1>8. ASSUME NEW c \in crs, DeleteCR(c) PROVE TypeOK'
  <2>1. [c EXCEPT !.deleting = TRUE] \in Tenant
    BY DEF Tenant
  <2>2. crs' \subseteq Tenant
    BY <1>2, <1>8, <2>1 DEF DeleteCR
  <2>3. spent' \in [Bounded -> Nat]
    BY <1>4, <1>8 DEF DeleteCR, Bounded
  <2>4. QED
    BY <1>8, <2>2, <2>3 DEF DeleteCR, storeVars, StoreTypeOK, clusterVars,
       workVars
<1>9. ASSUME NEW o \in objs, Tamper(o) PROVE TypeOK'
  <2>1. o \in ManagedObject
    OBVIOUS
  <2>2. objs' \subseteq ManagedObject /\ past' \subseteq ManagedObject
    BY <1>9, <2>1, TamperedType DEF Tamper, Replace
  <2>3. terminating' \subseteq Seq(Segment)
    BY <1>9, <2>1 DEF Tamper, ManagedObject
  <2>4. spent' \in [Bounded -> Nat]
    BY <1>4, <1>9 DEF Tamper, Bounded
  <2>5. QED
    BY <1>9, <2>2, <2>3, <2>4 DEF Tamper, storeVars, StoreTypeOK, crVars,
       workVars
<1>10. ASSUME NEW n \in CRNames, Deliver(n) \/ Resync(n) PROVE TypeOK'
  BY <1>10 DEF Deliver, Resync, Named, storeVars, StoreTypeOK, clusterVars,
     workVars
<1>11. ASSUME NEW o \in objs, GcCollect(o) PROVE TypeOK'
  <2>1. o.ns \in Seq(Segment)
    BY DEF ManagedObject
  <2>2. /\ objs' \subseteq ManagedObject /\ past' \subseteq ManagedObject
        /\ terminating' \subseteq Seq(Segment)
    BY <1>11, <2>1 DEF GcCollect, Replace
  <2>3. QED
    BY <1>11, <2>2 DEF GcCollect, storeVars, StoreTypeOK, crVars, workVars
<1>12. ASSUME NEW ns \in terminating, FinalizeNamespace(ns) PROVE TypeOK'
  <2>1. /\ objs' \subseteq ManagedObject /\ past' \subseteq ManagedObject
        /\ terminating' \subseteq Seq(Segment)
    BY <1>12 DEF FinalizeNamespace, Replace
  <2>2. QED
    BY <1>12, <2>1 DEF FinalizeNamespace, storeVars, StoreTypeOK, crVars, workVars
<1>13. ASSUME NEW n \in CRNames, BeginReconcile(n) PROVE TypeOK'
  <2>1. \A t \in Tenant : FirstCall(t) \in Calls /\ FirstCall(t) # "idle"
    BY DEF FirstCall, Calls, Provisioning
  <2>2. QED
    BY <1>13, <2>1, NoTenantAssumption DEF BeginReconcile, Named, storeVars,
       StoreTypeOK, clusterVars, workVars
<1>14. CASE addFinalizer
  <2>1. cur \in Tenant /\ [cur EXCEPT !.finalizer = TRUE] \in Tenant
    BY <1>14 DEF addFinalizer, Tenant
  <2>2. crs' \subseteq Tenant
    BY <1>2, <1>14, <2>1 DEF addFinalizer
  <2>3. QED
    BY <1>3, <1>14, <2>2 DEF addFinalizer, storeVars, StoreTypeOK, clusterVars
<1>15. CASE DeleteRow
  <2>1. tenants' \subseteq TenantRow /\ members' \subseteq MemberRow
    BY <1>1, <1>15, StoreType DEF DeleteRow
  <2>2. QED
    BY <1>15, <2>1 DEF DeleteRow, Goto, Calls, StoreTypeOK, clusterVars
<1>16. CASE RemoveFinalizer
  <2>1. crs' \subseteq Tenant
    BY <1>16 DEF RemoveFinalizer
  <2>2. pc' \in Calls /\ cur' = NoTenant /\ pc' = "idle" /\ queue' \subseteq CRNames
    BY <1>3, <1>16 DEF RemoveFinalizer, Done, Calls
  <2>3. QED
    BY <1>16, <2>1, <2>2 DEF RemoveFinalizer, storeVars, StoreTypeOK, clusterVars
<1>17. CASE GetRow
  BY <1>17 DEF GetRow, Goto, Calls, Provisioning, storeVars, StoreTypeOK,
     clusterVars
<1>18. CASE CreateRow
  <2>1. tenants' \subseteq TenantRow /\ members' \subseteq MemberRow
    BY <1>1, <1>18, StoreType DEF CreateRow, StoreTypeOK
  <2>2. /\ pc' \in Calls /\ queue' \subseteq CRNames
        /\ cur' \in Tenant \cup {NoTenant}
        /\ (cur' = NoTenant) <=> (pc' = "idle")
    BY <1>3, <1>18 DEF CreateRow, Goto, Calls, Provisioning, Kinds
  <2>3. QED
    BY <1>18, <2>1, <2>2 DEF CreateRow, StoreTypeOK, clusterVars
<1>19. CASE UpdateRow
  <2>1. tenants' \subseteq TenantRow /\ members' \subseteq MemberRow
    BY <1>1, <1>19, StoreType DEF UpdateRow
  <2>2. QED
    BY <1>19, <2>1 DEF UpdateRow, Goto, Calls, Provisioning, Kinds, StoreTypeOK,
       clusterVars
<1>20. ASSUME NEW kind \in Kinds, Apply(kind) PROVE TypeOK'
  <2>1. pc # "idle"
    BY <1>20 DEF Apply, Kinds
  <2>2. Build(kind, cur) \in ManagedObject
    BY <1>1, <2>1, BuildType
  <2>3. objs' \subseteq ManagedObject /\ past' \subseteq ManagedObject
    BY <1>20, <2>2 DEF Apply, createOrUpdate, Replace, Existing
  <2>4. NextCall[kind] \in Calls
    BY DEF NextCall, Kinds, Calls, Provisioning
  <2>5. /\ pc' \in Calls /\ queue' \subseteq CRNames
        /\ cur' \in Tenant \cup {NoTenant}
        /\ (cur' = NoTenant) <=> (pc' = "idle")
    BY <1>3, <1>20, <2>1, <2>4 DEF Apply, AfterApply, Goto, Done, Calls
  <2>6. QED
    BY <1>20, <2>3, <2>5 DEF Apply, storeVars, StoreTypeOK
<1>20a. ASSUME NEW kind \in Kinds, ApplyStale(kind) PROVE TypeOK'
  <2>1. NextCall[kind] \in Calls /\ pc # "idle"
    BY <1>20a DEF ApplyStale, NextCall, Kinds, Calls, Provisioning
  <2>2. /\ pc' \in Calls /\ queue' \subseteq CRNames
        /\ cur' \in Tenant \cup {NoTenant}
        /\ (cur' = NoTenant) <=> (pc' = "idle")
    BY <1>20a, <2>1 DEF ApplyStale, AfterApply, Goto, Done, Calls
  <2>3. spent' \in [Bounded -> Nat]
    BY <1>4, <1>20a DEF ApplyStale, Bounded
  <2>4. QED
    BY <1>20a, <2>2, <2>3 DEF ApplyStale, storeVars, StoreTypeOK, clusterVars
<1>21. CASE UpdateStatus
  <2> DEFINE w == [cur EXCEPT !.phase = "Active", !.statusNs = NsName(cur)]
  <2>1. cur \in Tenant
    BY <1>21 DEF UpdateStatus
  <2>2. NsName(cur) \in Seq(Segment)
    BY <2>1, BuildType DEF Build, buildNamespace, Object, ManagedObject, Kinds
  <2>3. w \in Tenant
    BY <2>1, <2>2 DEF Tenant
  <2>4. Accepted(cur, w) \in Tenant /\ Accepted(cur, w) # NoTenant
    BY <2>1, <2>3, AcceptedType, NoTenantAssumption
  <2>5. CASE Conflict(cur)
    BY <1>3, <1>21, <2>5 DEF UpdateStatus, storeVars, StoreTypeOK, clusterVars
  <2>6. CASE ~Conflict(cur)
    <3>1. /\ Write(cur, w) /\ cur' = Accepted(cur, w)
          /\ pc' = "NetworkPolicy" /\ UNCHANGED queue
      BY <1>21, <2>6 DEF UpdateStatus, NextCall
    <3>2. crs' \subseteq Tenant
      BY <1>2, <2>1, <2>3, <3>1
    <3>3. QED
      BY <1>21, <2>4, <3>1, <3>2 DEF UpdateStatus, Calls, Provisioning, Kinds,
         storeVars, StoreTypeOK, clusterVars
  <2>7. QED
    BY <2>5, <2>6
<1>22. CASE Fail
  BY <1>3, <1>4, <1>22 DEF Fail, storeVars, StoreTypeOK, clusterVars, Bounded
<1>23. CASE Crash
  <2>1. queue' \subseteq CRNames
    BY <1>23 DEF Crash, Tenant
  <2>2. spent' \in [Bounded -> Nat]
    BY <1>4, <1>23 DEF Crash, Bounded
  <2>3. QED
    BY <1>23, <2>1, <2>2 DEF Crash, Calls, storeVars, StoreTypeOK, clusterVars
<1>24. QED
  BY <1>5, <1>6, <1>7, <1>8, <1>9, <1>10, <1>11, <1>12, <1>13, <1>14, <1>15,
     <1>16, <1>17, <1>18, <1>19, <1>20, <1>20a, <1>21, <1>22, <1>23
     DEF Next, Worker, User, Cluster

\* Every reachable state is well typed: the worker holds a tenant exactly while
\* it is in the middle of a reconciliation, and everything the build functions,
\* the API server and the SQL statements produce has the shape it should.
THEOREM TypeCorrect == Spec => []TypeOK
<1>1. Init => TypeOK
  BY DEF Init, StoreInit, TypeOK, StoreTypeOK, Calls, Bounded
<1>2. TypeOK /\ [Next]_vars => TypeOK'
  BY TypeStep
<1>3. QED
  BY <1>1, <1>2, PTL DEF Spec

-----------------------------------------------------------------------------
(***************************************************************************)
(* What the API server's optimistic concurrency guarantees.                *)
(***************************************************************************)
\* w differs from v in nothing that identifies the version, and takes back
\* neither the finalizer nor the deletion.
Revises(w, v) == /\ w.uid = v.uid /\ w.name = v.name /\ w.rv = v.rv
                 /\ v.finalizer => w.finalizer
                 /\ v.deleting => w.deleting

\* A copy that raises no conflict is the stored tenant itself.
LEMMA NoConflict ==
  ASSUME NEW v, Copy(v), ~Conflict(v)
  PROVE  v \in crs
BY DEF Copy, Conflict, Stored, OlderVersion

\* Only the version that is replaced goes.
LEMMA StoredIsIt ==
  ASSUME UniqueUid(crs), NEW v \in crs
  PROVE  Stored(v) = {v}
BY DEF UniqueUid, Stored

\* An accepted update makes a newer version, and all copies stay good copies.
LEMMA WriteEffect ==
  ASSUME crs \subseteq Tenant, UniqueUid(crs), NEW v \in crs, NEW w \in Tenant,
         Revises(w, v), Write(v, w)
  PROVE  /\ Accepted(v, w).uid = v.uid
         /\ crs' = (crs \ {v}) \cup {Accepted(v, w)}
         /\ OlderVersion(v, Accepted(v, w))
         /\ UniqueUid(crs)'
         /\ \A id : Held(id) => Held(id)'
         /\ \A u \in Tenant : Copy(u) => Copy(u)'
<1> DEFINE a == Accepted(v, w)
<1>1. v \in Tenant /\ v.rv \in Nat /\ w.rv \in Nat
  BY DEF Tenant
<1>2. /\ a.uid = v.uid /\ a.name = v.name
      /\ v.rv <= a.rv /\ (v.rv = a.rv => v = a)
      /\ v.finalizer => a.finalizer
      /\ v.deleting => a.deleting
  <2>1. CASE w = v
    BY <1>1, <2>1 DEF Accepted
  <2>2. CASE w # v
    <3>1. a = [w EXCEPT !.rv = v.rv + 1]
      BY <2>2 DEF Accepted
    <3>2. /\ a.uid = w.uid /\ a.name = w.name /\ a.finalizer = w.finalizer
          /\ a.deleting = w.deleting /\ a.rv = v.rv + 1
      BY <3>1 DEF Tenant
    <3>3. QED
      BY <1>1, <3>2 DEF Revises
  <2>3. QED
    BY <2>1, <2>2
<1>3. crs' = (crs \ {v}) \cup {a}
  BY StoredIsIt DEF Write
<1>4. UniqueUid(crs)'
  BY <1>2, <1>3 DEF UniqueUid
<1>5. ASSUME NEW id, Held(id) PROVE Held(id)'
  BY <1>2, <1>3, <1>5 DEF Held
<1>6. ASSUME NEW u \in Tenant, Copy(u) PROVE Copy(u)'
  <2>1. u.rv \in Nat /\ a.rv \in Nat
    <3>1. a \in Tenant
      BY <1>1, AcceptedType
    <3>2. QED
      BY <3>1 DEF Tenant
  <2>2. ASSUME NEW c \in crs', c.uid = u.uid PROVE OlderVersion(u, c)
    <3>1. CASE c \in crs
      BY <1>6, <2>2, <3>1 DEF Copy
    <3>2. CASE c = a
      <4>1. OlderVersion(u, v)
        BY <1>2, <1>6, <2>2, <3>2 DEF Copy
      <4>2. QED
        BY <1>1, <1>2, <2>1, <3>2, <4>1 DEF OlderVersion
    <3>3. QED
      BY <1>3, <2>2, <3>1, <3>2
  <2>3. u.finalizer /\ ~u.deleting => Held(u.uid)'
    BY <1>5, <1>6 DEF Copy
  <2>4. QED
    BY <2>2, <2>3 DEF Copy
<1>7. QED
  BY <1>2, <1>3, <1>4, <1>5, <1>6 DEF OlderVersion

-----------------------------------------------------------------------------
(***************************************************************************)
(* The inductive invariant is preserved.                                   *)
(***************************************************************************)
\* A step that leaves resources, copies and rows alone.
LEMMA Frame ==
  ASSUME Inv, TypeOK', UNCHANGED <<crs, cache, tenants, issued>>,
         \/ UNCHANGED <<pc, cur>>
         \/ pc' = "idle"
         \/ pc \in Provisioning /\ pc' \in Provisioning /\ cur' = cur
  PROVE  Inv'
<1>1. /\ UidsIssued' /\ UniqueUid(crs)' /\ UniqueUid(cache)'
      /\ (\A v \in cache : Copy(v))'
  BY DEF Inv, UidsIssued, UniqueUid, Copy, OlderVersion, Held
<1>2. CurFacts'
  BY DEF Inv, CurFacts, Copy, OlderVersion, Held, GetTenantByID, Provisioning,
     Kinds
<1>3. QED
  BY <1>1, <1>2 DEF Inv

\* A stored tenant is a good copy of itself.
LEMMA SelfCopy ==
  ASSUME crs \subseteq Tenant, UniqueUid(crs), NEW c \in crs
  PROVE  Copy(c)
<1>1. c.rv \in Nat
  BY DEF Tenant
<1>2. QED
  BY <1>1 DEF UniqueUid, Copy, OlderVersion, Held

\* A step that updates a stored tenant, by a user or by the worker.
LEMMA WriteStep ==
  ASSUME Inv, TypeOK', NEW v \in crs, NEW w \in Tenant, Revises(w, v), Write(v, w),
         UNCHANGED <<cache, tenants, issued>>,
         \/ UNCHANGED <<pc, cur>>
         \/ pc' = "idle"
         \/ /\ pc' = "NetworkPolicy" /\ cur' = Accepted(v, w)
            /\ w.finalizer /\ ~w.deleting
  PROVE  Inv'
<1> DEFINE a == Accepted(v, w)
<1>1. /\ a.uid = v.uid /\ crs' = (crs \ {v}) \cup {a}
      /\ UniqueUid(crs)'
      /\ \A id : Held(id) => Held(id)'
      /\ \A u \in Tenant : Copy(u) => Copy(u)'
  BY WriteEffect DEF Inv, TypeOK
<1>2. UidsIssued'
  BY <1>1 DEF Inv, UidsIssued
<1>3. UniqueUid(cache)'
  BY DEF Inv, UniqueUid
<1>4. (\A u \in cache : Copy(u))'
  BY <1>1 DEF Inv, TypeOK, Copy
<1>5. CurFacts'
  <2>1. CASE UNCHANGED <<pc, cur>>
    <3>1. pc # "idle" => Copy(cur)'
      BY <1>1, <2>1 DEF Inv, TypeOK, CurFacts, Copy
    <3>2. QED
      BY <2>1, <3>1 DEF Inv, CurFacts, GetTenantByID
  <2>2. CASE pc' = "idle"
    BY <2>2 DEF CurFacts
  <2>3. CASE /\ pc' = "NetworkPolicy" /\ cur' = a
             /\ w.finalizer /\ ~w.deleting
    <3>1. a.finalizer /\ ~a.deleting
      BY <2>3 DEF Accepted, Tenant
    <3>2. a \in crs'
      BY <1>1
    <3>3. Copy(a)'
      <4>1. a.rv \in Nat
        BY <3>2 DEF TypeOK, Tenant
      <4>2. \A c \in crs' : c.uid = a.uid => c = a
        BY <1>1, <3>2 DEF UniqueUid
      <4>3. QED
        BY <3>1, <3>2, <4>1, <4>2 DEF Copy, OlderVersion, Held
    <3>4. QED
      BY <1>2, <2>3, <3>1, <3>2, <3>3 DEF CurFacts, Copy, UidsIssued
  <2>4. QED
    BY <2>1, <2>2, <2>3
<1>6. QED
  BY <1>1, <1>2, <1>3, <1>4, <1>5 DEF Inv

\* Every step keeps the invariant.
LEMMA InvStep == Inv /\ [Next]_vars => Inv'
<1> SUFFICES ASSUME Inv, [Next]_vars PROVE Inv'
  OBVIOUS
<1>0. TypeOK /\ TypeOK'
  BY TypeStep DEF Inv
<1>1. CASE UNCHANGED vars
  BY <1>0, <1>1, Frame DEF vars, storeVars, crVars, workVars
<1>2. ASSUME NEW n \in CRNames, NEW s \in SpecNames, NEW t \in CRTiers,
             NEW e \in Emails, CreateCR(n, s, t, e)
      PROVE  Inv'
  <2>1. PICK x \in Tenant : x.uid = issued + 1 /\ crs' = crs \cup {x}
    BY <1>0, <1>2, NewCRType DEF CreateCR, TypeOK, StoreTypeOK
  <2>2. /\ UNCHANGED <<cache, tenants, pc, cur>>
        /\ issued' = issued + 1 /\ issued \in Nat /\ issued < MaxIds
    BY <1>0, <1>2 DEF CreateCR, FreshId, workVars, TypeOK, StoreTypeOK
  <2>3. \A c \in crs \cup cache : /\ c.uid \in Nat
                                /\ 1 <= c.uid /\ c.uid <= issued
    BY <1>0 DEF Inv, UidsIssued, TypeOK, Tenant
  <2>4. UidsIssued'
    BY <2>1, <2>2, <2>3, MaxIdsAssumption DEF UidsIssued
  <2>5. UniqueUid(crs)'
    BY <2>1, <2>2, <2>3 DEF Inv, UniqueUid
  <2>6. UniqueUid(cache)'
    BY <2>2 DEF Inv, UniqueUid
  <2>7. \A id : Held(id) => Held(id)'
    BY <2>1 DEF Held
  <2>8. ASSUME NEW v, Copy(v), v.uid \in Nat, v.uid <= issued PROVE Copy(v)'
    BY <2>1, <2>2, <2>7, <2>8 DEF Copy
  <2>9. (\A v \in cache : Copy(v))'
    BY <2>2, <2>3, <2>8 DEF Inv, Copy
  <2>10. CurFacts'
    <3>1. pc # "idle" => cur.uid \in Nat
      BY <1>0 DEF TypeOK, Tenant
    <3>2. pc # "idle" => Copy(cur)'
      BY <2>2, <2>8, <3>1 DEF Inv, CurFacts, Copy
    <3>3. QED
      BY <2>2, <3>1, <3>2 DEF Inv, CurFacts, GetTenantByID
  <2>11. QED
    BY <1>0, <2>4, <2>5, <2>6, <2>9, <2>10 DEF Inv
<1>3. ASSUME NEW c \in crs, NEW s \in SpecNames, NEW t \in CRTiers,
             NEW e \in Emails, EditCR(c, s, t, e)
      PROVE  Inv'
  <2> DEFINE w == [c EXCEPT !.specName = s, !.tier = t, !.email = e]
  <2>1. c \in Tenant
    BY <1>0 DEF TypeOK
  <2>2. w \in Tenant /\ Revises(w, c)
    BY <2>1 DEF Tenant, Revises
  <2>3. Write(c, w) /\ UNCHANGED <<cache, tenants, issued, pc, cur>>
    BY <1>3 DEF EditCR, storeVars, workVars
  <2>4. QED
    BY <1>0, <2>2, <2>3, WriteStep
<1>4. ASSUME NEW c \in crs, DeleteCR(c) PROVE Inv'
  <2>1. c \in Tenant /\ UNCHANGED <<cache, tenants, issued, pc, cur>>
    BY <1>0, <1>4 DEF DeleteCR, TypeOK, storeVars, workVars
  <2>2. CASE c.finalizer
    <3> DEFINE w == [c EXCEPT !.deleting = TRUE]
    <3>1. w \in Tenant /\ Revises(w, c)
      BY <2>1 DEF Tenant, Revises
    <3>2. Write(c, w)
      BY <1>4, <2>2 DEF DeleteCR
    <3>3. QED
      BY <1>0, <2>1, <3>1, <3>2, WriteStep
  <2>3. CASE ~c.finalizer
    <3>1. crs' = crs \ {c}
      BY <1>4, <2>3 DEF DeleteCR
    <3>2. \A id : Held(id) => Held(id)'
      BY <2>3, <3>1 DEF Held
    <3>3. \A v : Copy(v) => Copy(v)'
      BY <3>1, <3>2 DEF Copy
    <3>4. UidsIssued' /\ UniqueUid(crs)' /\ UniqueUid(cache)'
      BY <2>1, <3>1 DEF Inv, UidsIssued, UniqueUid
    <3>5. (\A v \in cache : Copy(v))'
      BY <2>1, <3>3 DEF Inv, Copy
    <3>6. CurFacts'
      <4>1. pc # "idle" => Copy(cur)'
        BY <2>1, <3>3 DEF Inv, CurFacts, Copy
      <4>2. QED
        BY <2>1, <4>1 DEF Inv, CurFacts, GetTenantByID
    <3>7. QED
      BY <1>0, <3>4, <3>5, <3>6 DEF Inv
  <2>4. QED
    BY <2>2, <2>3
<1>5. ASSUME NEW o \in objs, Tamper(o) \/ GcCollect(o) PROVE Inv'
  BY <1>0, <1>5, Frame DEF Tamper, GcCollect, storeVars, crVars, workVars
<1>6. ASSUME NEW ns \in terminating, FinalizeNamespace(ns) PROVE Inv'
  BY <1>0, <1>6, Frame DEF FinalizeNamespace, storeVars, crVars, workVars
<1>7. ASSUME NEW n \in CRNames, Resync(n) PROVE Inv'
  BY <1>0, <1>7, Frame DEF Resync, storeVars, workVars
<1>8. ASSUME NEW n \in CRNames, Deliver(n) PROVE Inv'
  <2>1. /\ cache' = (cache \ Named(cache, n)) \cup Named(crs, n)
        /\ UNCHANGED <<crs, tenants, issued, pc, cur>>
    BY <1>8 DEF Deliver, storeVars, workVars
  <2>2. ASSUME NEW v \in cache'
        PROVE  \/ v \in crs /\ v.name = n
               \/ v \in cache /\ v.name # n
    BY <2>1, <2>2 DEF Named
  <2>3. UidsIssued' /\ UniqueUid(crs)'
    BY <2>1, <2>2 DEF Inv, UidsIssued, UniqueUid
  <2>4. UniqueUid(cache)'
    <3>1. ASSUME NEW v \in cache, NEW c \in crs, v.name # n, c.name = n
          PROVE  v.uid # c.uid
      BY <3>1 DEF Inv, Copy, OlderVersion
    <3>2. QED
      BY <2>2, <3>1 DEF Inv, UniqueUid
  <2>5. \A v \in cache' : Copy(v)
    BY <1>0, <2>2, SelfCopy DEF Inv, TypeOK
  <2>6. (\A v \in cache : Copy(v))'
    BY <2>1, <2>5 DEF Copy, Held
  <2>7. CurFacts'
    <3>1. ASSUME pc \in {"deleteRow", "removeFinalizer"}, NEW v \in cache',
                 v.uid = cur.uid
          PROVE  v.deleting
      BY <2>2, <3>1 DEF Inv, CurFacts, Copy, OlderVersion
    <3>2. QED
      BY <2>1, <3>1 DEF Inv, CurFacts, Copy, Held, GetTenantByID
  <2>8. QED
    BY <1>0, <2>3, <2>4, <2>6, <2>7 DEF Inv
<1>9. ASSUME NEW n \in CRNames, BeginReconcile(n) PROVE Inv'
  <2>1. UNCHANGED <<crs, cache, tenants, issued>> /\ pc = "idle"
    BY <1>9 DEF BeginReconcile, storeVars
  <2>2. CASE UNCHANGED <<pc, cur>>
    BY <1>0, <2>1, <2>2, Frame
  <2>3. ASSUME NEW t \in cache, cur' = t, pc' = FirstCall(t) PROVE Inv'
    <3>1. /\ UidsIssued' /\ UniqueUid(crs)' /\ UniqueUid(cache)'
          /\ (\A v \in cache : Copy(v))'
      BY <2>1 DEF Inv, UidsIssued, UniqueUid, Copy, Held
    <3>2. t.deleting \in BOOLEAN /\ t.finalizer \in BOOLEAN
      BY <1>0 DEF TypeOK, Tenant
    <3>3. /\ pc' \in Provisioning => t.finalizer /\ ~t.deleting
          /\ pc' \in {"deleteRow", "removeFinalizer"} => t.deleting
          /\ pc' # "removeFinalizer"
      BY <2>3, <3>2 DEF FirstCall, Provisioning, Kinds
    <3>4. Copy(t)' /\ t.uid <= issued
      BY <2>1, <3>1 DEF Inv, UidsIssued, Copy
    <3>5. \A v \in cache : v.uid = t.uid => v = t
      BY DEF Inv, UniqueUid
    <3>6. CurFacts'
      BY <2>1, <2>3, <3>3, <3>4, <3>5 DEF CurFacts, Copy
    <3>7. QED
      BY <1>0, <3>1, <3>6 DEF Inv
  <2>4. QED
    BY <1>9, <2>2, <2>3 DEF BeginReconcile, Named, workVars
<1>10. CASE addFinalizer
  <2>1. UNCHANGED <<cache, tenants, issued>> /\ pc' = "idle" /\ pc # "idle"
    BY <1>10 DEF addFinalizer, Requeue, storeVars
  <2>2. CASE Conflict(cur)
    BY <1>0, <1>10, <2>1, <2>2, Frame DEF addFinalizer
  <2>3. CASE ~Conflict(cur)
    <3> DEFINE w == [cur EXCEPT !.finalizer = TRUE]
    <3>1. Write(cur, w)
      BY <1>10, <2>3 DEF addFinalizer
    <3>2. cur \in crs
      BY <2>1, <2>3, NoConflict DEF Inv, CurFacts
    <3>3. w \in Tenant /\ Revises(w, cur)
      BY <1>0, <3>2 DEF TypeOK, Tenant, Revises
    <3>4. QED
      BY <1>0, <2>1, <3>1, <3>2, <3>3, WriteStep
  <2>4. QED
    BY <2>2, <2>3
<1>11. CASE DeleteRow
  <2>1. /\ DeleteTenant(cur.uid) /\ pc = "deleteRow" /\ pc' = "removeFinalizer"
        /\ UNCHANGED <<crs, cache, issued, cur>>
    BY <1>11 DEF DeleteRow, Goto
  <2>2. \A r \in tenants' : ~r.deleted => r \in tenants /\ r.id # cur.uid
    <3>1. \A r \in tenants : [r EXCEPT !.deleted = TRUE].deleted
      BY <1>0 DEF TypeOK, StoreTypeOK, TenantRow
    <3>2. QED
      BY <2>1, <3>1 DEF DeleteTenant
  <2>3. /\ UidsIssued' /\ UniqueUid(crs)' /\ UniqueUid(cache)'
        /\ (\A v \in cache : Copy(v))'
    BY <2>1 DEF Inv, UidsIssued, UniqueUid, Copy, Held
  <2>4. CurFacts'
    <3>1. GetTenantByID(cur.uid)' = {}
      BY <2>1, <2>2 DEF GetTenantByID
    <3>2. QED
      BY <2>1, <3>1 DEF Inv, CurFacts, Copy, Held, Provisioning, Kinds
  <2>5. QED
    BY <1>0, <2>3, <2>4 DEF Inv
<1>12. CASE RemoveFinalizer
  <2>1. /\ UNCHANGED <<cache, tenants, issued>> /\ pc = "removeFinalizer"
        /\ pc' = "idle"
    BY <1>12 DEF RemoveFinalizer, Requeue, Done, storeVars
  <2>2. CASE Conflict(cur)
    BY <1>0, <1>12, <2>1, <2>2, Frame DEF RemoveFinalizer
  <2>3. CASE ~Conflict(cur)
    <3>1. cur \in crs
      BY <2>1, <2>3, NoConflict DEF Inv, CurFacts
    <3>2. crs' = crs \ {cur}
      BY <1>12, <2>3, <3>1, StoredIsIt DEF RemoveFinalizer, Inv
    <3>3. \A id : id # cur.uid /\ Held(id) => Held(id)'
      BY <3>2 DEF Held
    <3>4. \A v \in cache : v.uid = cur.uid => v.deleting
      BY <2>1 DEF Inv, CurFacts
    <3>5. (\A v \in cache : Copy(v))'
      BY <2>1, <3>2, <3>3, <3>4 DEF Inv, Copy
    <3>6. UidsIssued' /\ UniqueUid(crs)' /\ UniqueUid(cache)'
      BY <2>1, <3>2 DEF Inv, UidsIssued, UniqueUid
    <3>7. CurFacts'
      BY <2>1 DEF CurFacts
    <3>8. QED
      BY <1>0, <3>5, <3>6, <3>7 DEF Inv
  <2>4. QED
    BY <2>2, <2>3
<1>13. CASE GetRow
  <2>1. /\ UNCHANGED <<crs, cache, tenants, issued, cur>>
        /\ pc \in Provisioning /\ pc' \in Provisioning
    BY <1>13 DEF GetRow, Goto, Provisioning, storeVars
  <2>2. QED
    BY <1>0, <2>1, Frame
<1>14. CASE CreateRow
  <2>1. pc = "createRow" /\ UNCHANGED <<crs, cache, issued>>
    BY <1>14 DEF CreateRow
  <2>2. CASE UniqueViolation(cur)
    BY <1>0, <1>14, <2>1, <2>2, Frame DEF CreateRow, CreateTenant, Requeue
  <2>3. CASE ~UniqueViolation(cur)
    <3>1. CreateTenant(cur) /\ pc' = "Namespace" /\ cur' = cur
      BY <1>14, <2>3 DEF CreateRow, Goto
    <3>2. Held(cur.uid) /\ Copy(cur) /\ cur.finalizer /\ ~cur.deleting
          /\ cur.uid <= issued
      BY <2>1 DEF Inv, CurFacts, Copy, Provisioning
    <3>3. /\ UidsIssued' /\ UniqueUid(crs)' /\ UniqueUid(cache)'
          /\ (\A v \in cache : Copy(v))'
      BY <2>1 DEF Inv, UidsIssued, UniqueUid, Copy, Held
    <3>4. CurFacts'
      BY <2>1, <3>1, <3>2 DEF CurFacts, Copy, Held
    <3>5. QED
      BY <1>0, <3>3, <3>4 DEF Inv
  <2>4. QED
    BY <2>2, <2>3
<1>15. CASE UpdateRow
  <2>1. /\ pc = "updateRow" /\ pc' = "Namespace"
        /\ UNCHANGED <<crs, cache, issued, cur>>
    BY <1>15 DEF UpdateRow, Goto
  <2>2. /\ UidsIssued' /\ UniqueUid(crs)' /\ UniqueUid(cache)'
        /\ (\A v \in cache : Copy(v))'
    BY <2>1 DEF Inv, UidsIssued, UniqueUid, Copy, Held
  <2>3. CurFacts'
    BY <2>1 DEF Inv, CurFacts, Copy, Held, Provisioning
  <2>4. QED
    BY <1>0, <2>2, <2>3 DEF Inv
<1>16. ASSUME NEW kind \in Kinds, Apply(kind) PROVE Inv'
  <2>1. /\ UNCHANGED <<crs, cache, tenants, issued>>
        /\ pc = kind /\ pc \in Provisioning
    BY <1>16 DEF Apply, Provisioning, storeVars
  <2>2. NextCall[kind] = "idle" \/ NextCall[kind] \in Provisioning
    BY DEF NextCall, Kinds, Provisioning
  <2>3. pc' = "idle" \/ (pc' \in Provisioning /\ cur' = cur)
    BY <1>16, <2>2 DEF Apply, AfterApply, Requeue, Done, Goto
  <2>4. QED
    BY <1>0, <2>1, <2>3, Frame
<1>16a. ASSUME NEW kind \in Kinds, ApplyStale(kind) PROVE Inv'
  <2>1. /\ UNCHANGED <<crs, cache, tenants, issued>>
        /\ pc = kind /\ pc \in Provisioning
    BY <1>16a DEF ApplyStale, Provisioning, storeVars
  <2>2. NextCall[kind] = "idle" \/ NextCall[kind] \in Provisioning
    BY DEF NextCall, Kinds, Provisioning
  <2>3. pc' = "idle" \/ (pc' \in Provisioning /\ cur' = cur)
    BY <1>16a, <2>2 DEF ApplyStale, AfterApply, Done, Goto
  <2>4. QED
    BY <1>0, <2>1, <2>3, Frame
<1>17. CASE UpdateStatus
  <2> DEFINE w == [cur EXCEPT !.phase = "Active", !.statusNs = NsName(cur)]
  <2>1. UNCHANGED <<cache, tenants, issued>> /\ pc = "status"
    BY <1>17 DEF UpdateStatus, storeVars
  <2>2. CASE Conflict(cur)
    BY <1>0, <1>17, <2>1, <2>2, Frame DEF UpdateStatus, Requeue
  <2>3. CASE ~Conflict(cur)
    <3>1. Write(cur, w) /\ cur' = Accepted(cur, w) /\ pc' = "NetworkPolicy"
      BY <1>17, <2>3 DEF UpdateStatus, NextCall
    <3>2. cur \in crs
      BY <2>1, <2>3, NoConflict DEF Inv, CurFacts
    <3>3. cur.finalizer /\ ~cur.deleting
      BY <2>1 DEF Inv, CurFacts, Provisioning
    <3>4. cur \in Tenant /\ NsName(cur) \in Seq(Segment)
      BY <1>0, <3>2, BuildType DEF TypeOK, Build, buildNamespace, Object,
         ManagedObject, Kinds
    <3>5. w \in Tenant /\ Revises(w, cur) /\ w.finalizer /\ ~w.deleting
      BY <3>3, <3>4 DEF Tenant, Revises
    <3>6. QED
      BY <1>0, <2>1, <3>1, <3>2, <3>5, WriteStep
  <2>4. QED
    BY <2>2, <2>3
<1>18. CASE Fail
  BY <1>0, <1>18, Frame DEF Fail, Requeue, storeVars
<1>19. CASE Crash
  <2>1. /\ UNCHANGED <<crs, tenants, issued>> /\ cache' = crs /\ pc' = "idle"
    BY <1>19 DEF Crash, storeVars
  <2>2. UidsIssued' /\ UniqueUid(crs)' /\ UniqueUid(cache)'
    BY <2>1 DEF Inv, UidsIssued, UniqueUid
  <2>3. \A v \in crs : Copy(v)
    BY <1>0, SelfCopy DEF Inv, TypeOK
  <2>4. (\A v \in cache : Copy(v))'
    BY <2>1, <2>3 DEF Copy, Held
  <2>5. CurFacts'
    BY <2>1 DEF CurFacts
  <2>6. QED
    BY <1>0, <2>2, <2>4, <2>5 DEF Inv
<1>20. QED
  BY <1>1, <1>2, <1>3, <1>4, <1>5, <1>6, <1>7, <1>8, <1>9, <1>10, <1>11, <1>12,
     <1>13, <1>14, <1>15, <1>16, <1>16a, <1>17, <1>18, <1>19
     DEF Next, Worker, User, Cluster

\* The inductive invariant holds in every reachable state.
LEMMA Invariance == Spec => []Inv
<1>1. Init => Inv
  <2>1. Init => TypeOK
    BY DEF Init, StoreInit, TypeOK, StoreTypeOK, Calls, Bounded
  <2>2. QED
    BY <2>1, MaxIdsAssumption DEF Init, StoreInit, Inv, UidsIssued, UniqueUid,
       CurFacts
<1>2. Inv /\ [Next]_vars => Inv'
  BY InvStep
<1>3. QED
  BY <1>1, <1>2, PTL DEF Spec

-----------------------------------------------------------------------------
(***************************************************************************)
(* The results.                                                            *)
(***************************************************************************)
\* What a step of the controller does to a live row and its resource: no row
\* comes to life that was not live, except the worker's own, whose resource is
\* held; and a resource is let go only when it has no live row.
RowsKept ==
  \A r \in tenants' :
    ~r.deleted =>
      \/ Held(r.id)'
      \/ \E s \in tenants : s.id = r.id /\ ~s.deleted /\ ~Held(s.id)

\* A step that adds no live row and lets no resource go.
LEMMA RowsFrame ==
  ASSUME \A id : Held(id) => Held(id)',
         \A r \in tenants' : ~r.deleted =>
           \E s \in tenants : s.id = r.id /\ ~s.deleted
  PROVE  RowsKept
BY DEF RowsKept

\* Every step keeps live rows' resources held.
LEMMA RowsStep == Inv /\ [Next]_vars => RowsKept
<1> SUFFICES ASSUME Inv, [Next]_vars PROVE RowsKept
  OBVIOUS
<1>0. TypeOK
  BY DEF Inv
<1>a. ASSUME UNCHANGED tenants, \A id : Held(id) => Held(id)' PROVE RowsKept
  BY <1>a, RowsFrame
<1>b. ASSUME UNCHANGED <<tenants, crs>> PROVE RowsKept
  BY <1>a, <1>b DEF Held
<1>c. ASSUME NEW v \in crs, NEW w \in Tenant, Revises(w, v), Write(v, w),
             UNCHANGED tenants
      PROVE  RowsKept
  <2>1. \A id : Held(id) => Held(id)'
    BY <1>c, WriteEffect DEF Inv, TypeOK
  <2>2. QED
    BY <1>a, <1>c, <2>1
<1>1. CASE UNCHANGED vars
  BY <1>1, <1>b DEF vars, storeVars, crVars
<1>2. ASSUME NEW n \in CRNames, NEW s \in SpecNames, NEW t \in CRTiers,
             NEW e \in Emails, CreateCR(n, s, t, e)
      PROVE  RowsKept
  BY <1>2, <1>a DEF CreateCR, Held
<1>3. ASSUME NEW c \in crs, NEW s \in SpecNames, NEW t \in CRTiers,
             NEW e \in Emails, EditCR(c, s, t, e)
      PROVE  RowsKept
  <2> DEFINE w == [c EXCEPT !.specName = s, !.tier = t, !.email = e]
  <2>1. w \in Tenant /\ Revises(w, c)
    BY <1>0 DEF TypeOK, Tenant, Revises
  <2>2. QED
    BY <1>3, <1>c, <2>1 DEF EditCR, storeVars
<1>4. ASSUME NEW c \in crs, DeleteCR(c) PROVE RowsKept
  <2> DEFINE w == [c EXCEPT !.deleting = TRUE]
  <2>1. CASE c.finalizer
    <3>1. w \in Tenant /\ Revises(w, c)
      BY <1>0 DEF TypeOK, Tenant, Revises
    <3>2. QED
      BY <1>4, <1>c, <2>1, <3>1 DEF DeleteCR, storeVars
  <2>2. CASE ~c.finalizer
    <3>1. \A id : Held(id) => Held(id)'
      BY <1>4, <2>2 DEF DeleteCR, Held
    <3>2. QED
      BY <1>4, <1>a, <3>1 DEF DeleteCR, storeVars
  <2>3. QED
    BY <2>1, <2>2
<1>5. CASE addFinalizer
  <2> DEFINE w == [cur EXCEPT !.finalizer = TRUE]
  <2>1. CASE Conflict(cur)
    BY <1>5, <1>b, <2>1 DEF addFinalizer, storeVars
  <2>2. CASE ~Conflict(cur)
    <3>1. cur \in crs
      BY <1>5, <2>2, NoConflict DEF addFinalizer, Inv, CurFacts
    <3>2. w \in Tenant /\ Revises(w, cur)
      BY <1>0, <3>1 DEF TypeOK, Tenant, Revises
    <3>3. QED
      BY <1>5, <1>c, <2>2, <3>1, <3>2 DEF addFinalizer, storeVars
  <2>3. QED
    BY <2>1, <2>2
<1>6. CASE DeleteRow
  <2>1. DeleteTenant(cur.uid) /\ UNCHANGED crs
    BY <1>6 DEF DeleteRow
  <2>2. \A r \in tenants : [r EXCEPT !.deleted = TRUE].deleted
    BY <1>0 DEF TypeOK, StoreTypeOK, TenantRow
  <2>3. \A r \in tenants' : ~r.deleted => r \in tenants
    BY <2>1, <2>2 DEF DeleteTenant
  <2>4. QED
    BY <2>1, <2>3, RowsFrame DEF Held
<1>7. CASE RemoveFinalizer
  <2>1. UNCHANGED tenants /\ pc = "removeFinalizer"
    BY <1>7 DEF RemoveFinalizer, storeVars
  <2>2. CASE Conflict(cur)
    BY <1>7, <1>b, <2>1, <2>2 DEF RemoveFinalizer
  <2>3. CASE ~Conflict(cur)
    <3>1. cur \in crs
      BY <2>1, <2>3, NoConflict DEF Inv, CurFacts
    <3>2. crs' = crs \ {cur}
      BY <1>7, <2>3, <3>1, StoredIsIt DEF RemoveFinalizer, Inv
    <3>3. \A id : id # cur.uid /\ Held(id) => Held(id)'
      BY <3>2 DEF Held
    <3>4. \A r \in tenants : ~r.deleted => r.id # cur.uid
      BY <2>1 DEF Inv, CurFacts, GetTenantByID
    <3>5. QED
      BY <2>1, <3>3, <3>4 DEF RowsKept
  <2>4. QED
    BY <2>2, <2>3
<1>8. CASE CreateRow
  <2>1. UNCHANGED crs /\ Held(cur.uid)
    BY <1>8 DEF CreateRow, Inv, CurFacts, Copy, Provisioning
  <2>2. \A r \in tenants' : r \in tenants \/ r.id = cur.uid
    BY <1>8 DEF CreateRow, CreateTenant, Row
  <2>3. QED
    BY <2>1, <2>2 DEF RowsKept, Held
<1>9. CASE UpdateRow
  <2>1. UpdateTenant(cur) /\ UNCHANGED crs
    BY <1>9 DEF UpdateRow
  <2>2. \A s \in tenants :
          LET r == [s EXCEPT !.tier = cur.tier, !.ownerEmail = cur.email]
          IN  r.id = s.id /\ r.deleted = s.deleted
    BY <1>0 DEF TypeOK, StoreTypeOK, TenantRow
  <2>3. \A r \in tenants' : \E s \in tenants :
          r.id = s.id /\ r.deleted = s.deleted
    BY <2>1, <2>2 DEF UpdateTenant
  <2>4. QED
    BY <2>1, <2>3, RowsFrame DEF Held
<1>10. CASE UpdateStatus
  <2> DEFINE w == [cur EXCEPT !.phase = "Active", !.statusNs = NsName(cur)]
  <2>1. CASE Conflict(cur)
    BY <1>10, <1>b, <2>1 DEF UpdateStatus, storeVars
  <2>2. CASE ~Conflict(cur)
    <3>1. cur \in crs
      BY <1>10, <2>2, NoConflict DEF UpdateStatus, Inv, CurFacts
    <3>2. cur \in Tenant /\ NsName(cur) \in Seq(Segment)
      BY <1>0, <3>1, BuildType DEF TypeOK, Build, buildNamespace, Object,
         ManagedObject, Kinds
    <3>3. w \in Tenant /\ Revises(w, cur)
      BY <3>2 DEF Tenant, Revises
    <3>4. QED
      BY <1>10, <1>c, <2>2, <3>1, <3>3 DEF UpdateStatus, storeVars
  <2>3. QED
    BY <2>1, <2>2
<1>11. CASE \/ GetRow
            \/ (\E kind \in Kinds : Apply(kind) \/ ApplyStale(kind))
            \/ (\E n \in CRNames : BeginReconcile(n)) \/ Fail \/ Crash
            \/ (\E o \in objs : Tamper(o)) \/ Cluster
  <2>1. UNCHANGED <<crs, tenants>>
    BY <1>11 DEF GetRow, Apply, ApplyStale, BeginReconcile, Fail, Crash, Tamper,
       Cluster, Deliver, Resync, GcCollect, FinalizeNamespace, crVars, storeVars
  <2>2. QED
    BY <1>b, <2>1
<1>12. QED
  BY <1>1, <1>2, <1>3, <1>4, <1>5, <1>6, <1>7, <1>8, <1>9, <1>10, <1>11
     DEF Next, Worker, User

\* No live row outlives its Tenant resource: for any number of tenants, edits,
\* deletions, failed calls, crashes and foreign changes, a live row written by
\* the controller belongs to a resource that still carries the finalizer.
THEOREM OrphanFreedom == Spec => []NoOrphanRow
<1>1. Init => NoOrphanRow
  BY DEF Init, StoreInit, NoOrphanRow
<1>2. Inv /\ [Next]_vars /\ NoOrphanRow => NoOrphanRow'
  BY RowsStep DEF RowsKept, NoOrphanRow
<1>3. QED
  BY <1>1, <1>2, Invariance, PTL DEF Spec

\* The controller only provisions for a tenant that is still there and whose
\* deletion it will get to see, however stale the copy it works on.
THEOREM ProvisioningSafety == Spec => []ProvisioningHeld
<1>1. Inv => ProvisioningHeld
  BY DEF Inv, CurFacts, Copy, ProvisioningHeld, Provisioning, Kinds
<1>2. QED
  BY <1>1, Invariance, PTL

\* One step of NoLostEdit.
KeepsEdits ==
  \A c \in crs, d \in crs' : c.uid = d.uid =>
    /\ spent'["edits"] = spent["edits"] => UserPart(d) = UserPart(c)
    /\ c.deleting => d.deleting
    /\ c.finalizer => d.finalizer

\* An update that keeps the user's part, or is an edit, keeps edits.
LEMMA WriteKeepsEdits ==
  ASSUME Inv, NEW v \in crs, NEW w \in Tenant, Revises(w, v), Write(v, w),
         UserPart(w) = UserPart(v) \/ spent'["edits"] # spent["edits"]
  PROVE  KeepsEdits
<1> DEFINE a == Accepted(v, w)
<1>1. /\ crs' = (crs \ {v}) \cup {a} /\ a.uid = v.uid /\ OlderVersion(v, a)
      /\ UniqueUid(crs)
  BY WriteEffect DEF Inv, TypeOK
<1>2. UserPart(a) = UserPart(w)
  <2>1. CASE w = v
    BY <2>1 DEF Accepted
  <2>2. CASE w # v
    <3>1. a = [w EXCEPT !.rv = v.rv + 1]
      BY <2>2 DEF Accepted
    <3>2. a.specName = w.specName /\ a.tier = w.tier /\ a.email = w.email
      BY <3>1 DEF Tenant
    <3>3. QED
      BY <3>2 DEF UserPart
  <2>3. QED
    BY <2>1, <2>2
<1>3. QED
  BY <1>1, <1>2 DEF KeepsEdits, OlderVersion, UniqueUid

\* A step that adds no version keeps edits.
LEMMA SubsetKeepsEdits ==
  ASSUME Inv, crs' \subseteq crs
  PROVE  KeepsEdits
BY DEF Inv, UniqueUid, KeepsEdits

\* What a user wrote into a Tenant resource is changed by users only, and a
\* deletion is never revoked: the controller's whole-object updates, sent from a
\* cache of any age, never undo an edit.
THEOREM EditsSurvive == Spec => NoLostEdit
<1>1. Inv /\ [Next]_vars => [KeepsEdits]_vars
  <2> SUFFICES ASSUME Inv, Next PROVE KeepsEdits
    OBVIOUS
  <2>0. TypeOK
    BY DEF Inv
  <2>1. ASSUME NEW n \in CRNames, NEW s \in SpecNames, NEW t \in CRTiers,
               NEW e \in Emails, CreateCR(n, s, t, e)
        PROVE  KeepsEdits
    <3>1. \A d \in crs' : d \in crs \/ d.uid = issued + 1
      BY <2>0, <2>1, NewCRType DEF CreateCR, TypeOK, StoreTypeOK
    <3>2. \A c \in crs : c.uid \in Nat /\ c.uid <= issued
      BY <2>0 DEF Inv, UidsIssued, TypeOK, Tenant
    <3>3. issued \in Nat
      BY <2>0 DEF TypeOK, StoreTypeOK
    <3>4. \A c \in crs, d \in crs' : c.uid = d.uid => c = d
      BY <3>1, <3>2, <3>3 DEF Inv, UniqueUid
    <3>5. QED
      BY <3>4 DEF KeepsEdits
  <2>2. ASSUME NEW c \in crs, NEW s \in SpecNames, NEW t \in CRTiers,
               NEW e \in Emails, EditCR(c, s, t, e)
        PROVE  KeepsEdits
    <3> DEFINE w == [c EXCEPT !.specName = s, !.tier = t, !.email = e]
    <3>1. w \in Tenant /\ Revises(w, c)
      BY <2>0 DEF TypeOK, Tenant, Revises
    <3>2. Write(c, w)
      BY <2>2 DEF EditCR
    <3>3. spent["edits"] \in Nat /\ spent'["edits"] = spent["edits"] + 1
      BY <2>0, <2>2 DEF EditCR, Spend, TypeOK, Bounded
    <3>4. QED
      BY <3>1, <3>2, <3>3, WriteKeepsEdits
  <2>3. ASSUME NEW c \in crs, DeleteCR(c) PROVE KeepsEdits
    <3> DEFINE w == [c EXCEPT !.deleting = TRUE]
    <3>1. w \in Tenant /\ Revises(w, c) /\ UserPart(w) = UserPart(c)
      BY <2>0 DEF TypeOK, Tenant, Revises, UserPart
    <3>2. Write(c, w) \/ crs' \subseteq crs
      BY <2>3 DEF DeleteCR
    <3>3. QED
      BY <3>1, <3>2, WriteKeepsEdits, SubsetKeepsEdits
  <2>4. CASE addFinalizer
    <3> DEFINE w == [cur EXCEPT !.finalizer = TRUE]
    <3>1. CASE Conflict(cur)
      BY <2>4, <3>1, SubsetKeepsEdits DEF addFinalizer
    <3>2. CASE ~Conflict(cur)
      <4>1. cur \in crs
        BY <2>4, <3>2, NoConflict DEF addFinalizer, Inv, CurFacts
      <4>2. w \in Tenant /\ Revises(w, cur) /\ UserPart(w) = UserPart(cur)
        BY <2>0, <4>1 DEF TypeOK, Tenant, Revises, UserPart
      <4>3. QED
        BY <2>4, <3>2, <4>1, <4>2, WriteKeepsEdits DEF addFinalizer
    <3>3. QED
      BY <3>1, <3>2
  <2>5. CASE UpdateStatus
    <3> DEFINE w == [cur EXCEPT !.phase = "Active", !.statusNs = NsName(cur)]
    <3>1. CASE Conflict(cur)
      BY <2>5, <3>1, SubsetKeepsEdits DEF UpdateStatus
    <3>2. CASE ~Conflict(cur)
      <4>1. cur \in crs
        BY <2>5, <3>2, NoConflict DEF UpdateStatus, Inv, CurFacts
      <4>2. NsName(cur) \in Seq(Segment)
        BY <2>0, <4>1, BuildType DEF TypeOK, Build, buildNamespace, Object,
           ManagedObject, Kinds
      <4>3. w \in Tenant /\ Revises(w, cur) /\ UserPart(w) = UserPart(cur)
        BY <2>0, <4>1, <4>2 DEF TypeOK, Tenant, Revises, UserPart
      <4>4. QED
        BY <2>5, <3>2, <4>1, <4>3, WriteKeepsEdits DEF UpdateStatus
    <3>3. QED
      BY <3>1, <3>2
  <2>6. CASE RemoveFinalizer
    BY <2>6, SubsetKeepsEdits DEF RemoveFinalizer
  <2>7. CASE \/ DeleteRow \/ GetRow \/ CreateRow \/ UpdateRow
             \/ (\E kind \in Kinds : Apply(kind) \/ ApplyStale(kind))
             \/ (\E n \in CRNames : BeginReconcile(n)) \/ Fail \/ Crash
             \/ (\E o \in objs : Tamper(o)) \/ Cluster
    <3>1. UNCHANGED crs
      BY <2>7 DEF DeleteRow, GetRow, CreateRow, UpdateRow, Apply, ApplyStale,
         BeginReconcile, Fail, Crash, Tamper, Cluster, Deliver, Resync, GcCollect,
         FinalizeNamespace, crVars
    <3>2. QED
      BY <3>1, SubsetKeepsEdits
  <2>8. QED
    BY <2>1, <2>2, <2>3, <2>4, <2>5, <2>6, <2>7 DEF Next, Worker, User
<1>2. QED
  BY <1>1, Invariance, PTL DEF Spec, NoLostEdit, KeepsEdits

-----------------------------------------------------------------------------
(***************************************************************************)
(* Refinement: the controller implements TenantLifecycle.                  *)
(***************************************************************************)
HeldUids == UidsOf({c \in crs : c.finalizer})

DoomedUids == UidsOf({c \in crs : c.deleting})

StoredIds == {r.id : r \in {x \in tenants : ~x.deleted}}

DroppedIds == {r.id : r \in {x \in tenants : x.deleted}}

\* The uids in play are within the bound.
LEMMA UidRange ==
  ASSUME Inv, NEW c \in crs
  PROVE  c.uid \in 1..MaxIds
<1>1. c.uid \in Nat /\ issued \in Nat
  BY DEF Inv, TypeOK, StoreTypeOK, Tenant
<1>2. 1 <= c.uid /\ c.uid <= issued /\ issued <= MaxIds
  BY DEF Inv, UidsIssued
<1>3. QED
  BY <1>1, <1>2, MaxIdsAssumption

\* Rows and resources are as they were.
LEMMA LifeStutters ==
  ASSUME UNCHANGED <<crs, tenants, issued>>
  PROVE  UNCHANGED Life!lifeVars
BY DEF Life!lifeVars, UidsOf

\* An update of a stored tenant can only set its two marks.
LEMMA WriteMarks ==
  ASSUME Inv, NEW v \in crs, NEW w \in Tenant, Revises(w, v), Write(v, w)
  PROVE  /\ UidsOf(crs)' = UidsOf(crs)
         /\ HeldUids' = HeldUids \cup (IF w.finalizer THEN {v.uid} ELSE {})
         /\ DoomedUids' = DoomedUids \cup (IF w.deleting THEN {v.uid} ELSE {})
<1> DEFINE a == Accepted(v, w)
<1>1. /\ a.uid = v.uid /\ crs' = (crs \ {v}) \cup {a} /\ UniqueUid(crs)
  BY WriteEffect DEF Inv, TypeOK
<1>2. a.finalizer = w.finalizer /\ a.deleting = w.deleting
  BY DEF Accepted, Tenant
<1>3. v.finalizer => w.finalizer
  BY DEF Revises
<1>4. v.deleting => w.deleting
  BY DEF Revises
<1>5. UidsOf(crs)' = UidsOf(crs)
  BY <1>1 DEF UidsOf
<1>6. HeldUids' = HeldUids \cup (IF w.finalizer THEN {v.uid} ELSE {})
  BY <1>1, <1>2, <1>3 DEF UidsOf, HeldUids, UniqueUid
<1>7. DoomedUids' = DoomedUids \cup (IF w.deleting THEN {v.uid} ELSE {})
  BY <1>1, <1>2, <1>4 DEF UidsOf, DoomedUids, UniqueUid
<1>8. QED
  BY <1>5, <1>6, <1>7

\* A stored tenant that is removed takes its uid out of every set.
LEMMA RemoveMarks ==
  ASSUME Inv, NEW v \in crs, crs' = crs \ {v}
  PROVE  /\ UidsOf(crs)' = UidsOf(crs) \ {v.uid}
         /\ HeldUids' = HeldUids \ {v.uid}
         /\ DoomedUids' = DoomedUids \ {v.uid}
BY DEF Inv, UniqueUid, UidsOf, HeldUids, DoomedUids

\* Every step of the controller is a step of the tenant's life, or none.
LEMMA LifeStep ==
  Inv /\ NoOrphanRow /\ [Next]_vars => [Life!Next]_(Life!lifeVars)
<1> SUFFICES ASSUME Inv, NoOrphanRow, [Next]_vars
             PROVE  Life!Next \/ UNCHANGED Life!lifeVars
  OBVIOUS
<1>0. TypeOK
  BY DEF Inv
<1>1. CASE UNCHANGED vars
  BY <1>1, LifeStutters DEF vars, storeVars, crVars
<1>2. ASSUME NEW n \in CRNames, NEW s \in SpecNames, NEW t \in CRTiers,
             NEW e \in Emails, CreateCR(n, s, t, e)
      PROVE  Life!Next
  <2> DEFINE x == NewCR(n, s, t, e)
  <2>1. /\ crs' = crs \cup {x} /\ issued' = issued + 1 /\ issued < MaxIds
        /\ UNCHANGED tenants
    BY <1>2 DEF CreateCR, FreshId
  <2>2. issued \in Nat /\ x.uid = issued + 1 /\ ~x.finalizer /\ ~x.deleting
    BY <1>0 DEF TypeOK, StoreTypeOK, NewCR, FreshId
  <2>3. issued + 1 \in 1..MaxIds /\ issued + 1 \notin 1..issued
    BY <2>1, <2>2, MaxIdsAssumption
  <2>4. (1..issued)' = (1..issued) \cup {issued + 1}
    BY <2>1, <2>2
  <2>5. UidsOf(crs)' = UidsOf(crs) \cup {issued + 1}
    BY <2>1, <2>2 DEF UidsOf
  <2>6. UNCHANGED <<HeldUids, DoomedUids, StoredIds, DroppedIds>>
    BY <2>1, <2>2 DEF HeldUids, DoomedUids, StoredIds, DroppedIds, UidsOf
  <2>7. Life!Request(issued + 1)
    BY <2>3, <2>4, <2>5, <2>6 DEF Life!Request, HeldUids, DoomedUids, StoredIds,
       DroppedIds
  <2>8. QED
    BY <2>3, <2>7 DEF Life!Next
<1>3. ASSUME NEW c \in crs, NEW s \in SpecNames, NEW t \in CRTiers,
             NEW e \in Emails, EditCR(c, s, t, e)
      PROVE  UNCHANGED Life!lifeVars
  <2> DEFINE w == [c EXCEPT !.specName = s, !.tier = t, !.email = e]
  <2>1. w \in Tenant /\ Revises(w, c)
    BY <1>0 DEF TypeOK, Tenant, Revises
  <2>2. w.finalizer = c.finalizer /\ w.deleting = c.deleting
    BY <1>0 DEF TypeOK, Tenant
  <2>3. Write(c, w) /\ UNCHANGED <<tenants, issued>>
    BY <1>3 DEF EditCR, storeVars
  <2>4. UNCHANGED <<UidsOf(crs), HeldUids, DoomedUids>>
    BY <2>1, <2>2, <2>3, WriteMarks DEF HeldUids, DoomedUids, UidsOf
  <2>5. QED
    BY <2>3, <2>4 DEF Life!lifeVars, HeldUids, DoomedUids
<1>4. ASSUME NEW c \in crs, DeleteCR(c)
      PROVE  Life!Next
  <2>1. UNCHANGED <<tenants, issued>> /\ ~c.deleting
    BY <1>4 DEF DeleteCR, storeVars
  <2>2. UNCHANGED <<1..issued, StoredIds, DroppedIds>>
    BY <2>1 DEF StoredIds, DroppedIds
  <2>3. \A d \in crs : d.uid = c.uid => d = c
    BY DEF Inv, UniqueUid
  <2>4. CASE c.finalizer
    <3> DEFINE w == [c EXCEPT !.deleting = TRUE]
    <3>1. w \in Tenant /\ Revises(w, c) /\ w.deleting /\ w.finalizer
      BY <1>0, <2>4 DEF TypeOK, Tenant, Revises
    <3>2. Write(c, w)
      BY <1>4, <2>4 DEF DeleteCR
    <3>3. c.uid \in HeldUids /\ c.uid \notin DoomedUids
      BY <2>1, <2>3, <2>4 DEF HeldUids, DoomedUids, UidsOf
    <3>4. /\ UidsOf(crs)' = UidsOf(crs) /\ HeldUids' = HeldUids
          /\ DoomedUids' = DoomedUids \cup {c.uid}
      BY <3>1, <3>2, <3>3, WriteMarks
    <3>5. Life!Doom(c.uid)
      BY <2>2, <3>3, <3>4 DEF Life!Doom, HeldUids, DoomedUids, StoredIds,
         DroppedIds
    <3>6. QED
      BY <3>5, UidRange DEF Life!Next
  <2>5. CASE ~c.finalizer
    <3>1. crs' = crs \ {c}
      BY <1>4, <2>5 DEF DeleteCR
    <3>2. /\ c.uid \in UidsOf(crs) /\ c.uid \notin HeldUids
          /\ c.uid \notin DoomedUids
      BY <2>1, <2>3, <2>5 DEF HeldUids, DoomedUids, UidsOf
    <3>3. /\ UidsOf(crs)' = UidsOf(crs) \ {c.uid}
          /\ HeldUids' = HeldUids /\ DoomedUids' = DoomedUids
      <4>1. /\ UidsOf(crs)' = UidsOf(crs) \ {c.uid}
            /\ HeldUids' = HeldUids \ {c.uid}
            /\ DoomedUids' = DoomedUids \ {c.uid}
        BY <3>1, RemoveMarks
      <4>2. QED
        BY <3>2, <4>1
    <3>4. Life!Withdraw(c.uid)
      BY <2>2, <3>2, <3>3 DEF Life!Withdraw, HeldUids, DoomedUids, StoredIds,
         DroppedIds
    <3>5. QED
      BY <3>4, UidRange DEF Life!Next
  <2>6. QED
    BY <2>4, <2>5
<1>5. CASE addFinalizer
  <2>1. UNCHANGED <<tenants, issued>> /\ pc # "idle"
    BY <1>5 DEF addFinalizer, storeVars
  <2>2. CASE Conflict(cur)
    BY <1>5, <2>1, <2>2, LifeStutters DEF addFinalizer
  <2>3. CASE ~Conflict(cur)
    <3> DEFINE w == [cur EXCEPT !.finalizer = TRUE]
    <3>1. cur \in crs
      BY <2>1, <2>3, NoConflict DEF Inv, CurFacts
    <3>2. w \in Tenant /\ Revises(w, cur) /\ w.finalizer
          /\ w.deleting = cur.deleting
      BY <1>0, <3>1 DEF TypeOK, Tenant, Revises
    <3>3. Write(cur, w)
      BY <1>5, <2>3 DEF addFinalizer
    <3>4. cur.deleting => cur.uid \in DoomedUids
      BY <3>1 DEF DoomedUids, UidsOf
    <3>5. /\ UidsOf(crs)' = UidsOf(crs) /\ DoomedUids' = DoomedUids
          /\ HeldUids' = HeldUids \cup {cur.uid}
      BY <3>1, <3>2, <3>3, <3>4, WriteMarks
    <3>6. UNCHANGED <<1..issued, StoredIds, DroppedIds>>
      BY <2>1 DEF StoredIds, DroppedIds
    <3>7. CASE cur.uid \in HeldUids
      BY <3>5, <3>6, <3>7 DEF Life!lifeVars, HeldUids, DoomedUids, StoredIds,
         DroppedIds
    <3>8. CASE cur.uid \notin HeldUids
      <4>1. cur.uid \in UidsOf(crs)
        BY <3>1 DEF UidsOf
      <4>2. Life!Hold(cur.uid)
        BY <3>5, <3>6, <3>8, <4>1 DEF Life!Hold, HeldUids, DoomedUids, StoredIds,
           DroppedIds
      <4>3. QED
        BY <3>1, <4>2, UidRange DEF Life!Next
    <3>9. QED
      BY <3>7, <3>8
  <2>4. QED
    BY <2>2, <2>3
<1>6. CASE DeleteRow
  <2>1. /\ pc = "deleteRow" /\ DeleteTenant(cur.uid) /\ UNCHANGED <<crs, issued>>
    BY <1>6 DEF DeleteRow
  <2>2. UNCHANGED <<1..issued, UidsOf(crs), HeldUids, DoomedUids>>
    BY <2>1 DEF HeldUids, DoomedUids, UidsOf
  <2>3. \A r \in tenants : LET d == [r EXCEPT !.deleted = TRUE]
                          IN  d.deleted /\ d.id = r.id
    BY <1>0 DEF TypeOK, StoreTypeOK, TenantRow
  <2>4. StoredIds' = StoredIds \ {cur.uid}
    BY <2>1, <2>3 DEF StoredIds, DeleteTenant
  <2>5. DroppedIds' = DroppedIds \cup (StoredIds \cap {cur.uid})
    <3>1. ASSUME NEW i \in DroppedIds'
          PROVE  i \in DroppedIds \cup (StoredIds \cap {cur.uid})
      <4>1. PICK d \in tenants' : d.id = i /\ d.deleted
        BY <3>1 DEF DroppedIds
      <4>2. PICK r \in tenants : d = IF r.id = cur.uid /\ ~r.deleted
                                      THEN [r EXCEPT !.deleted = TRUE] ELSE r
        BY <2>1, <4>1 DEF DeleteTenant
      <4>3. QED
        BY <2>3, <4>1, <4>2 DEF StoredIds, DroppedIds
    <3>2. ASSUME NEW r \in tenants, r.deleted \/ r.id = cur.uid
          PROVE  r.id \in DroppedIds'
      <4> DEFINE d == IF r.id = cur.uid /\ ~r.deleted
                        THEN [r EXCEPT !.deleted = TRUE] ELSE r
      <4>1. d \in tenants'
        BY <2>1, <3>2 DEF DeleteTenant
      <4>2. d.id = r.id /\ d.deleted
        BY <2>3, <3>2
      <4>3. QED
        BY <4>1, <4>2 DEF DroppedIds
    <3>3. QED
      BY <3>1, <3>2 DEF StoredIds, DroppedIds
  <2>6. CASE cur.uid \notin StoredIds
    BY <2>2, <2>4, <2>5, <2>6 DEF Life!lifeVars, HeldUids, DoomedUids, StoredIds,
       DroppedIds
  <2>7. CASE cur.uid \in StoredIds
    <3>1. Held(cur.uid)
      BY <2>7 DEF NoOrphanRow, StoredIds
    <3>2. PICK c \in crs : c.uid = cur.uid
      BY <3>1 DEF Held
    <3>3. c.deleting
      BY <2>1, <3>2 DEF Inv, CurFacts, Copy, OlderVersion
    <3>4. cur.uid \in DoomedUids
      BY <3>2, <3>3 DEF DoomedUids, UidsOf
    <3>5. Life!Drop(c.uid)
      BY <2>2, <2>4, <2>5, <2>7, <3>2, <3>4 DEF Life!Drop, HeldUids, DoomedUids,
         StoredIds, DroppedIds
    <3>6. QED
      BY <3>5, UidRange DEF Life!Next
  <2>8. QED
    BY <2>6, <2>7
<1>7. CASE RemoveFinalizer
  <2>1. UNCHANGED <<tenants, issued>> /\ pc = "removeFinalizer"
    BY <1>7 DEF RemoveFinalizer, storeVars
  <2>2. CASE Conflict(cur)
    BY <1>7, <2>1, <2>2, LifeStutters DEF RemoveFinalizer
  <2>3. CASE ~Conflict(cur)
    <3>1. cur \in crs
      BY <2>1, <2>3, NoConflict DEF Inv, CurFacts
    <3>2. crs' = crs \ {cur}
      BY <1>7, <2>3, <3>1, StoredIsIt DEF RemoveFinalizer, Inv
    <3>3. cur.uid \in DoomedUids
      BY <2>1, <3>1 DEF Inv, CurFacts, DoomedUids, UidsOf
    <3>4. cur.uid \notin StoredIds
      BY <2>1 DEF Inv, CurFacts, GetTenantByID, StoredIds
    <3>5. UNCHANGED <<1..issued, StoredIds, DroppedIds>>
      BY <2>1 DEF StoredIds, DroppedIds
    <3>6. Life!Release(cur.uid)
      BY <3>1, <3>2, <3>3, <3>4, <3>5, RemoveMarks DEF Life!Release, HeldUids,
         DoomedUids, StoredIds, DroppedIds
    <3>7. QED
      BY <3>1, <3>6, UidRange DEF Life!Next
  <2>4. QED
    BY <2>2, <2>3
<1>8. CASE CreateRow
  <2>1. UNCHANGED <<crs, issued>> /\ pc = "createRow"
    BY <1>8 DEF CreateRow
  <2>2. CASE UNCHANGED tenants
    BY <2>1, <2>2, LifeStutters
  <2>3. CASE ~UNCHANGED tenants
    <3>1. tenants' = tenants \cup {Row(cur)} /\ ~KeyTaken(cur)
      BY <1>8, <2>3 DEF CreateRow, CreateTenant, UniqueViolation
    <3>2. UNCHANGED <<1..issued, UidsOf(crs), HeldUids, DoomedUids>>
      BY <2>1 DEF HeldUids, DoomedUids, UidsOf
    <3>3. Row(cur).id = cur.uid /\ ~Row(cur).deleted
      BY DEF Row
    <3>4. StoredIds' = StoredIds \cup {cur.uid} /\ DroppedIds' = DroppedIds
      BY <3>1, <3>3 DEF StoredIds, DroppedIds
    <3>5. cur.uid \notin StoredIds \cup DroppedIds
      BY <3>1 DEF KeyTaken, StoredIds, DroppedIds
    <3>6. Held(cur.uid)
      BY <2>1 DEF Inv, CurFacts, Copy, Provisioning
    <3>7. PICK c \in crs : c.uid = cur.uid /\ c.finalizer
      BY <3>6 DEF Held
    <3>8. cur.uid \in HeldUids
      BY <3>7 DEF HeldUids, UidsOf
    <3>9. Life!Store(c.uid)
      BY <3>2, <3>4, <3>5, <3>7, <3>8 DEF Life!Store, HeldUids, DoomedUids,
         StoredIds, DroppedIds
    <3>10. QED
      BY <3>9, UidRange DEF Life!Next
  <2>4. QED
    BY <2>2, <2>3
<1>9. CASE UpdateRow
  <2>1. UpdateTenant(cur) /\ UNCHANGED <<crs, issued>>
    BY <1>9 DEF UpdateRow
  <2>2. \A r \in tenants :
          LET u == [r EXCEPT !.tier = cur.tier, !.ownerEmail = cur.email]
          IN  u.id = r.id /\ u.deleted = r.deleted
    BY <1>0 DEF TypeOK, StoreTypeOK, TenantRow
  <2>3. UNCHANGED <<StoredIds, DroppedIds>>
    <3> DEFINE F(r) == IF r.id = cur.uid /\ ~r.deleted
                         THEN [r EXCEPT !.tier = cur.tier, !.ownerEmail = cur.email]
                         ELSE r
    <3>1. tenants' = {F(r) : r \in tenants}
      BY <2>1 DEF UpdateTenant
    <3>2. \A r \in tenants : F(r).id = r.id /\ F(r).deleted = r.deleted
      BY <2>2
    <3> HIDE DEF F
    <3>3. QED
      BY <3>1, <3>2 DEF StoredIds, DroppedIds
  <2>4. QED
    BY <2>1, <2>3 DEF Life!lifeVars, StoredIds, DroppedIds, UidsOf
<1>10. CASE UpdateStatus
  <2> DEFINE w == [cur EXCEPT !.phase = "Active", !.statusNs = NsName(cur)]
  <2>1. UNCHANGED <<tenants, issued>> /\ pc = "status"
    BY <1>10 DEF UpdateStatus, storeVars
  <2>2. CASE Conflict(cur)
    BY <1>10, <2>1, <2>2, LifeStutters DEF UpdateStatus
  <2>3. CASE ~Conflict(cur)
    <3>1. cur \in crs
      BY <2>1, <2>3, NoConflict DEF Inv, CurFacts
    <3>2. cur \in Tenant /\ NsName(cur) \in Seq(Segment)
      BY <1>0, <3>1, BuildType DEF TypeOK, Build, buildNamespace, Object,
         ManagedObject, Kinds
    <3>3. w \in Tenant /\ Revises(w, cur) /\ w.finalizer = cur.finalizer
          /\ w.deleting = cur.deleting
      BY <3>2 DEF Tenant, Revises
    <3>4. Write(cur, w)
      BY <1>10, <2>3 DEF UpdateStatus
    <3>5. /\ cur.finalizer => cur.uid \in HeldUids
          /\ cur.deleting => cur.uid \in DoomedUids
      BY <3>1 DEF HeldUids, DoomedUids, UidsOf
    <3>6. UNCHANGED <<UidsOf(crs), HeldUids, DoomedUids>>
      BY <3>1, <3>3, <3>4, <3>5, WriteMarks
    <3>7. QED
      BY <2>1, <3>6 DEF Life!lifeVars, HeldUids, DoomedUids
  <2>4. QED
    BY <2>2, <2>3
<1>11. CASE \/ GetRow
            \/ (\E kind \in Kinds : Apply(kind) \/ ApplyStale(kind))
            \/ (\E n \in CRNames : BeginReconcile(n)) \/ Fail \/ Crash
            \/ (\E o \in objs : Tamper(o)) \/ Cluster
  <2>1. UNCHANGED <<crs, tenants, issued>>
    BY <1>11 DEF GetRow, Apply, ApplyStale, BeginReconcile, Fail, Crash, Tamper,
       Cluster, Deliver, Resync, GcCollect, FinalizeNamespace, crVars, storeVars
  <2>2. QED
    BY <2>1, LifeStutters
<1>12. QED
  BY <1>1, <1>2, <1>3, <1>4, <1>5, <1>6, <1>7, <1>8, <1>9, <1>10, <1>11
     DEF Next, Worker, User

\* The controller, with its caches, conflicts, retries and crashes, implements
\* the lifecycle: rows are dropped before resources are let go, and nothing that
\* is gone comes back, for any number of tenants and faults.
THEOREM Refinement == Spec => ImplementsLifecycle
<1>1. Init => Life!Init
  BY DEF Init, StoreInit, Life!Init, UidsOf
<1>2. Inv /\ NoOrphanRow /\ [Next]_vars => [Life!Next]_(Life!lifeVars)
  BY LifeStep
<1>3. QED
  BY <1>1, <1>2, Invariance, OrphanFreedom, PTL
     DEF Spec, ImplementsLifecycle, Life!Spec

=============================================================================
