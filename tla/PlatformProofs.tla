--------------------------- MODULE PlatformProofs ---------------------------
(***************************************************************************)
(* Theorems about Platform, for any number of resources, requests and      *)
(* faults: NoOrphanControllerRow, DeletedRowsFrozen and ApiRowsUntouched.  *)
(*                                                                         *)
(* The controller's invariant Inv (TenantControllerProofs) says nothing of *)
(* rows that others write, so it survives the API server's steps.  What    *)
(* keeps the two processes out of each other's rows is that an id is       *)
(* generated once: it is a resource's uid or an API tenant's, never both.  *)
(***************************************************************************)
EXTENDS Platform, TenantControllerProofs

\* No copy of a Tenant resource carries the id of a tenant answered 201.
Apart == /\ \A v \in crs \cup cache : v.uid \notin created
         /\ pc # "idle" => cur.uid \notin created

\* The row of a tenant that was created and deleted through the API is deleted:
\* a second DELETE changes nothing.
DeletedOwn == \A r \in tenants : r.id \in created \cap deleted => r.deleted

PlatformInv == /\ Inv
               /\ Api!TypeOK
               /\ Apart
               /\ DeletedOwn
               /\ NoOrphanControllerRow

\* Only an id that was generated is answered.
LEMMA CreatedIssued == Api!TypeOK => created \subseteq 1..issued
BY DEF Api!TypeOK, created

-----------------------------------------------------------------------------
(***************************************************************************)
(* What a step of the controller does to rows and uids.                    *)
(***************************************************************************)
\* The worker writes the row of the tenant in hand only, and not once it is
\* deleted.
OwnRowOnly == /\ \A r \in tenants' : r \in tenants \/ (pc # "idle" /\ r.id = cur.uid)
              /\ \A r \in tenants : r \in tenants' \/ (pc # "idle" /\ r.id = cur.uid)
              /\ \A r \in tenants : r.deleted => r \in tenants'

\* Every step of the controller leaves the others' rows and deleted rows alone.
LEMMA OwnRowStep == TypeOK /\ [Next]_vars => OwnRowOnly
<1> SUFFICES ASSUME TypeOK, [Next]_vars PROVE OwnRowOnly
  OBVIOUS
<1>1. CASE UNCHANGED tenants
  BY <1>1 DEF OwnRowOnly
<1>2. CASE DeleteRow
  <2>1. DeleteTenant(cur.uid) /\ pc # "idle"
    BY <1>2 DEF DeleteRow
  <2>2. \A r \in tenants : [r EXCEPT !.deleted = TRUE].id = r.id
    BY DEF TypeOK, StoreTypeOK, TenantRow
  <2>3. QED
    BY <2>1, <2>2 DEF DeleteTenant, OwnRowOnly
<1>3. CASE CreateRow
  <2>1. pc # "idle"
    BY <1>3 DEF CreateRow
  <2>2. tenants' = tenants \/ tenants' = tenants \cup {Row(cur)}
    BY <1>3 DEF CreateRow, CreateTenant
  <2>3. QED
    BY <2>1, <2>2 DEF OwnRowOnly, Row
<1>4. CASE UpdateRow
  <2>1. UpdateTenant(cur) /\ pc # "idle"
    BY <1>4 DEF UpdateRow
  <2>2. \A r \in tenants :
          [r EXCEPT !.tier = cur.tier, !.ownerEmail = cur.email].id = r.id
    BY DEF TypeOK, StoreTypeOK, TenantRow
  <2>3. QED
    BY <2>1, <2>2 DEF UpdateTenant, OwnRowOnly
<1>5. CASE \/ addFinalizer \/ RemoveFinalizer \/ GetRow \/ UpdateStatus
           \/ (\E kind \in Kinds : Apply(kind) \/ ApplyStale(kind))
           \/ (\E n \in CRNames : BeginReconcile(n)) \/ Fail \/ Crash
           \/ User \/ Cluster \/ UNCHANGED vars
  <2>1. UNCHANGED tenants
    BY <1>5 DEF addFinalizer, RemoveFinalizer, GetRow, UpdateStatus, Apply,
       ApplyStale, BeginReconcile, Fail, Crash, User, CreateCR, EditCR, DeleteCR,
       Tamper, Cluster, Deliver, Resync, GcCollect, FinalizeNamespace, vars,
       storeVars
  <2>2. QED
    BY <1>1, <2>1
<1>6. QED
  BY <1>2, <1>3, <1>4, <1>5 DEF Next, Worker

\* Uids come from the API server, which issues each once, and are handed on.
HandsOnUids ==
  /\ \A v \in crs' \cup cache' : \/ \E u \in crs \cup cache : u.uid = v.uid
                                 \/ issued' = issued + 1 /\ v.uid = issued + 1
  /\ pc' # "idle" => \/ \E u \in cache : u.uid = cur'.uid
                     \/ pc # "idle" /\ cur'.uid = cur.uid
  /\ issued' \in {issued, issued + 1}

\* Every step of the controller hands on uids or takes a fresh one.
LEMMA UidsStep == Inv /\ [Next]_vars => HandsOnUids
<1> SUFFICES ASSUME Inv, [Next]_vars PROVE HandsOnUids
  OBVIOUS
<1>0. TypeOK
  BY DEF Inv
<1>a. ASSUME UNCHANGED <<crs, cache, issued>>,
             \/ pc' = "idle"
             \/ pc # "idle" /\ cur' = cur
             \/ UNCHANGED <<pc, cur>>
      PROVE  HandsOnUids
  BY <1>a DEF HandsOnUids
<1>b. ASSUME NEW v \in crs, NEW w \in Tenant, Revises(w, v), Write(v, w),
             UNCHANGED <<cache, issued>>,
             \/ pc' = "idle"
             \/ UNCHANGED <<pc, cur>>
             \/ pc # "idle" /\ v = cur /\ cur' = Accepted(v, w)
      PROVE  HandsOnUids
  <2>1. Accepted(v, w).uid = v.uid /\ crs' = (crs \ {v}) \cup {Accepted(v, w)}
    BY <1>b, WriteEffect DEF Inv, TypeOK
  <2>2. QED
    BY <1>b, <2>1 DEF HandsOnUids
<1>c. ASSUME crs' \subseteq crs, cache' \subseteq crs \cup cache,
             UNCHANGED issued, pc' = "idle" \/ UNCHANGED <<pc, cur>>
      PROVE  HandsOnUids
  BY <1>c DEF HandsOnUids
<1>1. CASE UNCHANGED vars
  BY <1>1, <1>a DEF vars, storeVars, crVars, workVars
<1>2. ASSUME NEW n \in CRNames, NEW s \in SpecNames, NEW t \in CRTiers,
             NEW e \in Emails, CreateCR(n, s, t, e)
      PROVE  HandsOnUids
  <2>1. NewCR(n, s, t, e).uid = issued + 1
    BY DEF NewCR, FreshId
  <2>2. QED
    BY <1>2, <2>1 DEF CreateCR, HandsOnUids, FreshId, workVars
<1>3. ASSUME NEW c \in crs, NEW s \in SpecNames, NEW t \in CRTiers,
             NEW e \in Emails, EditCR(c, s, t, e)
      PROVE  HandsOnUids
  <2> DEFINE w == [c EXCEPT !.specName = s, !.tier = t, !.email = e]
  <2>1. w \in Tenant /\ Revises(w, c)
    BY <1>0 DEF TypeOK, Tenant, Revises
  <2>2. QED
    BY <1>3, <1>b, <2>1 DEF EditCR, storeVars, workVars
<1>4. ASSUME NEW c \in crs, DeleteCR(c) PROVE HandsOnUids
  <2> DEFINE w == [c EXCEPT !.deleting = TRUE]
  <2>1. w \in Tenant /\ Revises(w, c)
    BY <1>0 DEF TypeOK, Tenant, Revises
  <2>2. UNCHANGED <<cache, issued, pc, cur>>
    BY <1>4 DEF DeleteCR, storeVars, workVars
  <2>3. Write(c, w) \/ crs' \subseteq crs
    BY <1>4 DEF DeleteCR
  <2>4. QED
    BY <1>b, <1>c, <2>1, <2>2, <2>3
<1>5. CASE addFinalizer
  <2> DEFINE w == [cur EXCEPT !.finalizer = TRUE]
  <2>1. UNCHANGED <<cache, issued>> /\ pc' = "idle" /\ pc # "idle"
    BY <1>5 DEF addFinalizer, Requeue, storeVars
  <2>2. CASE Conflict(cur)
    BY <1>5, <1>a, <2>1, <2>2 DEF addFinalizer
  <2>3. CASE ~Conflict(cur)
    <3>1. cur \in crs
      BY <2>1, <2>3, NoConflict DEF Inv, CurFacts
    <3>2. w \in Tenant /\ Revises(w, cur)
      BY <1>0, <3>1 DEF TypeOK, Tenant, Revises
    <3>3. QED
      BY <1>5, <1>b, <2>1, <2>3, <3>1, <3>2 DEF addFinalizer
  <2>4. QED
    BY <2>2, <2>3
<1>6. CASE UpdateStatus
  <2> DEFINE w == [cur EXCEPT !.phase = "Active", !.statusNs = NsName(cur)]
  <2>1. UNCHANGED <<cache, issued>> /\ pc # "idle"
    BY <1>6 DEF UpdateStatus, storeVars
  <2>2. CASE Conflict(cur)
    BY <1>6, <1>a, <2>1, <2>2 DEF UpdateStatus, Requeue
  <2>3. CASE ~Conflict(cur)
    <3>1. cur \in crs
      BY <2>1, <2>3, NoConflict DEF Inv, CurFacts
    <3>2. cur \in Tenant /\ NsName(cur) \in Seq(Segment)
      BY <1>0, <3>1, BuildType DEF TypeOK, Build, buildNamespace, Object,
         ManagedObject, Kinds
    <3>3. w \in Tenant /\ Revises(w, cur)
      BY <3>2 DEF Tenant, Revises
    <3>4. QED
      BY <1>6, <1>b, <2>1, <2>3, <3>1, <3>3 DEF UpdateStatus
  <2>4. QED
    BY <2>2, <2>3
<1>7. CASE RemoveFinalizer \/ Crash
  BY <1>7, <1>c DEF RemoveFinalizer, Requeue, Done, Crash, storeVars
<1>8. ASSUME NEW n \in CRNames, Deliver(n) PROVE HandsOnUids
  BY <1>8, <1>c DEF Deliver, Named, storeVars, workVars
<1>9. ASSUME NEW n \in CRNames, BeginReconcile(n) PROVE HandsOnUids
  BY <1>9 DEF BeginReconcile, Named, HandsOnUids, storeVars, workVars
<1>10. CASE \/ DeleteRow \/ GetRow \/ CreateRow \/ UpdateRow \/ Fail
            \/ (\E kind \in Kinds : Apply(kind) \/ ApplyStale(kind))
  <2>1. UNCHANGED <<crs, cache, issued>>
    BY <1>10 DEF DeleteRow, GetRow, CreateRow, UpdateRow, Fail, Apply, ApplyStale,
       storeVars
  <2>2. pc # "idle"
    BY <1>10 DEF DeleteRow, GetRow, CreateRow, UpdateRow, Fail, Apply, ApplyStale,
       Kinds
  <2>3. pc' = "idle" \/ cur' = cur
    BY <1>10 DEF DeleteRow, GetRow, CreateRow, UpdateRow, Fail, Apply, ApplyStale,
       AfterApply, Requeue, Done, Goto
  <2>4. QED
    BY <1>a, <2>1, <2>2, <2>3
<1>11. CASE \/ (\E o \in objs : Tamper(o) \/ GcCollect(o))
            \/ (\E ns \in terminating : FinalizeNamespace(ns))
            \/ (\E n \in CRNames : Resync(n))
  <2>1. UNCHANGED <<crs, cache, issued, pc, cur>>
    BY <1>11 DEF Tamper, GcCollect, FinalizeNamespace, Resync, storeVars, crVars,
       workVars
  <2>2. QED
    BY <1>a, <2>1
<1>12. QED
  BY <1>1, <1>2, <1>3, <1>4, <1>5, <1>6, <1>7, <1>8, <1>9, <1>10, <1>11
     DEF Next, Worker, User, Cluster

-----------------------------------------------------------------------------
(***************************************************************************)
(* The invariant is preserved.                                             *)
(***************************************************************************)
\* A step of the controller.
LEMMA ControllerStep ==
  ASSUME PlatformInv, [Next]_vars, UNCHANGED apiVars
  PROVE  PlatformInv'
<1>1. Inv' /\ TypeOK /\ TypeOK' /\ HandsOnUids /\ OwnRowOnly /\ RowsKept
  BY InvStep, TypeStep, UidsStep, OwnRowStep, RowsStep DEF PlatformInv, Inv
<1>2. UNCHANGED <<call, answered, created, deleted>>
  BY DEF apiVars, created
<1>3. issued \in Nat /\ created \subseteq 1..issued /\ deleted \subseteq 1..issued
  BY CreatedIssued DEF PlatformInv, Api!TypeOK, Api!StoreTypeOK
<1>4. Api!TypeOK'
  <2>1. (1..issued) \subseteq (1..issued)'
    BY <1>1, <1>3 DEF HandsOnUids
  <2>2. Api!StoreTypeOK'
    BY <1>1 DEF TypeOK, StoreTypeOK, Api!StoreTypeOK, Api!TenantRow, TenantRow,
       Api!MemberRow, MemberRow, Api!Roles, Roles
  <2>3. QED
    BY <1>2, <1>3, <2>1, <2>2 DEF PlatformInv, Api!TypeOK
<1>5. Apart'
  <2>1. issued + 1 \notin created
    BY <1>3
  <2>2. QED
    BY <1>1, <1>2, <2>1 DEF PlatformInv, Apart, HandsOnUids
<1>6. DeletedOwn'
  BY <1>1, <1>2 DEF PlatformInv, DeletedOwn, Apart, OwnRowOnly
<1>7. NoOrphanControllerRow'
  BY <1>1, <1>2 DEF PlatformInv, NoOrphanControllerRow, RowsKept
<1>8. QED
  BY <1>1, <1>4, <1>5, <1>6, <1>7 DEF PlatformInv

\* What a step of the API server does to the rows: none comes to life but those
\* of fresh ids, none is lost, and a deleted one is as it was.
ApiRows == /\ \A r \in tenants' : \/ \E s \in tenants : /\ s.id = r.id
                                                        /\ s.deleted => r.deleted
                                  \/ r.id = issued + 1 /\ r.id \in created'
           /\ \A r \in tenants : r.deleted => r \in tenants'

\* The controller's part of the invariant rests on rows only in that no row of a
\* resource about to be let go is live.
LEMMA ApiFrame ==
  ASSUME PlatformInv, UNCHANGED controllerVars, StoreTypeOK', ApiRows,
         \/ issued' = issued
         \/ issued' = issued + 1 /\ issued < MaxIds
  PROVE  Inv'
<1>1. UNCHANGED <<crs, cache, queue, objs, past, terminating, pc, cur, spent>>
  BY DEF controllerVars, crVars, clusterVars, workVars
<1>2. Inv /\ TypeOK /\ issued \in Nat
  BY DEF PlatformInv, Inv, TypeOK, StoreTypeOK
<1>3. TypeOK'
  BY <1>1, <1>2 DEF TypeOK
<1>4. \A c \in crs \cup cache : c.uid \in Nat
  BY <1>2 DEF TypeOK, Tenant
<1>5. UidsIssued'
  BY <1>1, <1>2, <1>4, MaxIdsAssumption DEF Inv, UidsIssued
<1>6. UniqueUid(crs)' /\ UniqueUid(cache)' /\ (\A v \in cache : Copy(v))'
  BY <1>1, <1>2 DEF Inv, UniqueUid, Copy, Held
<1>7. CurFacts'
  <2>1. pc # "idle" => cur.uid \in Nat /\ cur.uid <= issued /\ cur.uid <= issued'
    <3>1. pc # "idle" => cur.uid \in Nat
      BY <1>2 DEF TypeOK, Tenant
    <3>2. QED
      BY <1>2, <3>1 DEF Inv, CurFacts
  <2>2. pc = "removeFinalizer" => GetTenantByID(cur.uid)' = {}
    <3> SUFFICES ASSUME pc = "removeFinalizer", NEW r \in tenants', r.id = cur.uid
                 PROVE  r.deleted
      BY <1>1 DEF GetTenantByID
    <3>1. r.id # issued + 1
      BY <1>2, <2>1
    <3>2. PICK s \in tenants : s.id = r.id /\ (s.deleted => r.deleted)
      BY <3>1 DEF ApiRows
    <3>3. s.deleted
      BY <1>2, <3>2 DEF Inv, CurFacts, GetTenantByID
    <3>4. QED
      BY <3>2, <3>3
  <2>3. QED
    BY <1>1, <1>2, <2>1, <2>2 DEF Inv, CurFacts, Copy, Held
<1>8. QED
  BY <1>3, <1>5, <1>6, <1>7 DEF Inv

\* An UPDATE or a soft delete by the API server, as a function on rows.
LEMMA ApiInPlace ==
  ASSUME NEW f, tenants' = {f[r] : r \in tenants},
         \A r \in tenants : /\ f[r] \in TenantRow
                            /\ f[r].id = r.id
                            /\ r.deleted => f[r] = r
  PROVE  tenants' \subseteq TenantRow /\ ApiRows
<1>1. tenants' \subseteq TenantRow
  OBVIOUS
<1>2. ASSUME NEW r \in tenants'
      PROVE  \E s \in tenants : s.id = r.id /\ (s.deleted => r.deleted)
  <2>1. PICK s \in tenants : r = f[s]
    OBVIOUS
  <2>2. QED
    BY <2>1
<1>3. \A r \in tenants : r.deleted => r \in tenants'
  OBVIOUS
<1>4. QED
  BY <1>1, <1>2, <1>3 DEF ApiRows

\* The UPDATE of a PUT.
LEMMA ApiUpdate ==
  ASSUME tenants \subseteq TenantRow, NEW t, t.tier \in TierValues,
         t.email \in Emails, Api!UpdateTenant(t)
  PROVE  /\ tenants' \subseteq TenantRow /\ ApiRows /\ members' = members
<1> DEFINE W(r) == [r EXCEPT !.tier = t.tier, !.ownerEmail = t.email]
           f == [r \in tenants |-> IF r.id = t.uid /\ ~r.deleted THEN W(r) ELSE r]
<1>1. tenants' = {f[r] : r \in tenants} /\ members' = members
  BY DEF Api!UpdateTenant
<1>2. \A r \in TenantRow : W(r) \in TenantRow /\ W(r).id = r.id
  BY DEF TenantRow
<1>3. \A r \in tenants : /\ f[r] \in TenantRow
                         /\ f[r].id = r.id
                         /\ r.deleted => f[r] = r
  BY <1>2
<1> HIDE DEF f
<1>4. QED
  BY <1>1, <1>3, ApiInPlace

\* The soft delete of a DELETE: no live row of that id is left.
LEMMA ApiDelete ==
  ASSUME tenants \subseteq TenantRow, NEW id, Api!DeleteTenant(id)
  PROVE  /\ tenants' \subseteq TenantRow /\ ApiRows /\ members' = members
         /\ \A r \in tenants' : r.id = id => r.deleted
         /\ \A r \in tenants : r.id # id => r \in tenants'
         /\ \A r \in tenants' : r.id # id => r \in tenants
<1> DEFINE W(r) == [r EXCEPT !.deleted = TRUE]
           f == [r \in tenants |-> IF r.id = id /\ ~r.deleted THEN W(r) ELSE r]
<1>1. tenants' = {f[r] : r \in tenants} /\ members' = members
  BY DEF Api!DeleteTenant
<1>2. \A r \in TenantRow : W(r) \in TenantRow /\ W(r).id = r.id /\ W(r).deleted
  BY DEF TenantRow
<1>3. \A r \in tenants : /\ f[r] \in TenantRow
                         /\ f[r].id = r.id
                         /\ r.deleted => f[r] = r
  BY <1>2
<1>4. \A r \in tenants : /\ r.id = id => f[r].deleted
                         /\ r.id # id => f[r] = r
  BY <1>2
<1> HIDE DEF f
<1>5. tenants' \subseteq TenantRow /\ ApiRows
  BY <1>1, <1>3, ApiInPlace
<1>6. ASSUME NEW r \in tenants' PROVE (r.id = id => r.deleted) /\ (r.id # id => r \in tenants)
  <2>1. PICK s \in tenants : r = f[s]
    BY <1>1
  <2>2. QED
    BY <1>3, <1>4, <2>1
<1>7. \A r \in tenants : r.id # id => r \in tenants'
  BY <1>1, <1>4
<1>8. QED
  BY <1>1, <1>5, <1>6, <1>7

\* The types of the store are the same for both processes.
LEMMA SameTypes == Api!StoreTypeOK <=> StoreTypeOK
BY DEF Api!StoreTypeOK, StoreTypeOK, Api!TenantRow, TenantRow, Api!MemberRow,
   MemberRow, Api!Roles, Roles

\* A step of the API server that takes over no id of a resource.
LEMMA ApiStepFrame ==
  ASSUME PlatformInv, UNCHANGED controllerVars, StoreTypeOK', ApiRows, DeletedOwn',
         call' \in [Clients -> {Api!Idle} \cup Api!UpdateCall \cup Api!MemberCall],
         \/ issued' = issued /\ answered' = answered
         \/ /\ issued' = issued + 1 /\ issued < MaxIds
            /\ \/ answered' = answered
               \/ \E n \in SpecNames :
                    answered' = answered \cup {[id |-> issued + 1, name |-> n]},
         deleted' \subseteq 1..issued
  PROVE  PlatformInv'
<1>1. Inv'
  BY ApiFrame
<1>2. /\ issued \in Nat /\ created \subseteq 1..issued
      /\ created \subseteq created' /\ created' \subseteq created \cup {issued + 1}
  <2>1. issued \in Nat /\ created \subseteq 1..issued
    BY CreatedIssued DEF PlatformInv, Api!TypeOK, Api!StoreTypeOK
  <2>2. created \subseteq created' /\ created' \subseteq created \cup {issued + 1}
    BY DEF created
  <2>3. QED
    BY <2>1, <2>2
<1>3. Api!TypeOK'
  <2>1. /\ (1..issued) \subseteq (1..issued)'
        /\ issued' # issued => issued + 1 \in (1..issued)'
    BY <1>2
  <2>2. answered \subseteq [id : 1..issued, name : SpecNames]
    BY DEF PlatformInv, Api!TypeOK
  <2>3. answered' \subseteq [id : (1..issued)', name : SpecNames]
    BY <1>2, <2>1, <2>2
  <2>4. Api!StoreTypeOK'
    BY SameTypes, PTL
  <2>5. QED
    BY <2>1, <2>3, <2>4 DEF Api!TypeOK
<1>4. UNCHANGED <<crs, cache, pc, cur>>
  BY DEF controllerVars, crVars, workVars
<1>5. Apart'
  <2>1. \A v \in crs \cup cache : v.uid # issued + 1
    <3>1. \A v \in crs \cup cache : v.uid \in Nat /\ v.uid <= issued
      BY DEF PlatformInv, Inv, UidsIssued, TypeOK, Tenant
    <3>2. QED
      BY <1>2, <3>1
  <2>2. pc # "idle" => cur.uid # issued + 1
    <3>1. pc # "idle" => cur.uid \in Nat /\ cur.uid <= issued
      BY DEF PlatformInv, Inv, CurFacts, TypeOK, Tenant
    <3>2. QED
      BY <1>2, <3>1
  <2>3. QED
    BY <1>2, <1>4, <2>1, <2>2 DEF PlatformInv, Apart
<1>6. NoOrphanControllerRow'
  <2> SUFFICES ASSUME NEW r \in tenants', ~r.deleted, r.id \notin created'
               PROVE  Held(r.id)'
    BY DEF NoOrphanControllerRow
  <2>1. PICK s \in tenants : s.id = r.id /\ (s.deleted => r.deleted)
    BY DEF ApiRows
  <2>2. Held(s.id)
    BY <1>2, <2>1 DEF PlatformInv, NoOrphanControllerRow
  <2>3. QED
    BY <1>4, <2>1, <2>2 DEF Held
<1>7. QED
  BY <1>1, <1>3, <1>5, <1>6 DEF PlatformInv

\* A step of the API server that leaves the tables alone.
LEMMA ApiQuietStep ==
  ASSUME PlatformInv, UNCHANGED controllerVars,
         UNCHANGED <<tenants, issued, answered, deleted>>, members' \subseteq MemberRow,
         call' \in [Clients -> {Api!Idle} \cup Api!UpdateCall \cup Api!MemberCall]
  PROVE  PlatformInv'
<1>1. StoreTypeOK'
  BY DEF PlatformInv, Inv, TypeOK, StoreTypeOK
<1>2. ApiRows
  BY DEF ApiRows
<1>3. DeletedOwn'
  BY DEF PlatformInv, DeletedOwn, created
<1>4. deleted' \subseteq 1..issued
  BY DEF PlatformInv, Api!TypeOK
<1>5. QED
  BY <1>1, <1>2, <1>3, <1>4, ApiStepFrame

\* A step of the API server.
LEMMA ApiStep ==
  ASSUME PlatformInv, Api!Next, UNCHANGED controllerVars
  PROVE  PlatformInv'
<1> DEFINE Call == {Api!Idle} \cup Api!UpdateCall \cup Api!MemberCall
<1>0. /\ tenants \subseteq TenantRow /\ members \subseteq MemberRow /\ issued \in Nat
      /\ call \in [Clients -> Call]
      /\ created \subseteq 1..issued /\ deleted \subseteq 1..issued
  BY SameTypes, CreatedIssued DEF PlatformInv, Api!TypeOK, StoreTypeOK
<1>a. ASSUME NEW c \in Clients, NEW x \in Call, call' = [call EXCEPT ![c] = x]
      PROVE  call' \in [Clients -> Call]
  BY <1>0, <1>a
<1>1. ASSUME NEW c \in Clients, NEW n \in SpecNames, NEW t \in TierValues,
             NEW e \in Emails, Api!HandleCreateTenant(c, n, t, e)
      PROVE  PlatformInv'
  <2> DEFINE T == Api!NewTenant(n, t, e)
             R == Api!Row(T)
  <2>1. /\ issued' = issued + 1 /\ issued < MaxIds /\ UNCHANGED <<call, deleted>>
        /\ \/ /\ Api!CreateTenant(T)
              /\ answered' = answered \cup {[id |-> issued + 1, name |-> n]}
           \/ UNCHANGED <<tenants, members, answered>>
    BY <1>1 DEF Api!HandleCreateTenant, Api!FreshId
  <2>2. R.id = issued + 1 /\ R \in TenantRow
    BY <1>0, SpecNamesAssumption DEF Api!NewTenant, Api!Row, TenantRow, Api!FreshId
  <2>3. /\ members' = members
        /\ \/ tenants' = tenants
           \/ tenants' = tenants \cup {R} /\ issued + 1 \in created'
    BY <2>1 DEF Api!CreateTenant, created
  <2>4. StoreTypeOK'
    BY <1>0, <2>1, <2>2, <2>3 DEF StoreTypeOK
  <2>5. ApiRows
    BY <2>2, <2>3 DEF ApiRows
  <2>6. DeletedOwn'
    <3>1. issued + 1 \notin deleted
      BY <1>0
    <3>2. created' \subseteq created \cup {issued + 1}
      BY <2>1 DEF created
    <3>3. \A r \in tenants : r.id \in created' \cap deleted => r.deleted
      BY <3>1, <3>2 DEF PlatformInv, DeletedOwn
    <3>4. QED
      BY <2>1, <2>2, <2>3, <3>1, <3>3 DEF DeletedOwn
  <2>7. \/ answered' = answered
        \/ \E m \in SpecNames : answered' = answered \cup {[id |-> issued + 1, name |-> m]}
    BY <2>1
  <2>8. call' \in [Clients -> Call] /\ deleted' \subseteq 1..issued
    BY <1>0, <2>1
  <2> HIDE DEF R, T
  <2>9. QED
    BY <2>1, <2>4, <2>5, <2>6, <2>7, <2>8, ApiStepFrame
<1>2. ASSUME NEW c \in Clients, NEW id \in 1..issued,
             NEW t \in TierValues \cup {Keep}, NEW e \in Emails \cup {Keep},
             Api!HandleUpdateTenantRead(c, id, t, e)
      PROVE  PlatformInv'
  <2>1. PICK r \in tenants :
          call' = [call EXCEPT ![c] = [op |-> "update", uid |-> id,
                                       tier |-> Api!Overlay(t, r.tier),
                                       email |-> Api!Overlay(e, r.ownerEmail)]]
    BY <1>2 DEF Api!HandleUpdateTenantRead, Api!GetTenantByID
  <2>2. r.tier \in TierValues /\ r.ownerEmail \in Emails /\ id \in Nat
    BY <1>0 DEF TenantRow
  <2>3. [op |-> "update", uid |-> id, tier |-> Api!Overlay(t, r.tier),
         email |-> Api!Overlay(e, r.ownerEmail)] \in Api!UpdateCall
    BY <2>2 DEF Api!UpdateCall, Api!Overlay
  <2>4. call' \in [Clients -> Call]
    BY <1>a, <2>1, <2>3
  <2>5. QED
    BY <1>0, <1>2, <2>4, ApiQuietStep DEF Api!HandleUpdateTenantRead, Api!storeVars
<1>3. ASSUME NEW c \in Clients, Api!HandleUpdateTenantWrite(c) PROVE PlatformInv'
  <2>1. /\ call[c].op = "update" /\ Api!UpdateTenant(call[c])
        /\ UNCHANGED <<issued, answered, created, deleted>>
    BY <1>3 DEF Api!HandleUpdateTenantWrite, created
  <2>2. call[c] \in Call
    BY <1>0
  <2>3. call[c].tier \in TierValues /\ call[c].email \in Emails
    BY <2>1, <2>2 DEF Api!Idle, Api!UpdateCall, Api!MemberCall
  <2>4. tenants' \subseteq TenantRow /\ ApiRows /\ members' = members
    BY <1>0, <2>1, <2>3, ApiUpdate
  <2>5. DeletedOwn'
    <3> SUFFICES ASSUME NEW r \in tenants', r.id \in created \cap deleted
                 PROVE  r.deleted
      BY <2>1 DEF DeletedOwn
    <3>1. r.id # issued + 1
      BY <1>0
    <3>2. PICK s \in tenants : s.id = r.id /\ (s.deleted => r.deleted)
      BY <2>4, <3>1 DEF ApiRows
    <3>3. QED
      BY <3>2 DEF PlatformInv, DeletedOwn
  <2>6. call' \in [Clients -> Call]
    BY <1>3, <1>a DEF Api!HandleUpdateTenantWrite
  <2>7. StoreTypeOK'
    BY <1>0, <2>1, <2>4 DEF StoreTypeOK
  <2>8. QED
    BY <1>0, <2>1, <2>4, <2>5, <2>6, <2>7, ApiStepFrame
<1>4. ASSUME NEW c \in Clients, NEW id \in 1..issued, Api!HandleDeleteTenant(c, id)
      PROVE  PlatformInv'
  <2>1. /\ Api!DeleteTenant(id) /\ deleted' = deleted \cup {id}
        /\ UNCHANGED <<issued, call, answered, created>>
    BY <1>4 DEF Api!HandleDeleteTenant, created
  <2>2. /\ tenants' \subseteq TenantRow /\ ApiRows /\ members' = members
        /\ \A r \in tenants' : r.id = id => r.deleted
        /\ \A r \in tenants' : r.id # id => r \in tenants
    BY <1>0, <2>1, ApiDelete
  <2>3. DeletedOwn'
    BY <2>1, <2>2 DEF PlatformInv, DeletedOwn
  <2>4. StoreTypeOK'
    BY <1>0, <2>1, <2>2 DEF StoreTypeOK
  <2>5. deleted' \subseteq 1..issued /\ call' \in [Clients -> Call]
    BY <1>0, <2>1
  <2>6. QED
    BY <2>1, <2>2, <2>3, <2>4, <2>5, ApiStepFrame
<1>5. ASSUME NEW c \in Clients, NEW id \in 1..issued, NEW u \in Users,
             NEW r \in Api!Roles, Api!HandleAddMemberRead(c, id, u, r)
      PROVE  PlatformInv'
  <2>1. [op |-> "addMember", id |-> id, user |-> u, role |-> r] \in Api!MemberCall
    BY <1>0 DEF Api!MemberCall
  <2>2. call' \in [Clients -> Call]
    BY <1>5, <1>a, <2>1 DEF Api!HandleAddMemberRead
  <2>3. QED
    BY <1>0, <1>5, <2>2, ApiQuietStep DEF Api!HandleAddMemberRead, Api!storeVars
<1>6. ASSUME NEW c \in Clients, Api!HandleAddMemberWrite(c) PROVE PlatformInv'
  <2> DEFINE m == [tenantId |-> call[c].id, userId |-> call[c].user,
                   role |-> call[c].role]
  <2>1. /\ call[c].op = "addMember" /\ UNCHANGED <<tenants, issued, answered, deleted>>
        /\ members' \subseteq members \cup {m}
    BY <1>6 DEF Api!HandleAddMemberWrite, Api!AddMember
  <2>2. call[c] \in Call
    BY <1>0
  <2>3. m \in MemberRow
    BY <2>1, <2>2 DEF Api!Idle, Api!UpdateCall, Api!MemberCall, MemberRow, Api!Roles,
       Roles
  <2>4. call' \in [Clients -> Call]
    BY <1>6, <1>a DEF Api!HandleAddMemberWrite
  <2>5. QED
    BY <1>0, <2>1, <2>3, <2>4, ApiQuietStep
<1>7. ASSUME NEW c \in Clients, NEW id \in 1..issued, NEW u \in Users,
             Api!HandleRemoveMember(c, id, u)
      PROVE  PlatformInv'
  <2>1. /\ members' \subseteq members
        /\ UNCHANGED <<tenants, issued, call, answered, deleted>>
    BY <1>7 DEF Api!HandleRemoveMember, Api!RemoveMember, Api!apiVars
  <2>2. members' \subseteq MemberRow /\ call' \in [Clients -> Call]
    BY <1>0, <2>1
  <2>3. QED
    BY <2>1, <2>2, ApiQuietStep
<1>8. ASSUME NEW c \in Clients, Api!Abandon(c) PROVE PlatformInv'
  <2>1. call' \in [Clients -> Call]
    BY <1>8, <1>a DEF Api!Abandon
  <2>2. QED
    BY <1>0, <1>8, <2>1, ApiQuietStep DEF Api!Abandon, Api!storeVars
<1>9. QED
  BY <1>1, <1>2, <1>3, <1>4, <1>5, <1>6, <1>7, <1>8 DEF Api!Next

\* The invariant holds in every reachable state.
LEMMA PlatformInvariance == PlatformSpec => []PlatformInv
<1>1. PlatformInit => PlatformInv
  <2> SUFFICES ASSUME PlatformInit PROVE PlatformInv
    OBVIOUS
  <2>1. Init /\ Api!Init /\ tenants = {} /\ crs = {} /\ cache = {} /\ pc = "idle"
    BY DEF PlatformInit, Init, StoreInit
  <2>2. TypeOK
    BY <2>1 DEF Init, StoreInit, TypeOK, StoreTypeOK, Calls, Bounded
  <2>3. Inv
    BY <2>1, <2>2, MaxIdsAssumption DEF Init, StoreInit, Inv, UidsIssued, UniqueUid,
       CurFacts
  <2>4. Api!TypeOK
    BY <2>1 DEF Api!Init, Api!StoreInit, Api!TypeOK, Api!StoreTypeOK
  <2>5. QED
    BY <2>1, <2>3, <2>4 DEF PlatformInv, Apart, DeletedOwn, NoOrphanControllerRow
<1>2. PlatformInv /\ [PlatformNext]_platformVars => PlatformInv'
  <2> SUFFICES ASSUME PlatformInv, [PlatformNext]_platformVars
               PROVE  PlatformInv'
    OBVIOUS
  <2>1. CASE Next /\ UNCHANGED apiVars
    BY <2>1, ControllerStep
  <2>2. CASE Api!Next /\ UNCHANGED controllerVars
    BY <2>2, ApiStep
  <2>3. CASE UNCHANGED platformVars
    BY <2>3, ControllerStep DEF platformVars
  <2>4. QED
    BY <2>1, <2>2, <2>3 DEF PlatformNext
<1>3. QED
  BY <1>1, <1>2, PTL DEF PlatformSpec

\* What a step of the API server does to a row that is there already.
LEMMA ApiTouches ==
  ASSUME PlatformInv, Api!Next, NEW r \in tenants
  PROVE  /\ r.deleted => r \in tenants'
         /\ r.id \in created /\ call' = call /\ deleted' = deleted => r \in tenants'
<1>0. /\ tenants \subseteq TenantRow
      /\ call \in [Clients -> {Api!Idle} \cup Api!UpdateCall \cup Api!MemberCall]
  BY SameTypes DEF PlatformInv, Api!TypeOK, StoreTypeOK
<1>1. PICK c \in Clients :
        \/ \E n \in SpecNames, t \in TierValues, e \in Emails :
             Api!HandleCreateTenant(c, n, t, e)
        \/ Api!HandleUpdateTenantWrite(c)
        \/ \E id \in 1..issued : Api!HandleDeleteTenant(c, id)
        \/ UNCHANGED tenants
  BY DEF Api!Next, Api!HandleUpdateTenantRead, Api!HandleAddMemberRead,
     Api!HandleAddMemberWrite, Api!AddMember, Api!HandleRemoveMember,
     Api!RemoveMember, Api!Abandon, Api!storeVars
<1>2. ASSUME NEW n \in SpecNames, NEW t \in TierValues, NEW e \in Emails,
             Api!HandleCreateTenant(c, n, t, e)
      PROVE  r \in tenants'
  BY <1>2 DEF Api!HandleCreateTenant, Api!CreateTenant
<1>3. CASE Api!HandleUpdateTenantWrite(c)
  <2>1. /\ call[c].op = "update" /\ Api!UpdateTenant(call[c])
        /\ call' = [call EXCEPT ![c] = Api!Idle]
    BY <1>3 DEF Api!HandleUpdateTenantWrite
  <2>2. call[c].tier \in TierValues /\ call[c].email \in Emails
    BY <1>0, <2>1 DEF Api!Idle, Api!UpdateCall, Api!MemberCall
  <2>3. ApiRows
    BY <1>0, <2>1, <2>2, ApiUpdate
  <2>4. call' # call
    <3>1. call'[c] = Api!Idle
      BY <1>0, <2>1
    <3>2. QED
      BY <2>1, <3>1 DEF Api!Idle
  <2>5. QED
    BY <2>3, <2>4 DEF ApiRows
<1>4. ASSUME NEW id \in 1..issued, Api!HandleDeleteTenant(c, id)
      PROVE  /\ r.deleted => r \in tenants'
             /\ r.id \in created /\ deleted' = deleted => r \in tenants'
  <2>1. ApiRows /\ (r.id # id => r \in tenants') /\ deleted' = deleted \cup {id}
    BY <1>0, <1>4, ApiDelete DEF Api!HandleDeleteTenant
  <2>2. r.id \in created \cap deleted => r.deleted
    BY DEF PlatformInv, DeletedOwn
  <2>3. QED
    BY <2>1, <2>2 DEF ApiRows
<1>5. QED
  BY <1>1, <1>2, <1>3, <1>4

-----------------------------------------------------------------------------
(***************************************************************************)
(* The results.                                                            *)
(***************************************************************************)
\* No live row of the controller's outlives its Tenant resource, whatever the
\* API server inserts, updates and deletes in the same table meanwhile.
THEOREM PlatformOrphanFreedom == PlatformSpec => []NoOrphanControllerRow
<1>1. PlatformInv => NoOrphanControllerRow
  BY DEF PlatformInv
<1>2. QED
  BY <1>1, PlatformInvariance, PTL

\* A deleted row is final: neither process changes it, whichever of them deleted
\* it and whatever the other had read before.
THEOREM PlatformDeletedRowsStay == PlatformSpec => DeletedRowsFrozen
<1>1. PlatformInv /\ [PlatformNext]_platformVars =>
        [\A r \in tenants : r.deleted => r \in tenants']_platformVars
  <2> SUFFICES ASSUME PlatformInv, PlatformNext
               PROVE  \A r \in tenants : r.deleted => r \in tenants'
    OBVIOUS
  <2>1. CASE Next
    BY <2>1, OwnRowStep DEF PlatformInv, Inv, OwnRowOnly
  <2>2. CASE Api!Next
    BY <2>2, ApiTouches
  <2>3. QED
    BY <2>1, <2>2 DEF PlatformNext
<1>2. QED
  BY <1>1, PlatformInvariance, PTL DEF PlatformSpec, DeletedRowsFrozen

\* The controller never touches the row of a tenant that was created through the
\* API: such a row changes in a PUT's second statement or in its first DELETE only.
THEOREM ApiRowsSafe == PlatformSpec => ApiRowsUntouched
<1>1. PlatformInv /\ [PlatformNext]_platformVars =>
        [\A r \in tenants : r.id \in created /\ call' = call /\ deleted' = deleted
           => r \in tenants']_platformVars
  <2> SUFFICES ASSUME PlatformInv, PlatformNext, NEW r \in tenants,
                      r.id \in created, call' = call, deleted' = deleted
               PROVE  r \in tenants'
    OBVIOUS
  <2>1. CASE Next
    BY <2>1, OwnRowStep DEF PlatformInv, Inv, OwnRowOnly, Apart
  <2>2. CASE Api!Next
    BY <2>2, ApiTouches
  <2>3. QED
    BY <2>1, <2>2 DEF PlatformNext
<1>2. QED
  BY <1>1, PlatformInvariance, PTL DEF PlatformSpec, ApiRowsUntouched

=============================================================================
