---------------------------- MODULE OverlapProofs ----------------------------
(***************************************************************************)
(* Theorems about Overlap, for any names and bounds: with two controllers  *)
(* at work on the same tenants, neither undoes what users wrote            *)
(* (NoLostEdit), and neither touches a row that the other has deleted      *)
(* (DroppedRowsFrozen).                                                    *)
(*                                                                         *)
(* TenantControllerProofs' invariant does not hold here: a controller may  *)
(* provision a tenant that the other one has let go.  What is left of it   *)
(* is what optimistic concurrency alone gives: every copy, in a cache or a *)
(* worker's hands, is the stored version of its uid or an older one.       *)
(***************************************************************************)
EXTENDS Overlap, TenantControllerProofs

Older(v) == \A c \in crs : c.uid = v.uid => OlderVersion(v, c)

\* All copies of resources that the two controllers have.
Copies == cache \cup oldCache \cup ({cur, oldCur} \ {NoTenant})

OverlapInv == /\ crs \subseteq Tenant
              /\ UniqueUid(crs)
              /\ issued \in Nat
              /\ \A c \in crs : c.uid <= issued
              /\ spent \in [Bounded -> Nat]
              /\ pc # "idle" => cur # NoTenant
              /\ oldPc # "idle" => oldCur # NoTenant
              /\ \A v \in Copies : v \in Tenant /\ v.uid <= issued /\ Older(v)

-----------------------------------------------------------------------------
(***************************************************************************)
(* What a step does to the resources, whoever takes it.                    *)
(***************************************************************************)
Created == /\ \E x \in Tenant : x.uid = issued + 1 /\ crs' = crs \cup {x}
           /\ issued' = issued + 1

\* An update that was accepted; only a user's edit changes the user's part.
Updated == /\ \E v \in crs, w \in Tenant :
                /\ Revises(w, v) /\ Write(v, w)
                /\ UserPart(w) = UserPart(v) \/ spent'["edits"] # spent["edits"]
           /\ issued' = issued

NoneNew == crs' \subseteq crs /\ issued' = issued

\* A copy of a resource that is not there, or an older version of the one that
\* is, stays one.
LEMMA ResourceStep ==
  ASSUME crs \subseteq Tenant, UniqueUid(crs), issued \in Nat,
         \A c \in crs : c.uid <= issued,
         Created \/ Updated \/ NoneNew
  PROVE  /\ crs' \subseteq Tenant /\ UniqueUid(crs)' /\ issued' \in Nat
         /\ \A c \in crs' : c.uid <= issued'
         /\ KeepsEdits
         /\ \A v \in Tenant : v.uid <= issued /\ Older(v) =>
                                v.uid <= issued' /\ Older(v)'
         /\ \A c \in crs' : Older(c)'
<1>0. \A c \in crs : c.uid \in Nat /\ c.rv \in Nat
  BY DEF Tenant
<1>a. ASSUME crs' \subseteq Tenant, UniqueUid(crs)' PROVE \A c \in crs' : Older(c)'
  <2>1. \A c, d \in crs' : c.uid = d.uid => c = d
    BY <1>a DEF UniqueUid
  <2>2. \A c \in crs' : c.rv \in Nat
    BY <1>a DEF Tenant
  <2>3. \A c \in crs' : c.rv <= c.rv
    BY <2>2
  <2>4. \A c \in crs' : OlderVersion(c, c)
    BY <2>3 DEF OlderVersion
  <2>5. QED
    BY <2>1, <2>4 DEF Older
<1>1. CASE Created
  <2>1. PICK x \in Tenant : x.uid = issued + 1 /\ crs' = crs \cup {x}
    BY <1>1 DEF Created
  <2>2. issued' = issued + 1
    BY <1>1 DEF Created
  <2>3. \A n \in Nat : n <= issued => n # x.uid /\ n <= issued'
    <3>1. issued \in Nat /\ x.uid = issued + 1 /\ issued' = issued + 1
      BY <2>1, <2>2
    <3>2. QED
      BY <3>1
  <2>4. crs' \subseteq Tenant /\ UniqueUid(crs)' /\ issued' \in Nat
    BY <1>0, <2>1, <2>2, <2>3 DEF UniqueUid
  <2>5. x.uid <= issued'
    <3>1. issued \in Nat /\ x.uid = issued + 1 /\ issued' = issued + 1
      BY <2>1, <2>2
    <3>2. QED
      BY <3>1
  <2>6. \A c \in crs' : c.uid <= issued'
    BY <1>0, <2>1, <2>3, <2>5
  <2>7. \A c \in crs, d \in crs' : c.uid = d.uid => c = d
    BY <1>0, <2>1, <2>3 DEF UniqueUid
  <2>8. KeepsEdits
    BY <2>7 DEF KeepsEdits
  <2>9. ASSUME NEW v \in Tenant, v.uid <= issued, Older(v)
        PROVE  v.uid <= issued' /\ Older(v)'
    <3>1. v.uid \in Nat
      BY DEF Tenant
    <3>2. v.uid # x.uid /\ v.uid <= issued'
      BY <2>3, <2>9, <3>1
    <3>3. QED
      BY <2>1, <2>9, <3>2 DEF Older
  <2>10. QED
    BY <1>a, <2>4, <2>6, <2>8, <2>9
<1>2. CASE Updated
  <2>1. PICK v \in crs, w \in Tenant :
          /\ Revises(w, v) /\ Write(v, w)
          /\ UserPart(w) = UserPart(v) \/ spent'["edits"] # spent["edits"]
    BY <1>2 DEF Updated
  <2>2. issued' = issued
    BY <1>2 DEF Updated
  <2> DEFINE a == Accepted(v, w)
  <2>3. /\ a.uid = v.uid /\ crs' = (crs \ {v}) \cup {a} /\ OlderVersion(v, a)
        /\ UniqueUid(crs)'
    BY <2>1, WriteEffect
  <2>4. a \in Tenant /\ UserPart(a) = UserPart(w)
    <3>1. v \in Tenant /\ a \in Tenant
      BY AcceptedType
    <3>2. a.specName = w.specName /\ a.tier = w.tier /\ a.email = w.email
      BY DEF Accepted, Tenant
    <3>3. QED
      BY <3>1, <3>2 DEF UserPart
  <2> HIDE DEF a
  <2>5. crs' \subseteq Tenant /\ \A c \in crs' : c.uid <= issued'
    BY <2>2, <2>3, <2>4
  <2>6. KeepsEdits
    BY <2>1, <2>3, <2>4 DEF KeepsEdits, OlderVersion, UniqueUid
  <2>7. ASSUME NEW u \in Tenant, Older(u) PROVE Older(u)'
    <3>1. u.rv \in Nat /\ v.rv \in Nat /\ a.rv \in Nat
      BY <1>0, <2>4 DEF Tenant
    <3>2. u.uid = v.uid => OlderVersion(u, v)
      BY <2>7 DEF Older
    <3>3. u.uid = v.uid => OlderVersion(u, a)
      BY <2>3, <3>1, <3>2 DEF OlderVersion
    <3>4. QED
      BY <2>3, <2>7, <3>3 DEF Older
  <2>8. QED
    BY <1>a, <2>2, <2>3, <2>5, <2>6, <2>7
<1>3. CASE NoneNew
  <2>1. crs' \subseteq crs /\ issued' = issued
    BY <1>3 DEF NoneNew
  <2>2. UniqueUid(crs)' /\ KeepsEdits
    BY <2>1 DEF UniqueUid, KeepsEdits
  <2>3. \A v : Older(v) => Older(v)'
    BY <2>1 DEF Older
  <2>4. QED
    BY <1>a, <2>1, <2>2, <2>3
<1>4. QED
  BY <1>1, <1>2, <1>3

\* A copy that is of the stored version is the stored resource.
LEMMA CurrentCopy ==
  ASSUME NEW v, Older(v), Stored(v) # {}
  PROVE  v \in crs
BY DEF Older, Stored, OlderVersion

\* A worker's update that the API server accepts changes nothing of the user's.
LEMMA WorkerWrite ==
  ASSUME OverlapInv, NEW v \in Copies, Stored(v) # {}, issued' = issued,
         \/ Write(v, [v EXCEPT !.finalizer = TRUE])
         \/ Write(v, [v EXCEPT !.phase = "Active", !.statusNs = NsName(v)])
  PROVE  Updated
<1>1. v \in Tenant /\ v \in crs
  BY CurrentCopy DEF OverlapInv
<1>2. NsName(v) \in Seq(Segment)
  BY <1>1, BuildType DEF Build, buildNamespace, Object, ManagedObject, Kinds
<1>3. ASSUME NEW w \in {[v EXCEPT !.finalizer = TRUE],
                        [v EXCEPT !.phase = "Active", !.statusNs = NsName(v)]}
      PROVE  w \in Tenant /\ Revises(w, v) /\ UserPart(w) = UserPart(v)
  BY <1>1, <1>2 DEF Tenant, Revises, UserPart
<1>4. QED
  BY <1>1, <1>3 DEF Updated

\* Every step of the new controller, the users and the cluster, on resources.
LEMMA NewMoves ==
  ASSUME OverlapInv, Next
  PROVE  Created \/ Updated \/ NoneNew
<1>1. ASSUME NEW n \in CRNames, NEW s \in SpecNames, NEW t \in CRTiers,
             NEW e \in Emails, CreateCR(n, s, t, e)
      PROVE  Created
  BY <1>1, NewCRType DEF OverlapInv, CreateCR, FreshId, Created
<1>2. ASSUME NEW c \in crs, NEW s \in SpecNames, NEW t \in CRTiers,
             NEW e \in Emails, EditCR(c, s, t, e)
      PROVE  Updated
  <2> DEFINE w == [c EXCEPT !.specName = s, !.tier = t, !.email = e]
  <2>1. w \in Tenant /\ Revises(w, c)
    BY DEF OverlapInv, Tenant, Revises
  <2>2. Write(c, w) /\ issued' = issued
    BY <1>2 DEF EditCR, storeVars
  <2>3. spent["edits"] \in Nat /\ spent'["edits"] = spent["edits"] + 1
    BY <1>2 DEF OverlapInv, EditCR, Spend, Bounded
  <2>4. spent'["edits"] # spent["edits"]
    BY <2>3
  <2>5. QED
    BY <2>1, <2>2, <2>4 DEF Updated
<1>3. ASSUME NEW c \in crs, DeleteCR(c) PROVE Updated \/ NoneNew
  <2> DEFINE w == [c EXCEPT !.deleting = TRUE]
  <2>1. w \in Tenant /\ Revises(w, c) /\ UserPart(w) = UserPart(c)
    BY DEF OverlapInv, Tenant, Revises, UserPart
  <2>2. (Write(c, w) \/ crs' = crs \ {c}) /\ issued' = issued
    BY <1>3 DEF DeleteCR, storeVars
  <2>3. QED
    BY <2>1, <2>2 DEF Updated, NoneNew
<1>4. CASE addFinalizer \/ UpdateStatus \/ RemoveFinalizer
  <2>1. cur \in Copies /\ issued' = issued
    BY <1>4 DEF addFinalizer, UpdateStatus, RemoveFinalizer, OverlapInv, Copies,
       storeVars
  <2>2. CASE UNCHANGED crs \/ RemoveFinalizer
    BY <2>1, <2>2 DEF RemoveFinalizer, NoneNew
  <2>3. CASE crs' # crs /\ ~RemoveFinalizer
    BY <1>4, <2>1, <2>3, WorkerWrite DEF addFinalizer, UpdateStatus, Conflict
  <2>4. QED
    BY <2>2, <2>3
<1>5. CASE \/ DeleteRow \/ GetRow \/ CreateRow \/ UpdateRow
           \/ (\E kind \in Kinds : Apply(kind) \/ ApplyStale(kind))
           \/ (\E n \in CRNames : BeginReconcile(n)) \/ Fail \/ Crash
           \/ (\E o \in objs : Tamper(o)) \/ Cluster
  BY <1>5 DEF DeleteRow, GetRow, CreateRow, UpdateRow, Apply, ApplyStale,
     BeginReconcile, Fail, Crash, Tamper, Cluster, Deliver, Resync, GcCollect,
     FinalizeNamespace, crVars, storeVars, NoneNew
<1>6. QED
  BY <1>1, <1>2, <1>3, <1>4, <1>5 DEF Next, Worker, User

\* The same of the old controller's work.
LEMMA OldMoves ==
  ASSUME OverlapInv, Old!Worker
  PROVE  Updated \/ NoneNew
<1>1. CASE Old!addFinalizer \/ Old!UpdateStatus \/ Old!RemoveFinalizer
  <2>1. oldCur \in Copies /\ issued' = issued
    BY <1>1 DEF Old!addFinalizer, Old!UpdateStatus, Old!RemoveFinalizer, OverlapInv,
       Copies, Old!storeVars
  <2>2. CASE UNCHANGED crs \/ Old!RemoveFinalizer
    BY <2>1, <2>2 DEF Old!RemoveFinalizer, NoneNew
  <2>3. CASE crs' # crs /\ ~Old!RemoveFinalizer
    BY <1>1, <2>1, <2>3, WorkerWrite
       DEF Old!addFinalizer, Old!UpdateStatus, Old!Conflict, Old!Stored, Stored,
           Old!Write, Write, Old!Accepted, Accepted, Old!NsName, NsName
  <2>4. QED
    BY <2>2, <2>3
<1>2. CASE \/ Old!DeleteRow \/ Old!GetRow \/ Old!CreateRow \/ Old!UpdateRow
           \/ (\E kind \in Old!Kinds : Old!Apply(kind))
  BY <1>2 DEF Old!DeleteRow, Old!GetRow, Old!CreateRow, Old!UpdateRow, Old!Apply,
     Old!storeVars, NoneNew
<1>3. QED
  BY <1>1, <1>2 DEF Old!Worker

\* No step makes a copy but from another copy or from the stored resource.
LEMMA NewCopies ==
  ASSUME Next, UNCHANGED oldVars
  PROVE  Copies' \subseteq Copies \cup crs'
<1>1. cache' \subseteq cache \cup crs' /\ cur' \in {cur, NoTenant} \cup cache \cup crs'
  <2>1. CASE (\E n \in CRNames : BeginReconcile(n) \/ Deliver(n))
    BY <2>1 DEF BeginReconcile, Deliver, Named, workVars
  <2>2. CASE UpdateStatus
    BY <2>2 DEF UpdateStatus, Write, Requeue
  <2>3. CASE \/ addFinalizer \/ DeleteRow \/ RemoveFinalizer \/ GetRow \/ CreateRow
             \/ UpdateRow \/ \E kind \in Kinds : Apply(kind) \/ ApplyStale(kind)
    BY <2>3 DEF addFinalizer, DeleteRow, RemoveFinalizer, GetRow, CreateRow, UpdateRow,
       Apply, ApplyStale, AfterApply, Requeue, Done, Goto
  <2>4. CASE \/ User \/ Fail \/ Crash
             \/ \E n \in CRNames : Resync(n)
             \/ \E o \in objs : GcCollect(o)
             \/ \E ns \in terminating : FinalizeNamespace(ns)
    BY <2>4 DEF User, CreateCR, EditCR, DeleteCR, Tamper, Fail, Crash, Resync,
       GcCollect, FinalizeNamespace, Requeue, crVars, workVars
  <2>5. QED
    BY <2>1, <2>2, <2>3, <2>4 DEF Next, Worker, Cluster
<1>2. QED
  BY <1>1 DEF Copies, oldVars

\* What the old controller does besides a worker's step.
OldQueues ==
  \E n \in CRNames : Old!Deliver(n) \/ Old!Resync(n) \/ Old!BeginReconcile(n)

\* The same of the old controller: no step of its own makes a copy but from a
\* copy or from what the API server stores.
LEMMA OldCopies ==
  ASSUME UNCHANGED newVars,
         Old!Worker \/ OldQueues
  PROVE  Copies' \subseteq Copies \cup crs'
<1>1. /\ oldCache' \subseteq oldCache \cup crs'
      /\ oldCur' \in {oldCur, NoTenant} \cup oldCache \cup crs'
  <2>1. CASE OldQueues
    BY <2>1 DEF OldQueues, Old!BeginReconcile, Old!Deliver, Old!Resync, Old!Requeue,
       Old!Named, Old!workVars
  <2>2. CASE Old!UpdateStatus
    BY <2>2 DEF Old!UpdateStatus, Old!Write, Old!Requeue
  <2>3. CASE \/ Old!addFinalizer \/ Old!DeleteRow \/ Old!RemoveFinalizer \/ Old!GetRow
             \/ Old!CreateRow \/ Old!UpdateRow
             \/ \E kind \in Old!Kinds : Old!Apply(kind)
    BY <2>3 DEF Old!addFinalizer, Old!DeleteRow, Old!RemoveFinalizer, Old!GetRow,
       Old!CreateRow, Old!UpdateRow, Old!Apply, Old!AfterApply, Old!Requeue, Old!Done,
       Old!Goto
  <2>4. QED
    BY <2>1, <2>2, <2>3 DEF Old!Worker
<1>2. QED
  BY <1>1 DEF Copies, newVars

\* A worker that is not idle has a copy.
LEMMA NewHolds ==
  ASSUME OverlapInv, Next, crs' \subseteq Tenant
  PROVE  pc' # "idle" => cur' # NoTenant
<1>0. NoTenant \notin Tenant /\ cache \subseteq Tenant
  BY NoTenantAssumption DEF OverlapInv, Copies
<1>1. ASSUME NEW n \in CRNames, BeginReconcile(n) PROVE pc' # "idle" => cur' # NoTenant
  BY <1>0, <1>1 DEF BeginReconcile, Named, workVars, OverlapInv
<1>2. CASE UpdateStatus
  BY <1>0, <1>2 DEF UpdateStatus, Write, Requeue
<1>3. CASE \/ addFinalizer \/ DeleteRow \/ RemoveFinalizer \/ GetRow \/ CreateRow
           \/ UpdateRow \/ \E kind \in Kinds : Apply(kind) \/ ApplyStale(kind)
  BY <1>3 DEF addFinalizer, DeleteRow, RemoveFinalizer, GetRow, CreateRow, UpdateRow,
     Apply, ApplyStale, AfterApply, Requeue, Done, Goto, OverlapInv, Kinds
<1>4. CASE User \/ Fail \/ Crash \/ Cluster
  BY <1>4 DEF User, CreateCR, EditCR, DeleteCR, Tamper, Fail, Crash, Cluster, Deliver,
     Resync, GcCollect, FinalizeNamespace, Requeue, workVars, OverlapInv
<1>5. QED
  BY <1>1, <1>2, <1>3, <1>4 DEF Next, Worker

\* The old controller is at a call only with a tenant in hand.
LEMMA OldHolds ==
  ASSUME OverlapInv, crs' \subseteq Tenant,
         Old!Worker \/ OldQueues
  PROVE  oldPc' # "idle" => oldCur' # NoTenant
<1>0. NoTenant \notin Tenant /\ oldCache \subseteq Tenant
  BY NoTenantAssumption DEF OverlapInv, Copies
<1>1. CASE OldQueues
  BY <1>0, <1>1 DEF OldQueues, Old!BeginReconcile, Old!Deliver, Old!Resync, Old!Requeue,
     Old!Named, Old!workVars, OverlapInv
<1>2. CASE Old!UpdateStatus
  BY <1>0, <1>2 DEF Old!UpdateStatus, Old!Write, Old!Requeue
<1>3. CASE \/ Old!addFinalizer \/ Old!DeleteRow \/ Old!RemoveFinalizer \/ Old!GetRow
           \/ Old!CreateRow \/ Old!UpdateRow
           \/ \E kind \in Old!Kinds : Old!Apply(kind)
  BY <1>3 DEF Old!addFinalizer, Old!DeleteRow, Old!RemoveFinalizer, Old!GetRow,
     Old!CreateRow, Old!UpdateRow, Old!Apply, Old!AfterApply, Old!Requeue, Old!Done,
     Old!Goto, OverlapInv, Old!Kinds
<1>4. QED
  BY <1>1, <1>2, <1>3 DEF Old!Worker

\* How much of each bound is used stays a number.
LEMMA SpentType ==
  ASSUME spent \in [Bounded -> Nat], Next
  PROVE  spent' \in [Bounded -> Nat]
<1>1. ASSUME NEW b \in Bounded, NEW max, Spend(b, max)
      PROVE  spent' \in [Bounded -> Nat]
  BY <1>1 DEF Spend
<1>2. UNCHANGED spent \/ \E b \in Bounded : \E max : Spend(b, max)
  BY DEF Next, Worker, User, Cluster, addFinalizer, DeleteRow, RemoveFinalizer, GetRow,
     CreateRow, UpdateRow, Apply, ApplyStale, UpdateStatus, BeginReconcile, CreateCR,
     EditCR, DeleteCR, Tamper, Deliver, Resync, GcCollect, FinalizeNamespace, Fail,
     Crash, Bounded
<1>3. QED
  BY <1>1, <1>2

\* The invariant is kept, and no step of either controller undoes an edit.
LEMMA OverlapStep ==
  ASSUME OverlapInv, [OverlapNext]_overlapVars
  PROVE  OverlapInv' /\ [KeepsEdits]_vars
<1>a. ASSUME Created \/ Updated \/ NoneNew, Copies' \subseteq Copies \cup crs',
             crs' \subseteq Tenant =>
               /\ spent' \in [Bounded -> Nat]
               /\ pc' # "idle" => cur' # NoTenant
               /\ oldPc' # "idle" => oldCur' # NoTenant
      PROVE  OverlapInv' /\ KeepsEdits
  <2>1. /\ crs' \subseteq Tenant /\ UniqueUid(crs)' /\ issued' \in Nat
        /\ \A c \in crs' : c.uid <= issued'
        /\ KeepsEdits
        /\ \A v \in Tenant : v.uid <= issued /\ Older(v) =>
                               v.uid <= issued' /\ Older(v)'
        /\ \A c \in crs' : Older(c)'
    BY <1>a, ResourceStep DEF OverlapInv
  <2>2. \A v \in Copies' : v \in Tenant /\ v.uid <= issued' /\ Older(v)'
    BY <1>a, <2>1 DEF OverlapInv
  <2>3. QED
    BY <1>a, <2>1, <2>2 DEF OverlapInv
<1>1. CASE NewStep
  <2>1. Next /\ UNCHANGED oldVars /\ UNCHANGED <<oldPc, oldCur>>
    BY <1>1 DEF NewStep, oldVars
  <2>2. Created \/ Updated \/ NoneNew
    BY <2>1, NewMoves
  <2>3. Copies' \subseteq Copies \cup crs'
    BY <2>1, NewCopies
  <2>4. ASSUME crs' \subseteq Tenant
        PROVE  /\ spent' \in [Bounded -> Nat]
               /\ pc' # "idle" => cur' # NoTenant
               /\ oldPc' # "idle" => oldCur' # NoTenant
    BY <2>1, <2>4, NewHolds, SpentType DEF OverlapInv
  <2>5. QED
    BY <1>a, <2>2, <2>3, <2>4
<1>2. CASE OldWatch \/ OldBegin \/ OldWork
  <2>1. /\ UNCHANGED newVars /\ UNCHANGED <<pc, cur>>
        /\ Old!Worker \/ OldQueues
    BY <1>2 DEF OldWatch, OldBegin, OldWork, OldQueues, newVars
  <2>2. UNCHANGED spent
    BY <2>1 DEF Old!Worker, Old!addFinalizer, Old!DeleteRow, Old!RemoveFinalizer,
       Old!GetRow, Old!CreateRow, Old!UpdateRow, Old!Apply, Old!UpdateStatus,
       OldQueues, Old!Deliver, Old!Resync, Old!BeginReconcile
  <2>3. Created \/ Updated \/ NoneNew
    <3>1. CASE Old!Worker
      BY <3>1, OldMoves
    <3>2. CASE OldQueues
      BY <3>2 DEF OldQueues, Old!Deliver, Old!Resync, Old!BeginReconcile, Old!crVars,
         Old!storeVars, NoneNew
    <3>3. QED
      BY <2>1, <3>1, <3>2
  <2>4. Copies' \subseteq Copies \cup crs'
    BY <2>1, OldCopies
  <2>5. ASSUME crs' \subseteq Tenant
        PROVE  /\ spent' \in [Bounded -> Nat]
               /\ pc' # "idle" => cur' # NoTenant
               /\ oldPc' # "idle" => oldCur' # NoTenant
    BY <2>1, <2>2, <2>5, OldHolds DEF OverlapInv
  <2>6. QED
    BY <1>a, <2>3, <2>4, <2>5
<1>3. CASE Stop \/ UNCHANGED overlapVars
  <2>1. /\ UNCHANGED <<crs, issued, spent, cache, pc, cur>>
        /\ \/ oldCache' = {} /\ oldPc' = "idle" /\ oldCur' = NoTenant
           \/ UNCHANGED <<oldCache, oldPc, oldCur>>
    BY <1>3 DEF Stop, overlapVars, oldVars, vars, storeVars, crVars, workVars
  <2>2. NoneNew /\ Copies' \subseteq Copies
    BY <2>1 DEF NoneNew, Copies
  <2>3. /\ spent' \in [Bounded -> Nat]
        /\ pc' # "idle" => cur' # NoTenant
        /\ oldPc' # "idle" => oldCur' # NoTenant
    BY <2>1 DEF OverlapInv
  <2>4. QED
    BY <1>a, <2>2, <2>3
<1>4. QED
  BY <1>1, <1>2, <1>3 DEF OverlapNext

\* Also with an old controller that makes any number of reconciliations, from a
\* cache and copies of its own, until it is killed, what a user wrote is changed by users only, and no
\* deletion is revoked.
THEOREM OverlapEditsSurvive == OverlapSpec => NoLostEdit
<1>1. OverlapInit => OverlapInv
  BY DEF OverlapInit, Init, Old!Init, StoreInit, OverlapInv, Copies, UniqueUid, Bounded
<1>2. OverlapInv /\ [OverlapNext]_overlapVars => OverlapInv' /\ [KeepsEdits]_vars
  BY OverlapStep
<1>3. QED
  BY <1>1, <1>2, PTL DEF OverlapSpec, NoLostEdit, KeepsEdits

-----------------------------------------------------------------------------
(***************************************************************************)
(* Rows.                                                                   *)
(***************************************************************************)
DroppedRowsKept == \A r \in tenants : r.deleted => r \in tenants'

\* Each statement of the store leaves a row alone that is deleted already.
LEMMA StatementKeeps ==
  ASSUME NEW t, CreateTenant(t) \/ UpdateTenant(t) \/ DeleteTenant(t.uid)
  PROVE  DroppedRowsKept
BY DEF CreateTenant, UpdateTenant, DeleteTenant, DroppedRowsKept

\* Neither controller touches a row that is deleted already, whichever of them
\* deleted it and whatever the other had read of it before.
THEOREM OverlapDroppedRowsStay == OverlapSpec => DroppedRowsFrozen
<1>1. [OverlapNext]_overlapVars => [DroppedRowsKept]_overlapVars
  <2> SUFFICES ASSUME OverlapNext PROVE DroppedRowsKept
    BY DEF OverlapNext
  <2>1. CASE UNCHANGED tenants
    BY <2>1 DEF DroppedRowsKept
  <2>2. CASE Next
    <3>1. CASE DeleteRow \/ CreateRow \/ UpdateRow
      BY <2>1, <3>1, StatementKeeps DEF DeleteRow, CreateRow, UpdateRow
    <3>2. CASE ~(DeleteRow \/ CreateRow \/ UpdateRow)
      <4>1. UNCHANGED tenants
        BY <2>2, <3>2 DEF Next, Worker, User, Cluster, addFinalizer, RemoveFinalizer,
           GetRow, Apply, ApplyStale, UpdateStatus, BeginReconcile, CreateCR, EditCR,
           DeleteCR, Tamper, Deliver, Resync, GcCollect, FinalizeNamespace, Fail,
           Crash, storeVars
      <4>2. QED
        BY <2>1, <4>1
    <3>3. QED
      BY <3>1, <3>2
  <2>3. CASE Old!Worker
    <3>1. CASE Old!DeleteRow \/ Old!CreateRow \/ Old!UpdateRow
      <4>1. \/ UNCHANGED tenants
            \/ \E t : CreateTenant(t) \/ UpdateTenant(t) \/ DeleteTenant(t.uid)
        BY <3>1 DEF Old!DeleteRow, Old!CreateRow, Old!UpdateRow, Old!DeleteTenant,
           DeleteTenant, Old!CreateTenant, CreateTenant, Old!UpdateTenant, UpdateTenant,
           Old!UniqueViolation, UniqueViolation, Old!NameTaken, NameTaken,
           Old!KeyTaken, KeyTaken, Old!Row, Row
      <4>2. QED
        BY <2>1, <4>1, StatementKeeps
    <3>2. CASE ~(Old!DeleteRow \/ Old!CreateRow \/ Old!UpdateRow)
      <4>1. UNCHANGED tenants
        BY <2>3, <3>2 DEF Old!Worker, Old!addFinalizer, Old!RemoveFinalizer, Old!GetRow,
           Old!Apply, Old!UpdateStatus, Old!storeVars
      <4>2. QED
        BY <2>1, <4>1
    <3>3. QED
      BY <3>1, <3>2
  <2>4. CASE OldWatch \/ OldBegin \/ Stop
    <3>1. UNCHANGED tenants
      BY <2>4 DEF OldWatch, OldBegin, Stop, Old!Deliver, Old!Resync,
         Old!BeginReconcile, Old!storeVars, vars, storeVars
    <3>2. QED
      BY <2>1, <3>1
  <2>5. QED
    BY <2>2, <2>3, <2>4 DEF OverlapNext, NewStep, OldWork
<1>2. QED
  BY <1>1, PTL DEF OverlapSpec, DroppedRowsFrozen, DroppedRowsKept

=============================================================================
