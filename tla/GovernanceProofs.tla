-------------------------- MODULE GovernanceProofs --------------------------
(***************************************************************************)
(* Theorems about what status.phase = Active stands for in                 *)
(* TenantController: ActiveIsRecorded, for any names, and                  *)
(* ActiveIsGoverned, for names of which no two pairs join to the same      *)
(* namespace name.  Both are about the order of the worker's calls: what   *)
(* one call has found or made is still there when Status().Update says so. *)
(***************************************************************************)
EXTENDS TenantControllerProofs

-----------------------------------------------------------------------------
(***************************************************************************)
(* The shapes of a step.                                                   *)
(***************************************************************************)
\* The worker goes on as it was, or gives up.
WorkerRests == pc' = "idle" \/ UNCHANGED <<pc, cur>>

\* Nothing happens but to the cache and the queue, or the worker begins, or it
\* gives up.
Quiet == /\ UNCHANGED <<crs, tenants, issued, objs, terminating>>
         /\ past' \subseteq past
         /\ WorkerRests \/ pc' \in {"addFinalizer", "deleteRow", "getRow"}

Created == /\ \E x \in Tenant : /\ x.uid = issued + 1 /\ x.phase = ""
                                /\ Named(crs, x.name) = {}
                                /\ crs' = crs \cup {x}
           /\ issued' = issued + 1
           /\ UNCHANGED <<tenants, clusterVars, pc, cur>>

\* A user's edit or deletion, or the finalizer: the status stays.
Revised == /\ \E v \in crs, a \in Tenant :
                /\ crs' = (crs \ {v}) \cup {a}
                /\ a.uid = v.uid /\ a.name = v.name
                /\ a.phase = v.phase /\ a.statusNs = v.statusNs
                /\ v.deleting => a.deleting
           /\ UNCHANGED <<tenants, issued, clusterVars>>
           /\ WorkerRests

\* Status().Update was accepted, so the worker's copy was current.
Activated == /\ pc = "status" /\ pc' = "NetworkPolicy" /\ cur \in crs
             /\ \E a \in Tenant :
                  /\ crs' = (crs \ {cur}) \cup {a}
                  /\ a.uid = cur.uid /\ a.name = cur.name
                  /\ a.phase = "Active" /\ a.statusNs = NsName(cur)
                  /\ a.deleting = cur.deleting
             /\ UNCHANGED <<tenants, issued, clusterVars>>

Removed == /\ \E v \in crs : crs' = crs \ {v}
           /\ UNCHANGED <<tenants, issued, clusterVars>>
           /\ WorkerRests

\* An accepted update changes the fields that w changes, and the version.
LEMMA WriteFields ==
  ASSUME Inv, NEW v \in crs, NEW w \in Tenant, Revises(w, v), Write(v, w)
  PROVE  \E a \in Tenant :
           /\ crs' = (crs \ {v}) \cup {a}
           /\ a.uid = v.uid /\ a.name = v.name
           /\ a.phase = w.phase /\ a.statusNs = w.statusNs
           /\ a.deleting = w.deleting
<1> DEFINE a == Accepted(v, w)
<1>1. v \in Tenant /\ a \in Tenant
  BY AcceptedType DEF Inv, TypeOK
<1>2. crs' = (crs \ {v}) \cup {a} /\ a.uid = v.uid /\ a.name = v.name
  BY WriteEffect DEF Inv, TypeOK, OlderVersion
<1>3. a.phase = w.phase /\ a.statusNs = w.statusNs /\ a.deleting = w.deleting
  BY DEF Accepted, Tenant
<1>4. QED
  BY <1>1, <1>2, <1>3

\* Every step that is not one of the worker's on rows and objects, or the
\* cluster's on objects, has one of the shapes.
LEMMA StepShape ==
  ASSUME Inv, [Next]_vars
  PROVE  \/ Quiet \/ Created \/ Revised \/ Activated \/ Removed
         \/ DeleteRow \/ GetRow \/ CreateRow \/ UpdateRow
         \/ \E kind \in Kinds : Apply(kind) \/ ApplyStale(kind)
         \/ \E o \in objs : Tamper(o) \/ GcCollect(o)
         \/ \E ns \in terminating : FinalizeNamespace(ns)
<1>0. TypeOK
  BY DEF Inv
<1>a. ASSUME NEW v \in crs, NEW w \in Tenant, Revises(w, v), Write(v, w),
             w.phase = v.phase, w.statusNs = v.statusNs,
             UNCHANGED <<tenants, issued, clusterVars>>, WorkerRests
      PROVE  Revised
  <2>1. PICK a \in Tenant : /\ crs' = (crs \ {v}) \cup {a}
                            /\ a.uid = v.uid /\ a.name = v.name
                            /\ a.phase = w.phase /\ a.statusNs = w.statusNs
                            /\ a.deleting = w.deleting
    BY <1>a, WriteFields
  <2>2. v.deleting => a.deleting
    BY <1>a, <2>1 DEF Revises
  <2>3. QED
    BY <1>a, <2>1, <2>2 DEF Revised
<1>1. CASE UNCHANGED vars
  BY <1>1 DEF vars, storeVars, crVars, clusterVars, workVars, Quiet, WorkerRests
<1>2. ASSUME NEW n \in CRNames, NEW s \in SpecNames, NEW t \in CRTiers,
             NEW e \in Emails, CreateCR(n, s, t, e)
      PROVE  Created
  <2> DEFINE x == NewCR(n, s, t, e)
  <2>1. x \in Tenant /\ x.uid = issued + 1
    BY <1>0, NewCRType DEF TypeOK, StoreTypeOK
  <2>2. x.phase = "" /\ x.name = n
    BY DEF NewCR
  <2>3. /\ crs' = crs \cup {x} /\ Named(crs, n) = {} /\ issued' = issued + 1
        /\ UNCHANGED <<tenants, clusterVars, pc, cur>>
    BY <1>2 DEF CreateCR, FreshId, workVars
  <2> HIDE DEF x
  <2>4. QED
    BY <2>1, <2>2, <2>3 DEF Created
<1>3. ASSUME NEW c \in crs, NEW s \in SpecNames, NEW t \in CRTiers,
             NEW e \in Emails, EditCR(c, s, t, e)
      PROVE  Revised
  <2> DEFINE w == [c EXCEPT !.specName = s, !.tier = t, !.email = e]
  <2>1. /\ w \in Tenant /\ Revises(w, c)
        /\ w.phase = c.phase /\ w.statusNs = c.statusNs
    BY <1>0 DEF TypeOK, Tenant, Revises
  <2>2. Write(c, w) /\ UNCHANGED <<tenants, issued, clusterVars>> /\ WorkerRests
    BY <1>3 DEF EditCR, storeVars, workVars, WorkerRests
  <2>3. QED
    BY <1>a, <2>1, <2>2
<1>4. ASSUME NEW c \in crs, DeleteCR(c) PROVE Revised \/ Removed
  <2> DEFINE w == [c EXCEPT !.deleting = TRUE]
  <2>1. /\ w \in Tenant /\ Revises(w, c)
        /\ w.phase = c.phase /\ w.statusNs = c.statusNs
    BY <1>0 DEF TypeOK, Tenant, Revises
  <2>2. /\ Write(c, w) \/ crs' = crs \ {c}
        /\ UNCHANGED <<tenants, issued, clusterVars>> /\ WorkerRests
    BY <1>4 DEF DeleteCR, storeVars, workVars, WorkerRests
  <2>3. QED
    BY <1>a, <2>1, <2>2 DEF Removed
<1>5. CASE addFinalizer
  <2> DEFINE w == [cur EXCEPT !.finalizer = TRUE]
  <2>1. /\ UNCHANGED <<tenants, issued, clusterVars>> /\ pc' = "idle" /\ pc # "idle"
        /\ WorkerRests
    BY <1>5 DEF addFinalizer, Requeue, storeVars, WorkerRests
  <2>2. CASE Conflict(cur)
    BY <1>5, <2>1, <2>2 DEF addFinalizer, Quiet, clusterVars
  <2>3. CASE ~Conflict(cur)
    <3>1. cur \in crs
      BY <2>1, <2>3, NoConflict DEF Inv, CurFacts
    <3>2. /\ w \in Tenant /\ Revises(w, cur)
          /\ w.phase = cur.phase /\ w.statusNs = cur.statusNs
      BY <1>0, <3>1 DEF TypeOK, Tenant, Revises
    <3>3. Write(cur, w)
      BY <1>5, <2>3 DEF addFinalizer
    <3>4. QED
      BY <1>a, <2>1, <3>1, <3>2, <3>3
  <2>4. QED
    BY <2>2, <2>3
<1>6. CASE RemoveFinalizer
  <2>1. /\ UNCHANGED <<tenants, issued, clusterVars>> /\ pc' = "idle"
        /\ pc # "idle" /\ WorkerRests
    BY <1>6 DEF RemoveFinalizer, Requeue, Done, storeVars, WorkerRests
  <2>2. CASE Conflict(cur)
    BY <1>6, <2>1, <2>2 DEF RemoveFinalizer, Quiet, clusterVars
  <2>3. CASE ~Conflict(cur)
    <3>1. cur \in crs
      BY <2>1, <2>3, NoConflict DEF Inv, CurFacts
    <3>2. crs' = crs \ {cur}
      BY <1>6, <2>3, <3>1, StoredIsIt DEF RemoveFinalizer, Inv
    <3>3. QED
      BY <2>1, <3>1, <3>2 DEF Removed
  <2>4. QED
    BY <2>2, <2>3
<1>7. CASE UpdateStatus
  <2> DEFINE w == [cur EXCEPT !.phase = "Active", !.statusNs = NsName(cur)]
  <2>1. UNCHANGED <<tenants, issued, clusterVars>> /\ pc = "status"
    BY <1>7 DEF UpdateStatus, storeVars
  <2>2. CASE Conflict(cur)
    BY <1>7, <2>1, <2>2 DEF UpdateStatus, Requeue, Quiet, clusterVars, WorkerRests
  <2>3. CASE ~Conflict(cur)
    <3>1. cur \in crs
      BY <2>1, <2>3, NoConflict DEF Inv, CurFacts
    <3>2. cur \in Tenant /\ NsName(cur) \in Seq(Segment)
      BY <1>0, <3>1, BuildType DEF TypeOK, Build, buildNamespace, Object,
         ManagedObject, Kinds
    <3>3. /\ w \in Tenant /\ Revises(w, cur) /\ w.phase = "Active"
          /\ w.statusNs = NsName(cur) /\ w.deleting = cur.deleting
      BY <3>2 DEF Tenant, Revises
    <3>4. Write(cur, w) /\ pc' = "NetworkPolicy"
      BY <1>7, <2>3 DEF UpdateStatus, NextCall
    <3>5. PICK a \in Tenant : /\ crs' = (crs \ {cur}) \cup {a}
                              /\ a.uid = cur.uid /\ a.name = cur.name
                              /\ a.phase = w.phase /\ a.statusNs = w.statusNs
                              /\ a.deleting = w.deleting
      BY <3>1, <3>3, <3>4, WriteFields
    <3>6. QED
      BY <2>1, <3>1, <3>3, <3>4, <3>5 DEF Activated
  <2>4. QED
    BY <2>2, <2>3
<1>8. ASSUME NEW n \in CRNames, Deliver(n) \/ Resync(n) PROVE Quiet
  BY <1>8 DEF Deliver, Resync, Quiet, WorkerRests, storeVars, clusterVars, workVars
<1>9. ASSUME NEW n \in CRNames, BeginReconcile(n) PROVE Quiet
  <2>1. \A t : FirstCall(t) \in {"addFinalizer", "deleteRow", "getRow"}
    BY DEF FirstCall
  <2>2. QED
    BY <1>9, <2>1 DEF BeginReconcile, Quiet, WorkerRests, storeVars, clusterVars,
       workVars
<1>10. CASE Fail \/ Crash
  BY <1>10 DEF Fail, Crash, Requeue, Quiet, WorkerRests, storeVars, clusterVars
<1>11. QED
  BY <1>1, <1>2, <1>3, <1>4, <1>5, <1>6, <1>7, <1>8, <1>9, <1>10
     DEF Next, Worker, User, Cluster

-----------------------------------------------------------------------------
(***************************************************************************)
(* ActiveIsRecorded.  The spec.name of an Active tenant may have been      *)
(* edited since, and edited back: the invariant speaks of the spec.name    *)
(* that status.namespace was made of.                                      *)
(***************************************************************************)
\* The store has taken the tenant with this uid under this spec.name.
Taken(uid, specName) ==
  \E r \in tenants : \/ r.id = uid /\ ~r.deleted
                     \/ r.id # uid /\ r.name = specName

ActiveTaken ==
  \A c \in crs :
    c.phase = "Active" /\ ~c.deleting =>
      \E s \in SpecNames : c.statusNs = c.name \o s /\ Taken(c.uid, s)

\* A row is deleted only for a resource that is marked for deletion.
DroppedDoomed ==
  \A r \in tenants, c \in crs : r.deleted /\ c.uid = r.id => c.deleting

\* From GetRow's find or CreateRow's success on, unless the resource has been
\* marked meanwhile, the row that the worker relies on is there.
WorkerTaken ==
  pc \in Kinds \cup {"updateRow", "status"} =>
    \A c \in crs : c.uid = cur.uid /\ ~c.deleting => Taken(cur.uid, cur.specName)

RecordedInv == /\ \A r \in tenants : r.id <= issued
               /\ DroppedDoomed
               /\ ActiveTaken
               /\ WorkerTaken

\* A sequence is determined by what it is appended to and the result.
LEMMA ConcatCancel ==
  ASSUME NEW S, NEW a \in Seq(S), NEW s \in Seq(S), NEW t \in Seq(S),
         a \o s = a \o t
  PROVE  s = t
<1>1. /\ Len(a) \in Nat /\ Len(s) \in Nat /\ Len(t) \in Nat
      /\ s \in [1..Len(s) -> S] /\ t \in [1..Len(t) -> S]
  OBVIOUS
<1>2. Len(a \o s) = Len(a) + Len(s) /\ Len(a \o t) = Len(a) + Len(t)
  OBVIOUS
<1>3. Len(s) = Len(t)
  <2>1. Len(a) + Len(s) = Len(a) + Len(t)
    BY <1>2
  <2>2. \A i, j, k \in Nat : i + j = i + k => j = k
    OBVIOUS
  <2>3. Len(a) \in Nat /\ Len(s) \in Nat /\ Len(t) \in Nat
    BY <1>1
  <2>4. QED
    BY <2>1, <2>2, <2>3
<1>4. ASSUME NEW i \in 1..Len(s) PROVE s[i] = t[i]
  <2>1. (a \o s)[Len(a) + i] = s[i]
    BY <1>1
  <2>2. (a \o t)[Len(a) + i] = t[i]
    BY <1>1, <1>3
  <2>3. QED
    BY <2>1, <2>2
<1>5. QED
  BY <1>1, <1>3, <1>4

\* No row is lost, and none is deleted but those of the worker's own uid.
RowsRemain == \A r \in tenants : \E q \in tenants' :
                /\ q.id = r.id /\ q.name = r.name
                /\ r.deleted => q.deleted
                /\ q.deleted => r.deleted \/ (pc = "deleteRow" /\ r.id = cur.uid)

\* Every step of the worker on rows keeps what the store has taken, but for the
\* uid whose row it deletes.
LEMMA TakenStays ==
  ASSUME RowsRemain, NEW uid, NEW s, Taken(uid, s),
         pc # "deleteRow" \/ uid # cur.uid
  PROVE  Taken(uid, s)'
<1>1. PICK r \in tenants : (r.id = uid /\ ~r.deleted) \/ (r.id # uid /\ r.name = s)
  BY DEF Taken
<1>2. PICK q \in tenants' :
        /\ q.id = r.id /\ q.name = r.name
        /\ q.deleted => r.deleted \/ (pc = "deleteRow" /\ r.id = cur.uid)
  BY DEF RowsRemain
<1>3. QED
  BY <1>1, <1>2 DEF Taken

\* The step of RecordedInv where resources stay.
LEMMA RecordedFrame ==
  ASSUME RecordedInv, UNCHANGED <<crs, tenants, issued>>, WorkerTaken'
  PROVE  RecordedInv'
BY DEF RecordedInv, DroppedDoomed, ActiveTaken, Taken

\* Every step keeps RecordedInv.
LEMMA RecordedStep == Inv /\ RecordedInv /\ [Next]_vars => RecordedInv'
<1> SUFFICES ASSUME Inv, RecordedInv, [Next]_vars PROVE RecordedInv'
  OBVIOUS
<1>0. /\ TypeOK /\ issued \in Nat /\ \A r \in tenants : r.id \in Nat
      /\ \A c \in crs : c.uid \in Nat /\ c.uid <= issued
  BY DEF Inv, TypeOK, StoreTypeOK, TenantRow, UidsIssued, Tenant
<1>1. CASE Quiet
  <2>1. WorkerTaken'
    BY <1>1 DEF Quiet, WorkerRests, RecordedInv, WorkerTaken, Taken, Kinds
  <2>2. QED
    BY <1>1, <2>1, RecordedFrame DEF Quiet
<1>2. CASE Created
  <2>1. PICK x \in Tenant : x.uid = issued + 1 /\ x.phase = "" /\ crs' = crs \cup {x}
    BY <1>2 DEF Created
  <2>2. issued' = issued + 1 /\ UNCHANGED <<tenants, pc, cur>>
    BY <1>2 DEF Created
  <2>3. \A r \in tenants : r.id <= issued
    BY DEF RecordedInv
  <2>a. \A i \in Nat : i <= issued => i # x.uid
    <3>1. issued \in Nat /\ x.uid = issued + 1
      BY <1>0, <2>1
    <3>2. QED
      BY <3>1
  <2>4. \A r \in tenants' : r.id <= issued'
    BY <1>0, <2>2, <2>3
  <2>5. DroppedDoomed'
    BY <1>0, <2>1, <2>2, <2>3, <2>a DEF RecordedInv, DroppedDoomed
  <2>6. ActiveTaken'
    BY <2>1, <2>2 DEF RecordedInv, ActiveTaken, Taken
  <2>7. WorkerTaken'
    <3>1. pc # "idle" => cur.uid \in Nat /\ cur.uid <= issued
      BY <1>0 DEF Inv, CurFacts, TypeOK, Tenant
    <3>2. pc # "idle" => x.uid # cur.uid
      BY <2>a, <3>1
    <3>3. QED
      BY <2>1, <2>2, <3>2 DEF RecordedInv, WorkerTaken, Taken, Kinds
  <2>8. QED
    BY <2>4, <2>5, <2>6, <2>7 DEF RecordedInv
<1>3. CASE Revised
  <2>1. PICK v \in crs, a \in Tenant :
          /\ crs' = (crs \ {v}) \cup {a}
          /\ a.uid = v.uid /\ a.name = v.name
          /\ a.phase = v.phase /\ a.statusNs = v.statusNs
          /\ v.deleting => a.deleting
    BY <1>3 DEF Revised
  <2>2. UNCHANGED <<tenants, issued>> /\ WorkerRests
    BY <1>3 DEF Revised
  <2>3. DroppedDoomed'
    BY <2>1, <2>2 DEF RecordedInv, DroppedDoomed
  <2>4. ActiveTaken'
    <3>1. \A uid, s : Taken(uid, s) => Taken(uid, s)'
      BY <2>2 DEF Taken
    <3>2. QED
      BY <2>1, <3>1 DEF RecordedInv, ActiveTaken
  <2>5. WorkerTaken'
    BY <2>1, <2>2 DEF RecordedInv, WorkerTaken, Taken, WorkerRests, Kinds
  <2>6. QED
    BY <2>2, <2>3, <2>4, <2>5 DEF RecordedInv
<1>4. CASE Activated
  <2>1. PICK a \in Tenant :
          /\ crs' = (crs \ {cur}) \cup {a}
          /\ a.uid = cur.uid /\ a.name = cur.name
          /\ a.phase = "Active" /\ a.statusNs = NsName(cur)
          /\ a.deleting = cur.deleting
    BY <1>4 DEF Activated
  <2>2. /\ UNCHANGED <<tenants, issued>> /\ pc = "status" /\ pc' = "NetworkPolicy"
        /\ cur \in crs
    BY <1>4 DEF Activated
  <2>3. ~cur.deleting /\ cur.specName \in SpecNames
    BY <1>0, <2>2 DEF Inv, CurFacts, Provisioning, TypeOK, Tenant
  <2>4. Taken(cur.uid, cur.specName)
    BY <2>2, <2>3 DEF RecordedInv, WorkerTaken
  <2>5. DroppedDoomed'
    BY <2>1, <2>2 DEF RecordedInv, DroppedDoomed
  <2>6. ActiveTaken'
    <3>1. \A uid, s : Taken(uid, s) => Taken(uid, s)'
      BY <2>2 DEF Taken
    <3>2. QED
      BY <2>1, <2>3, <2>4, <3>1 DEF RecordedInv, ActiveTaken, NsName
  <2>7. WorkerTaken'
    <3>1. cur'.uid = cur.uid /\ cur'.specName = cur.specName
      <4>1. UpdateStatus
        BY <2>2 DEF Next, Worker, User, Cluster, vars, workVars, addFinalizer, DeleteRow,
           RemoveFinalizer, GetRow, CreateRow, UpdateRow, Apply, ApplyStale,
           BeginReconcile, CreateCR, EditCR, DeleteCR, Tamper, Deliver, Resync,
           GcCollect, FinalizeNamespace, Fail, Crash, Requeue, Kinds
      <4>2. pc' # "idle" /\ cur' = Accepted(cur, [cur EXCEPT !.phase = "Active",
                                                  !.statusNs = NsName(cur)])
        BY <2>2, <4>1 DEF UpdateStatus, Requeue
      <4>3. cur \in Tenant
        BY <1>0, <2>2 DEF TypeOK
      <4>4. QED
        BY <4>2, <4>3 DEF Accepted, Tenant
    <3>2. QED
      BY <2>2, <2>4, <3>1 DEF WorkerTaken, Taken
  <2>8. QED
    BY <2>2, <2>5, <2>6, <2>7 DEF RecordedInv
<1>5. CASE Removed
  <2>1. crs' \subseteq crs /\ UNCHANGED <<tenants, issued>> /\ WorkerRests
    BY <1>5 DEF Removed
  <2>2. QED
    BY <2>1 DEF RecordedInv, DroppedDoomed, ActiveTaken, WorkerTaken, Taken,
       WorkerRests, Kinds
<1>6. CASE DeleteRow
  <2>1. /\ DeleteTenant(cur.uid) /\ pc = "deleteRow" /\ pc' = "removeFinalizer"
        /\ UNCHANGED <<crs, issued>>
    BY <1>6 DEF DeleteRow, Goto
  <2>2. \A r \in tenants : LET d == [r EXCEPT !.deleted = TRUE]
                           IN  d.deleted /\ d.id = r.id /\ d.name = r.name
    BY <1>0 DEF TypeOK, StoreTypeOK, TenantRow
  <2>3. RowsRemain
    BY <2>1, <2>2 DEF DeleteTenant, RowsRemain
  <2>4. \A q \in tenants' : \E r \in tenants :
          q.id = r.id /\ (q.deleted => r.deleted \/ r.id = cur.uid)
    BY <2>1, <2>2 DEF DeleteTenant
  <2>5. \A c \in crs : c.uid = cur.uid => c.deleting
    BY <2>1 DEF Inv, CurFacts, Copy, OlderVersion
  <2>6. DroppedDoomed'
    BY <2>1, <2>4, <2>5 DEF RecordedInv, DroppedDoomed
  <2>7. ActiveTaken'
    BY <2>1, <2>3, <2>5, TakenStays DEF RecordedInv, ActiveTaken
  <2>8. \A q \in tenants' : q.id <= issued'
    BY <2>1, <2>4 DEF RecordedInv
  <2>9. QED
    BY <2>1, <2>6, <2>7, <2>8 DEF RecordedInv, WorkerTaken, Kinds
<1>7. CASE GetRow
  <2>1. /\ pc = "getRow" /\ cur' = cur /\ UNCHANGED <<crs, tenants, issued>>
        /\ pc' = IF GetTenantByID(cur.uid) = {} THEN "createRow" ELSE "updateRow"
    BY <1>7 DEF GetRow, Goto, storeVars
  <2>2. WorkerTaken'
    BY <2>1 DEF WorkerTaken, Taken, GetTenantByID, Kinds
  <2>3. QED
    BY <2>1, <2>2, RecordedFrame
<1>8. CASE CreateRow
  <2>1. pc = "createRow" /\ UNCHANGED <<crs, issued>>
    BY <1>8 DEF CreateRow
  <2>2. CASE UniqueViolation(cur)
    BY <1>8, <2>1, <2>2, RecordedFrame DEF CreateRow, CreateTenant, Requeue,
       WorkerTaken, Kinds
  <2>3. CASE ~UniqueViolation(cur)
    <3>1. CreateTenant(cur) /\ pc' = "Namespace" /\ cur' = cur
      BY <1>8, <2>3 DEF CreateRow, Goto
    <3>2. /\ Row(cur).id = cur.uid /\ ~Row(cur).deleted
      BY DEF Row
    <3>3. /\ tenants \subseteq tenants' /\ tenants' \subseteq tenants \cup {Row(cur)}
          /\ NameTaken(cur) \/ Row(cur) \in tenants'
      BY <3>1 DEF CreateTenant
    <3>4. cur.uid <= issued
      BY <2>1 DEF Inv, CurFacts
    <3>5. DroppedDoomed'
      BY <2>1, <3>2, <3>3 DEF RecordedInv, DroppedDoomed
    <3>6. ActiveTaken'
      BY <2>1, <3>3 DEF RecordedInv, ActiveTaken, Taken
    <3>7. WorkerTaken'
      <4> SUFFICES ASSUME NEW c \in crs, c.uid = cur.uid, ~c.deleting
                   PROVE  Taken(cur.uid, cur.specName)'
        BY <2>1, <3>1 DEF WorkerTaken, Taken
      <4>1. CASE Row(cur) \in tenants'
        BY <3>1, <3>2, <4>1 DEF Taken
      <4>2. CASE NameTaken(cur)
        <5>1. PICK r \in tenants : r.name = cur.specName
          BY <4>2 DEF NameTaken
        <5>2. r.id = cur.uid => ~r.deleted
          BY DEF RecordedInv, DroppedDoomed
        <5>3. QED
          BY <3>1, <3>3, <5>1, <5>2 DEF Taken
      <4>3. QED
        BY <3>3, <4>1, <4>2
    <3>8. \A r \in tenants' : r.id <= issued'
      BY <2>1, <3>2, <3>3, <3>4 DEF RecordedInv
    <3>9. QED
      BY <3>5, <3>6, <3>7, <3>8 DEF RecordedInv
  <2>4. QED
    BY <2>2, <2>3
<1>9. CASE UpdateRow
  <2>1. /\ UpdateTenant(cur) /\ pc = "updateRow" /\ pc' = "Namespace" /\ cur' = cur
        /\ UNCHANGED <<crs, issued>>
    BY <1>9 DEF UpdateRow, Goto
  <2>2. \A r \in tenants :
          LET u == [r EXCEPT !.tier = cur.tier, !.ownerEmail = cur.email]
          IN  u.id = r.id /\ u.name = r.name /\ u.deleted = r.deleted
    BY <1>0 DEF TypeOK, StoreTypeOK, TenantRow
  <2>3. RowsRemain
    BY <2>1, <2>2 DEF UpdateTenant, RowsRemain
  <2>4. \A q \in tenants' : \E r \in tenants : q.id = r.id /\ q.deleted = r.deleted
    BY <2>1, <2>2 DEF UpdateTenant
  <2>5. DroppedDoomed' /\ (\A q \in tenants' : q.id <= issued')
    BY <2>1, <2>4 DEF RecordedInv, DroppedDoomed
  <2>6. ActiveTaken'
    BY <2>1, <2>3, TakenStays DEF RecordedInv, ActiveTaken
  <2>7. WorkerTaken'
    <3>1. Taken(cur.uid, cur.specName) => Taken(cur.uid, cur.specName)'
      BY <2>1, <2>3, TakenStays DEF Taken
    <3>2. QED
      BY <2>1, <3>1 DEF RecordedInv, WorkerTaken
  <2>8. QED
    BY <2>5, <2>6, <2>7 DEF RecordedInv
<1>10. ASSUME NEW kind \in Kinds, Apply(kind) \/ ApplyStale(kind) PROVE RecordedInv'
  <2>1. pc = kind /\ UNCHANGED <<crs, tenants, issued>>
    BY <1>10 DEF Apply, ApplyStale, storeVars
  <2>2. pc' = "idle" \/ cur' = cur
    BY <1>10 DEF Apply, ApplyStale, AfterApply, Requeue, Done, Goto
  <2>3. WorkerTaken'
    BY <2>1, <2>2 DEF RecordedInv, WorkerTaken, Taken, Kinds
  <2>4. QED
    BY <2>1, <2>3, RecordedFrame
<1>11. CASE \/ (\E o \in objs : Tamper(o) \/ GcCollect(o))
            \/ (\E ns \in terminating : FinalizeNamespace(ns))
  <2>1. UNCHANGED <<crs, tenants, issued, pc, cur>>
    BY <1>11 DEF Tamper, GcCollect, FinalizeNamespace, storeVars, crVars, workVars
  <2>2. WorkerTaken'
    BY <2>1 DEF RecordedInv, WorkerTaken, Taken
  <2>3. QED
    BY <2>1, <2>2, RecordedFrame
<1>12. QED
  BY <1>1, <1>2, <1>3, <1>4, <1>5, <1>6, <1>7, <1>8, <1>9, <1>10, <1>11, StepShape

\* For any names, edits, deletions and faults, a tenant that is Active under its
\* present spec.name has been taken by the store: it has a live row, or another
\* tenant's row has that name.
THEOREM ActiveRecorded == Spec => []ActiveIsRecorded
<1>1. Init => RecordedInv
  BY DEF Init, StoreInit, RecordedInv, DroppedDoomed, ActiveTaken, WorkerTaken, Kinds
<1>2. Inv /\ RecordedInv /\ [Next]_vars => RecordedInv'
  BY RecordedStep
<1>3. Inv /\ RecordedInv => ActiveIsRecorded
  <2> SUFFICES ASSUME Inv, RecordedInv, NEW c \in crs, c.phase = "Active",
                      ~c.deleting, c.statusNs = NsName(c)
               PROVE  Taken(c.uid, c.specName)
    BY DEF ActiveIsRecorded, Taken
  <2>1. PICK s \in SpecNames : c.statusNs = c.name \o s /\ Taken(c.uid, s)
    BY DEF RecordedInv, ActiveTaken
  <2>2. c.name \in Seq(Segment) /\ c.specName \in Seq(Segment) /\ s \in Seq(Segment)
    BY CRNamesAssumption, SpecNamesAssumption DEF Inv, TypeOK, Tenant
  <2>3. c.name \o s = c.name \o c.specName
    BY <2>1 DEF NsName
  <2>4. s = c.specName
    BY <2>2, <2>3, ConcatCancel
  <2>5. QED
    BY <2>1, <2>4
<1>4. QED
  BY <1>1, <1>2, <1>3, Invariance, PTL DEF Spec

-----------------------------------------------------------------------------
(***************************************************************************)
(* ActiveIsGoverned.  An object goes from a tenant to its successor of the *)
(* same name and never back, so owners' uids only grow; and the collector  *)
(* takes nothing from a tenant that is there.  What the worker has built   *)
(* for a tenant it cannot lose by the time it writes the status.           *)
(***************************************************************************)
\* No two resources can get the same namespace.  The code does not see to it:
\* resources "a" with spec.name "b-c" and "a-b" with "c" take the namespace
\* from each other, and ActiveIsGoverned does not hold of them.
Unambiguous == \A m, n \in CRNames, s, t \in SpecNames : m \o s = n \o t => m = n

\* Resource names with the same number of dashes, none for instance, are enough.
LEMMA EvenNamesUnambiguous ==
  ASSUME NEW k \in Nat, \A n \in CRNames : Len(n) = k
  PROVE  Unambiguous
<1> SUFFICES ASSUME NEW m \in CRNames, NEW n \in CRNames, NEW s \in SpecNames,
                    NEW t \in SpecNames, m \o s = n \o t
             PROVE  m = n
  BY DEF Unambiguous
<1>1. /\ m \in Seq(Segment) /\ n \in Seq(Segment)
      /\ s \in Seq(Segment) /\ t \in Seq(Segment)
  BY CRNamesAssumption, SpecNamesAssumption
<1>2. m \in [1..k -> Segment] /\ n \in [1..k -> Segment]
  BY <1>1
<1>3. ASSUME NEW i \in 1..k PROVE m[i] = n[i]
  <2>1. i \in 1..Len(m) /\ i \in 1..Len(n)
    OBVIOUS
  <2>2. (m \o s)[i] = m[i]
    BY <1>1, <2>1
  <2>3. (n \o t)[i] = n[i]
    BY <1>1, <2>1
  <2>4. QED
    BY <2>2, <2>3
<1>4. QED
  BY <1>2, <1>3

\* The kinds whose owner is compared.
Governing == Kinds \ {"NetworkPolicy", "LimitRange"}

NamespaceOf(c, ns) == \E s \in SpecNames : ns = c.name \o s

UniqueName == \A c, d \in crs : c.name = d.name => c = d

ActiveNs == \A c \in crs : c.phase = "Active" => NamespaceOf(c, c.statusNs)

\* What a build function makes of kind, name and content.
AsBuilt(o) ==
  o.kind \in Governing =>
    /\ o.owner <= issued
    /\ o.kind = "Namespace" => o.of = <<>>
    /\ IF o.kind = "Quota" THEN o.of = <<o.val>> ELSE o.val = "built"

UniqueKeys == \A o, p \in objs : SameKey(o, p) => o = p

\* No object in a namespace of c's belongs to a later tenant than c.
OwnersKnown ==
  \A c \in crs, o \in objs \cup past :
    o.kind \in Governing /\ NamespaceOf(c, o.ns) => o.owner <= c.uid

\* A replaced version never belongs to a later tenant than what replaced it.
OwnersGrow ==
  \A p \in past, o \in objs :
    o.kind \in Governing /\ SameKey(o, p) => p.owner <= o.owner

Owned(uid, ns, kind) ==
  \E o \in objs : o.kind = kind /\ o.ns = ns /\ o.owner = uid

\* The namespace is uid's and is not being deleted, and so are objects of kinds K.
Governs(uid, ns, K) == /\ ns \in LiveNamespaces
                       /\ Owned(uid, ns, "Namespace")
                       /\ \A kind \in K : Owned(uid, ns, kind)

\* The kinds built, apart from the namespace, before each of the worker's calls.
BuiltBefore ==
  [AdminRole           |-> {"Quota"},
   OperatorRole        |-> {"Quota", "AdminRole"},
   AdminRoleBinding    |-> {"Quota", "AdminRole", "OperatorRole"},
   OperatorRoleBinding |-> {"Quota", "AdminRole", "OperatorRole",
                            "AdminRoleBinding"},
   status              |-> Governing \ {"Namespace"}]

Building == {"AdminRole", "OperatorRole", "AdminRoleBinding", "OperatorRoleBinding",
             "status"}

\* Before the quota is built the namespace may still be on its way out, left by
\* the predecessor; the API server takes the quota only if it is not.
WorkerGoverns ==
  /\ pc = "Quota" =>
       \A o \in objs : o.kind = "Namespace" /\ o.ns = NsName(cur) => o.owner = cur.uid
  /\ pc \in Building => Governs(cur.uid, NsName(cur), BuiltBefore[pc])

ActiveGoverns ==
  \A c \in crs :
    c.phase = "Active" => Governs(c.uid, c.statusNs, Governing \ {"Namespace"})

GovernedFacts == /\ \A o \in objs \cup past : AsBuilt(o)
                 /\ UniqueKeys
                 /\ OwnersKnown
                 /\ OwnersGrow
                 /\ WorkerGoverns
                 /\ ActiveGoverns

GovernedInv == /\ UniqueName
               /\ ActiveNs
               /\ spent["tampers"] = 0 => GovernedFacts

\* What the build functions make of a kind whose owner is compared.
LEMMA BuildShape ==
  ASSUME NEW t, NEW kind \in Kinds
  PROVE  /\ Build(kind, t).kind = kind
         /\ Build(kind, t).ns = NsName(t)
         /\ Build(kind, t).owner = t.uid
         /\ kind = "Namespace" => Build(kind, t).of = <<>>
         /\ kind \in Governing =>
              IF kind = "Quota" THEN Build(kind, t).of = <<Build(kind, t).val>>
                                ELSE Build(kind, t).val = "built"
<1>1. buildResourceQuota(t) \in {Object("Quota", t, <<x>>, x) : x \in Tiers}
  BY DEF buildResourceQuota, buildFreeTier, buildProTier, buildEnterpriseTier, Tiers
<1>2. PICK x \in Tiers : buildResourceQuota(t) = Object("Quota", t, <<x>>, x)
  BY <1>1
<1>3. CASE kind = "Quota"
  <2>1. Build(kind, t) = Object("Quota", t, <<x>>, x)
    BY <1>2, <1>3 DEF Build
  <2>2. QED
    BY <1>3, <2>1 DEF Object
<1>4. CASE kind # "Quota"
  BY <1>4 DEF Build, buildNamespace, buildAdminRole, buildOperatorRole,
     buildAdminRoleBinding, buildOperatorRoleBinding, buildNetworkPolicy,
     buildLimitRange, Object, Kinds, Governing
<1>5. QED
  BY <1>3, <1>4

\* An object of such a kind is left alone only if owner and content are right.
LEMMA OwnerCompared ==
  ASSUME NEW o, NEW d, d.kind \in Governing
  PROVE  needsUpdate(o, d) <=> (o.val # d.val \/ o.owner # d.owner)
BY DEF needsUpdate, nsNeedsUpdate, rqNeedsUpdate, roleNeedsUpdate, rbNeedsUpdate,
   RoleKinds, BindingKinds, Governing, Kinds

\* The resource with the worker's name is the worker's.
LEMMA CurIs ==
  ASSUME Inv, UniqueName, pc \in Provisioning
  PROVE  /\ cur \in Tenant /\ cur.specName \in SpecNames /\ cur.name \in CRNames
         /\ cur.uid <= issued
         /\ \E c \in crs : c.uid = cur.uid /\ c.name = cur.name
         /\ \A c \in crs : c.name = cur.name => c.uid = cur.uid
<1>1. pc # "idle"
  BY DEF Provisioning, Kinds
<1>2. cur \in Tenant
  BY <1>1 DEF Inv, TypeOK
<1>3. Copy(cur) /\ Held(cur.uid) /\ cur.uid <= issued
  BY <1>1 DEF Inv, CurFacts, Copy
<1>4. PICK c \in crs : c.uid = cur.uid
  BY <1>3 DEF Held
<1>5. c.name = cur.name
  BY <1>3, <1>4 DEF Copy, OlderVersion
<1>6. QED
  BY <1>2, <1>3, <1>4, <1>5 DEF UniqueName, Tenant

\* What a tenant that is there has in a namespace of its name stays.
Lasting ==
  \A c \in crs, s \in SpecNames, K \in SUBSET Governing :
    Governs(c.uid, c.name \o s, K) => Governs(c.uid, c.name \o s, K)'

\* createOrUpdate has put d in the place of what had its key.
Overwritten(d) == /\ objs' = (objs \ Existing(d)) \cup {d}
                  /\ past' \subseteq past \cup Existing(d)

\* The worker overwrites only what belongs to its own tenant's name.
LEMMA OverwriteLasts ==
  ASSUME Inv, UniqueName, Unambiguous, pc \in Provisioning, NEW kind \in Kinds,
         Overwritten(Build(kind, cur)), UNCHANGED terminating
  PROVE  Lasting
<1> DEFINE d == Build(kind, cur)
<1>1. d.kind = kind /\ d.ns = cur.name \o cur.specName /\ d.owner = cur.uid
  BY BuildShape DEF NsName
<1>2. objs' = (objs \ Existing(d)) \cup {d}
  BY DEF Overwritten
<1> HIDE DEF d
<1>3. ASSUME NEW c \in crs, NEW s \in SpecNames, NEW k \in Kinds,
             Owned(c.uid, c.name \o s, k)
      PROVE  Owned(c.uid, c.name \o s, k)'
  <2>1. PICK o \in objs : o.kind = k /\ o.ns = c.name \o s /\ o.owner = c.uid
    BY <1>3 DEF Owned
  <2>2. CASE ~SameKey(o, d)
    BY <1>2, <2>1, <2>2 DEF Owned, Existing
  <2>3. CASE SameKey(o, d)
    <3>1. d.kind = k /\ d.ns = c.name \o s
      BY <2>1, <2>3 DEF SameKey
    <3>2. c.name \in CRNames
      BY DEF Inv, TypeOK, Tenant
    <3>3. c.name = cur.name
      BY <1>1, <3>1, <3>2, CurIs DEF Unambiguous
    <3>4. d.owner = c.uid
      BY <1>1, <3>3, CurIs
    <3>5. QED
      BY <1>2, <3>1, <3>4 DEF Owned
  <2>4. QED
    BY <2>2, <2>3
<1>4. ASSUME NEW ns, NEW uid, ns \in LiveNamespaces, Owned(uid, ns, "Namespace")'
      PROVE  ns \in LiveNamespaces'
  BY <1>4 DEF Owned, LiveNamespaces
<1>5. QED
  BY <1>3, <1>4 DEF Lasting, Governs, Governing, Kinds

\* The collector takes only objects whose owner is gone; a live namespace is
\* one object.
LEMMA CollectLasts ==
  ASSUME \A o \in objs : AsBuilt(o), UniqueKeys, NEW x \in objs, GcCollect(x)
  PROVE  Lasting
<1>1. \A c \in crs : c.uid # x.owner
  BY DEF GcCollect
<1>2. CASE x.kind = "Namespace"
  <2>1. UNCHANGED objs /\ terminating' = terminating \cup {x.ns}
    BY <1>2 DEF GcCollect
  <2>2. ASSUME NEW c \in crs, NEW ns, ns \in LiveNamespaces,
               Owned(c.uid, ns, "Namespace")
        PROVE  ns \in LiveNamespaces'
    <3>1. PICK o \in objs : o.kind = "Namespace" /\ o.ns = ns /\ o.owner = c.uid
      BY <2>2 DEF Owned
    <3>2. o.of = <<>> /\ x.of = <<>>
      BY <1>2, <3>1 DEF AsBuilt, Governing, Kinds
    <3>3. x.ns # ns
      BY <1>1, <1>2, <3>1, <3>2 DEF UniqueKeys, SameKey
    <3>4. QED
      BY <2>1, <2>2, <3>3 DEF LiveNamespaces
  <2>3. QED
    BY <2>1, <2>2 DEF Lasting, Governs, Owned
<1>3. CASE x.kind # "Namespace"
  <2>1. objs' = objs \ {x} /\ UNCHANGED terminating
    BY <1>3 DEF GcCollect, Replace
  <2>2. LiveNamespaces' = LiveNamespaces
    BY <1>3, <2>1 DEF LiveNamespaces
  <2>3. \A c \in crs : \A ns, k : Owned(c.uid, ns, k) => Owned(c.uid, ns, k)'
    BY <1>1, <2>1 DEF Owned
  <2>4. QED
    BY <2>2, <2>3 DEF Lasting, Governs
<1>4. QED
  BY <1>2, <1>3

\* Only a namespace that is terminating is removed, with what is in it.
LEMMA FinalizeLasts ==
  ASSUME NEW n \in terminating, FinalizeNamespace(n)
  PROVE  Lasting
<1>1. /\ objs' = objs \ {o \in objs : o.ns = n}
      /\ terminating' = terminating \ {n}
  BY DEF FinalizeNamespace, Replace
<1>2. \A ns \in LiveNamespaces : ns # n /\ ns \in LiveNamespaces'
  BY <1>1 DEF LiveNamespaces
<1>3. \A ns, uid, k : ns # n /\ Owned(uid, ns, k) => Owned(uid, ns, k)'
  BY <1>1 DEF Owned
<1>4. QED
  BY <1>2, <1>3 DEF Lasting, Governs

\* What lasts while the resources and the worker stay.
LEMMA LastingGoverns ==
  ASSUME Inv, UniqueName, ActiveNs, UNCHANGED crs, Lasting
  PROVE  /\ ActiveGoverns => ActiveGoverns'
         /\ \A K \in SUBSET Governing :
              pc \in Provisioning /\ cur' = cur /\ Governs(cur.uid, NsName(cur), K)
                => Governs(cur.uid, NsName(cur), K)'
<1>1. ASSUME ActiveGoverns, NEW c \in crs, c.phase = "Active"
      PROVE  Governs(c.uid, c.statusNs, Governing \ {"Namespace"})'
  <2>1. PICK s \in SpecNames : c.statusNs = c.name \o s
    BY <1>1 DEF ActiveNs, NamespaceOf
  <2>2. Governs(c.uid, c.name \o s, Governing \ {"Namespace"})
    BY <1>1, <2>1 DEF ActiveGoverns
  <2>3. Governs(c.uid, c.name \o s, Governing \ {"Namespace"})'
    BY <2>2 DEF Lasting
  <2>4. QED
    BY <2>1, <2>3
<1>2. ActiveGoverns => ActiveGoverns'
  BY <1>1 DEF ActiveGoverns
<1>3. ASSUME NEW K \in SUBSET Governing, pc \in Provisioning, cur' = cur,
             Governs(cur.uid, NsName(cur), K)
      PROVE  Governs(cur.uid, NsName(cur), K)'
  <2>1. PICK c \in crs : c.uid = cur.uid /\ c.name = cur.name
    BY <1>3, CurIs
  <2>2. PICK s \in SpecNames : s = cur.specName
    BY <1>3, CurIs
  <2>3. NsName(cur) = c.name \o s
    BY <2>1, <2>2 DEF NsName
  <2>4. Governs(c.uid, c.name \o s, K)
    BY <1>3, <2>1, <2>3
  <2>5. Governs(c.uid, c.name \o s, K)'
    BY <2>4 DEF Lasting
  <2>6. QED
    BY <1>3, <2>1, <2>3, <2>5 DEF NsName
<1>4. QED
  BY <1>2, <1>3

\* The steps that touch rows only, or nothing but the worker.
RowsOnly == DeleteRow \/ GetRow \/ CreateRow \/ UpdateRow

\* Such a step leaves the cluster alone and takes the worker to one of five calls.
LEMMA RowsOnlyEffect ==
  ASSUME RowsOnly
  PROVE  /\ UNCHANGED <<crs, objs, past, terminating, issued>>
         /\ pc' \in {"idle", "removeFinalizer", "createRow", "updateRow", "Namespace"}
BY DEF RowsOnly, DeleteRow, GetRow, CreateRow, UpdateRow, Goto, Requeue,
   storeVars, clusterVars

\* Names: two resources never have the same one, and the namespace in a status
\* is one of its resource's.
LEMMA NamesStep ==
  ASSUME Inv, UniqueName, ActiveNs, [Next]_vars
  PROVE  UniqueName' /\ ActiveNs'
<1>1. CASE UNCHANGED crs
  BY <1>1 DEF UniqueName, ActiveNs, NamespaceOf
<1>2. CASE Created
  <2>1. PICK x \in Tenant : /\ x.phase = "" /\ Named(crs, x.name) = {}
                            /\ crs' = crs \cup {x}
    BY <1>2 DEF Created
  <2>2. QED
    BY <2>1 DEF UniqueName, ActiveNs, NamespaceOf, Named
<1>3. CASE Revised
  <2>1. PICK v \in crs, a \in Tenant :
          /\ crs' = (crs \ {v}) \cup {a}
          /\ a.name = v.name /\ a.phase = v.phase /\ a.statusNs = v.statusNs
    BY <1>3 DEF Revised
  <2>2. UniqueName'
    BY <2>1 DEF UniqueName
  <2>3. \A c, n : NamespaceOf(c, n)' <=> NamespaceOf(c, n)
    BY DEF NamespaceOf
  <2>4. NamespaceOf(v, v.statusNs) => NamespaceOf(a, a.statusNs)
    BY <2>1 DEF NamespaceOf
  <2>5. ActiveNs'
    BY <2>1, <2>3, <2>4 DEF ActiveNs
  <2>6. QED
    BY <2>2, <2>5
<1>4. CASE Activated
  <2>1. PICK a \in Tenant :
          /\ crs' = (crs \ {cur}) \cup {a}
          /\ a.name = cur.name /\ a.statusNs = NsName(cur)
    BY <1>4 DEF Activated
  <2>2. cur \in crs /\ cur.specName \in SpecNames
    BY <1>4 DEF Activated, Inv, TypeOK, Tenant
  <2>3. QED
    BY <2>1, <2>2 DEF UniqueName, ActiveNs, NamespaceOf, NsName
<1>5. CASE Removed
  BY <1>5 DEF Removed, UniqueName, ActiveNs, NamespaceOf
<1>6. CASE \/ Quiet \/ RowsOnly
           \/ \E kind \in Kinds : Apply(kind) \/ ApplyStale(kind)
           \/ \E o \in objs : Tamper(o) \/ GcCollect(o)
           \/ \E ns \in terminating : FinalizeNamespace(ns)
  <2>1. UNCHANGED crs
    BY <1>6, RowsOnlyEffect DEF Quiet, Apply, ApplyStale, Tamper, GcCollect,
       FinalizeNamespace, crVars
  <2>2. QED
    BY <1>1, <2>1
<1>7. QED
  BY <1>2, <1>3, <1>4, <1>5, <1>6, StepShape DEF RowsOnly

\* Tampering is counted.
LEMMA TampersCounted ==
  ASSUME TypeOK, [Next]_vars, spent'["tampers"] = 0
  PROVE  spent["tampers"] = 0 /\ \A o \in objs : ~Tamper(o)
<1>1. spent \in [Bounded -> Nat] /\ "tampers" \in Bounded /\ spent["tampers"] \in Nat
  BY DEF TypeOK, Bounded
<1>2. ASSUME NEW b \in Bounded \ {"tampers"}, NEW max, Spend(b, max)
      PROVE  spent["tampers"] = 0
  BY <1>1, <1>2 DEF Spend
<1>3. ASSUME NEW max, Spend("tampers", max) PROVE FALSE
  <2>1. spent'["tampers"] = spent["tampers"] + 1
    BY <1>1, <1>3 DEF Spend
  <2>2. QED
    BY <1>1, <2>1
<1>4. \A o \in objs : ~Tamper(o)
  BY <1>3 DEF Tamper
<1>5. CASE UNCHANGED spent
  BY <1>4, <1>5
<1>6. CASE \E b \in {"edits", "deletes", "faults"} : \E max : Spend(b, max)
  BY <1>2, <1>4, <1>6 DEF Bounded
<1>7. UNCHANGED spent \/ \E b \in {"edits", "deletes", "faults"} : \E max : Spend(b, max)
  BY <1>4 DEF Next, Worker, User, Cluster, vars, addFinalizer, DeleteRow,
     RemoveFinalizer, GetRow, CreateRow, UpdateRow, Apply, ApplyStale, UpdateStatus,
     BeginReconcile, CreateCR, EditCR, DeleteCR, Deliver, Resync, GcCollect,
     FinalizeNamespace, Fail, Crash
<1>8. QED
  BY <1>4, <1>5, <1>6, <1>7

\* The step of GovernedFacts where objects stay.
LEMMA FactsFrame ==
  ASSUME Inv, GovernedFacts, UNCHANGED <<objs, terminating>>, past' \subseteq past,
         issued' = issued \/ issued' = issued + 1,
         OwnersKnown', WorkerGoverns', ActiveGoverns'
  PROVE  GovernedFacts'
<1>1. issued \in Nat /\ \A o \in objs \cup past : o.owner \in Nat
  BY DEF Inv, TypeOK, StoreTypeOK, ManagedObject
<1>2. \A n \in Nat : n <= issued => n <= issued'
  BY <1>1
<1>3. \A o \in objs \cup past : AsBuilt(o)'
  BY <1>1, <1>2 DEF GovernedFacts, AsBuilt
<1>4. UniqueKeys' /\ OwnersGrow'
  BY DEF GovernedFacts, UniqueKeys, OwnersGrow
<1>5. \A o \in (objs \cup past)' : AsBuilt(o)'
  BY <1>3
<1>6. QED
  BY <1>4, <1>5 DEF GovernedFacts

\* What Apply does: nothing, or it overwrites; and it goes on only if then an
\* object of the desired owner and content is there.
LEMMA ApplyEffect ==
  ASSUME NEW kind \in Governing, Apply(kind)
  PROVE  /\ UNCHANGED <<objs, past>> \/ Overwritten(Build(kind, cur))
         /\ \/ pc' = "idle"
            \/ /\ cur' = cur /\ pc' = NextCall[kind]
               /\ kind # "Namespace" => NsName(cur) \in LiveNamespaces
               /\ \E o \in objs' : /\ SameKey(o, Build(kind, cur))
                                   /\ o.owner = cur.uid
<1> DEFINE d == Build(kind, cur)
<1>1. kind \in Kinds /\ d.kind = kind /\ d.ns = NsName(cur) /\ d.owner = cur.uid
  BY BuildShape DEF Governing
<1>2. \A o : needsUpdate(o, d) <=> (o.val # d.val \/ o.owner # d.owner)
  BY <1>1, OwnerCompared
<1>3. \/ ~Rejected(d) /\ createOrUpdate(d) /\ AfterApply(kind)
      \/ Requeue /\ UNCHANGED <<objs, past>>
  BY DEF Apply
<1>4. ASSUME createOrUpdate(d)
      PROVE  /\ UNCHANGED <<objs, past>> \/ Overwritten(d)
             /\ \E o \in objs' : SameKey(o, d) /\ o.owner = cur.uid
  <2>1. CASE \E o \in Existing(d) : ~needsUpdate(o, d)
    BY <1>1, <1>2, <1>4, <2>1 DEF createOrUpdate, Existing
  <2>2. CASE ~\E o \in Existing(d) : ~needsUpdate(o, d)
    <3>1. Replace(Existing(d), {d})
      BY <1>4, <2>2 DEF createOrUpdate
    <3>2. Overwritten(d)
      BY <3>1 DEF Replace, Overwritten
    <3>3. d \in objs' /\ SameKey(d, d)
      BY <3>2 DEF Overwritten, SameKey
    <3>4. QED
      BY <1>1, <3>2, <3>3
  <2>3. QED
    BY <2>1, <2>2
<1>5. ASSUME AfterApply(kind) PROVE pc' = "idle" \/ (cur' = cur /\ pc' = NextCall[kind])
  BY <1>5 DEF AfterApply, Done, Goto
<1>6. ~Rejected(d) => (kind # "Namespace" => NsName(cur) \in LiveNamespaces)
  BY <1>1 DEF Rejected
<1> HIDE DEF d
<1>7. QED
  <2>1. CASE ~Rejected(d) /\ createOrUpdate(d) /\ AfterApply(kind)
    BY <1>4, <1>5, <1>6, <2>1 DEF d
  <2>2. CASE Requeue /\ UNCHANGED <<objs, past>>
    BY <2>2 DEF Requeue
  <2>3. QED
    BY <1>3, <2>1, <2>2

\* Apply keeps the objects' facts.
LEMMA ApplyObjects ==
  ASSUME Inv, UniqueName, Unambiguous, GovernedFacts, NEW kind \in Kinds, pc = kind,
         UNCHANGED <<crs, issued>>,
         UNCHANGED <<objs, past>> \/ Overwritten(Build(kind, cur))
  PROVE  /\ \A o \in (objs \cup past)' : AsBuilt(o)'
         /\ UniqueKeys' /\ OwnersKnown' /\ OwnersGrow'
<1> DEFINE d == Build(kind, cur)
<1>1. pc \in Provisioning
  BY DEF Provisioning
<1>2. /\ d.kind = kind /\ d.ns = NsName(cur) /\ d.owner = cur.uid
      /\ kind = "Namespace" => d.of = <<>>
      /\ kind \in Governing =>
           IF kind = "Quota" THEN d.of = <<d.val>> ELSE d.val = "built"
  BY BuildShape
<1>3. CASE UNCHANGED <<objs, past>>
  BY <1>3 DEF GovernedFacts, AsBuilt, UniqueKeys, OwnersKnown, OwnersGrow, NamespaceOf
<1>4. CASE Overwritten(d)
  <2> HIDE DEF d
  <2>1. /\ objs' = (objs \ Existing(d)) \cup {d}
        /\ past' \subseteq past \cup Existing(d)
        /\ Existing(d) \subseteq objs
    BY <1>4 DEF Overwritten, Existing
  <2>2. AsBuilt(d)
    BY <1>1, <1>2, CurIs DEF AsBuilt
  <2>3. \A o \in (objs \cup past)' : AsBuilt(o)'
    <3>1. \A o \in objs \cup past \cup {d} : AsBuilt(o)
      BY <2>2 DEF GovernedFacts
    <3>2. QED
      BY <2>1, <3>1 DEF AsBuilt
  <2>4. UniqueKeys'
    BY <2>1 DEF GovernedFacts, UniqueKeys, Existing, SameKey
  <2>5. \A c \in crs : NamespaceOf(c, d.ns) => c.uid = cur.uid
    <3> SUFFICES ASSUME NEW c \in crs, NamespaceOf(c, d.ns) PROVE c.uid = cur.uid
      OBVIOUS
    <3>1. PICK s \in SpecNames : d.ns = c.name \o s
      BY DEF NamespaceOf
    <3>2. c.name \in CRNames
      BY DEF Inv, TypeOK, Tenant
    <3>3. c.name = cur.name
      BY <1>1, <1>2, <3>1, <3>2, CurIs DEF Unambiguous, NsName
    <3>4. QED
      BY <1>1, <3>3, CurIs
  <2>6. cur.uid \in Nat
    BY <1>1, CurIs DEF Tenant
  <2>7. OwnersKnown'
    <3>1. ASSUME NEW c \in crs, NEW o \in objs \cup past, o.kind \in Governing,
                 NamespaceOf(c, o.ns)
          PROVE  o.owner <= c.uid
      BY <3>1 DEF GovernedFacts, OwnersKnown
    <3>2. ASSUME NEW c \in crs, NamespaceOf(c, d.ns) PROVE d.owner <= c.uid
      <4>1. c.uid = cur.uid
        BY <2>5, <3>2
      <4>2. QED
        BY <1>2, <2>6, <4>1
    <3>3. (objs \cup past)' \subseteq objs \cup past \cup {d}
      BY <2>1
    <3>4. QED
      BY <3>1, <3>2, <3>3 DEF OwnersKnown, NamespaceOf
  <2>8. OwnersGrow'
    <3>1. ASSUME NEW p \in objs \cup past, d.kind \in Governing, SameKey(d, p)
          PROVE  p.owner <= d.owner
      <4>1. PICK c \in crs : c.uid = cur.uid /\ c.name = cur.name
        BY <1>1, CurIs
      <4>2. NamespaceOf(c, p.ns) /\ p.kind \in Governing
        BY <1>1, <1>2, <3>1, <4>1, CurIs DEF NamespaceOf, SameKey, NsName
      <4>3. p.owner <= c.uid
        BY <4>2 DEF GovernedFacts, OwnersKnown
      <4>4. QED
        BY <1>2, <4>1, <4>3
    <3>2. ASSUME NEW p \in Existing(d), NEW o \in objs \ Existing(d) PROVE ~SameKey(o, p)
      BY <3>2 DEF Existing, SameKey
    <3>3. ASSUME NEW p \in past, NEW o \in objs, o.kind \in Governing, SameKey(o, p)
          PROVE  p.owner <= o.owner
      BY <3>3 DEF GovernedFacts, OwnersGrow
    <3>4. SUFFICES ASSUME NEW p \in past', NEW o \in objs', o.kind \in Governing,
                          SameKey(o, p)
                   PROVE  p.owner <= o.owner
      BY DEF OwnersGrow
    <3>5. CASE o = d
      BY <2>1, <3>1, <3>4, <3>5
    <3>6. CASE o # d
      BY <2>1, <3>2, <3>3, <3>4, <3>6
    <3>7. QED
      BY <3>5, <3>6
  <2>9. QED
    BY <2>3, <2>4, <2>7, <2>8
<1>5. QED
  BY <1>3, <1>4

\* After a successful call the worker governs one kind more.
LEMMA ApplyGoverns ==
  ASSUME Inv, UniqueName, ActiveNs, GovernedFacts, NEW kind \in Governing, pc = kind,
         UNCHANGED <<crs, terminating>>, Lasting, UniqueKeys',
         \A o \in objs' : AsBuilt(o)',
         cur' = cur, pc' = NextCall[kind],
         kind # "Namespace" => NsName(cur) \in LiveNamespaces,
         \E o \in objs' : SameKey(o, Build(kind, cur)) /\ o.owner = cur.uid
  PROVE  WorkerGoverns'
<1>1. kind \in Kinds /\ pc \in Provisioning
  BY DEF Governing, Provisioning
<1>2. PICK w \in objs' : SameKey(w, Build(kind, cur)) /\ w.owner = cur.uid
  OBVIOUS
<1>3. w.kind = kind /\ w.ns = NsName(cur)
  BY <1>1, <1>2, BuildShape DEF SameKey
<1>4. Owned(cur.uid, NsName(cur), kind)'
  BY <1>2, <1>3 DEF Owned, NsName
<1>5. CASE kind = "Namespace"
  <2>1. pc' = "Quota"
    BY <1>5 DEF NextCall
  <2>2. ASSUME NEW o \in objs', o.kind = "Namespace", o.ns = NsName(cur)
        PROVE  o.owner = cur.uid
    <3>1. o.of = <<>> /\ w.of = <<>>
      BY <1>3, <1>5, <2>2 DEF AsBuilt, Governing, Kinds
    <3>2. o = w
      BY <1>3, <1>5, <2>2, <3>1 DEF UniqueKeys, SameKey
    <3>3. QED
      BY <1>2, <3>2
  <2>3. NsName(cur)' = NsName(cur)
    BY DEF NsName
  <2>4. QED
    BY <2>1, <2>2, <2>3 DEF WorkerGoverns, Building
<1>6. CASE kind = "Quota"
  <2>1. pc' = "AdminRole" /\ BuiltBefore["AdminRole"] = {"Quota"}
    BY <1>6 DEF NextCall, BuiltBefore
  <2>2. Governs(cur.uid, NsName(cur), {})
    <3>1. NsName(cur) \in LiveNamespaces
      BY <1>6
    <3>2. PICK n \in objs : n.kind = "Namespace" /\ n.ns = NsName(cur)
      BY <3>1 DEF LiveNamespaces
    <3>3. n.owner = cur.uid
      BY <1>6, <3>2 DEF GovernedFacts, WorkerGoverns
    <3>4. QED
      BY <3>1, <3>2, <3>3 DEF Governs, Owned
  <2>3. Governs(cur.uid, NsName(cur), {})'
    BY <1>1, <2>2, LastingGoverns
  <2>4. Governs(cur.uid, NsName(cur), {"Quota"})'
    BY <1>4, <1>6, <2>3 DEF Governs
  <2>5. QED
    BY <2>1, <2>4 DEF WorkerGoverns
<1>7. CASE kind \in Building
  <2>1. /\ pc' \in Building
        /\ BuiltBefore[kind] \in SUBSET Governing
        /\ BuiltBefore[pc'] = BuiltBefore[kind] \cup {kind}
    <3>1. kind \in {"AdminRole", "OperatorRole", "AdminRoleBinding",
                    "OperatorRoleBinding"}
      BY <1>7 DEF Building, Governing, Kinds
    <3>2. QED
      BY <3>1 DEF Building, NextCall, BuiltBefore, Governing, Kinds
  <2>2. Governs(cur.uid, NsName(cur), BuiltBefore[kind])
    BY <1>7 DEF GovernedFacts, WorkerGoverns
  <2> DEFINE K == BuiltBefore[kind]
  <2>3. Governs(cur.uid, NsName(cur), K)'
    BY <1>1, <2>1, <2>2, LastingGoverns
  <2>4. Governs(cur.uid, NsName(cur), K \cup {kind})'
    BY <1>4, <2>3 DEF Governs
  <2>5. pc' # "Quota"
    BY <2>1 DEF Building
  <2>6. QED
    BY <2>1, <2>4, <2>5 DEF WorkerGoverns
<1>8. QED
  BY <1>5, <1>6, <1>7 DEF Governing, Kinds, Building

\* A cache that lags behind never shows an object as right that is not: an
\* earlier version with the tenant's uid has not been followed by another's.
LEMMA NeverStale ==
  ASSUME Inv, UniqueName, GovernedFacts, NEW kind \in Governing, ApplyStale(kind)
  PROVE  FALSE
<1> DEFINE d == Build(kind, cur)
<1>1. kind \in Kinds /\ pc \in Provisioning
  BY DEF Governing, Provisioning, ApplyStale
<1>2. /\ d.kind = kind /\ d.ns = NsName(cur) /\ d.owner = cur.uid
      /\ IF kind = "Quota" THEN d.of = <<d.val>> ELSE d.val = "built"
  BY <1>1, BuildShape
<1>3. PICK o \in objs : SameKey(o, d) /\ needsUpdate(o, d)
  BY DEF ApplyStale, Existing
<1>4. PICK p \in past : SameKey(p, d) /\ ~needsUpdate(p, d)
  BY DEF ApplyStale
<1> HIDE DEF d
<1>5. /\ o.val # d.val \/ o.owner # d.owner
      /\ p.owner = d.owner
  BY <1>2, <1>3, <1>4, OwnerCompared
<1>6. o.val = d.val
  <2>1. AsBuilt(o) /\ o.kind = kind /\ o.of = d.of
    BY <1>2, <1>3 DEF GovernedFacts, SameKey
  <2>2. CASE kind = "Quota"
    <3>1. o.of = <<o.val>> /\ d.of = <<d.val>>
      BY <1>2, <2>1, <2>2 DEF AsBuilt
    <3>2. <<o.val>>[1] = <<d.val>>[1]
      BY <2>1, <3>1
    <3>3. QED
      BY <3>2
  <2>3. CASE kind # "Quota"
    BY <1>2, <2>1, <2>3 DEF AsBuilt
  <2>4. QED
    BY <2>2, <2>3
<1>7. p.owner <= o.owner
  BY <1>2, <1>3, <1>4 DEF GovernedFacts, OwnersGrow, SameKey
<1>8. o.owner <= cur.uid
  <2>1. PICK c \in crs : c.uid = cur.uid /\ c.name = cur.name
    BY <1>1, CurIs
  <2>2. NamespaceOf(c, o.ns) /\ o.kind \in Governing
    BY <1>1, <1>2, <1>3, <2>1, CurIs DEF NamespaceOf, SameKey, NsName
  <2>3. QED
    BY <2>1, <2>2 DEF GovernedFacts, OwnersKnown
<1>9. o.owner \in Nat /\ cur.uid \in Nat
  BY <1>1, CurIs DEF Inv, TypeOK, ManagedObject, Tenant
<1>10. o.owner = cur.uid
  <2>1. cur.uid <= o.owner
    BY <1>2, <1>5, <1>7
  <2>2. QED
    BY <1>8, <1>9, <2>1
<1>11. QED
  BY <1>2, <1>5, <1>6, <1>10

\* Objects go, and what replaced versions there are share no key with the rest.
LEMMA ShrinkStep ==
  ASSUME Inv, UniqueName, ActiveNs, GovernedFacts, UNCHANGED <<crs, issued, pc, cur>>,
         objs' \subseteq objs, past' \subseteq past \cup (objs \ objs'),
         \A o \in objs', p \in objs \ objs' : ~SameKey(o, p),
         Lasting
  PROVE  GovernedFacts'
<1>1. \A o \in (objs \cup past)' : AsBuilt(o)'
  BY DEF GovernedFacts, AsBuilt
<1>2. UniqueKeys'
  BY DEF GovernedFacts, UniqueKeys
<1>3. OwnersKnown'
  BY DEF GovernedFacts, OwnersKnown, NamespaceOf
<1>4. OwnersGrow'
  BY DEF GovernedFacts, OwnersGrow
<1>5. ActiveGoverns'
  BY LastingGoverns DEF GovernedFacts
<1>6. WorkerGoverns'
  <2>1. pc \in Building => pc \in Provisioning /\ BuiltBefore[pc] \in SUBSET Governing
    BY DEF Building, Provisioning, BuiltBefore, Governing, Kinds
  <2>2. ASSUME pc \in Building PROVE Governs(cur.uid, NsName(cur), BuiltBefore[pc])'
    <3>1. PICK K \in SUBSET Governing : K = BuiltBefore[pc]
      BY <2>1, <2>2
    <3>2. Governs(cur.uid, NsName(cur), K)
      BY <2>2, <3>1 DEF GovernedFacts, WorkerGoverns
    <3>3. Governs(cur.uid, NsName(cur), K)'
      BY <2>1, <2>2, <3>2, LastingGoverns
    <3>4. QED
      BY <3>1, <3>3
  <2>3. pc = "Quota" =>
          \A o \in objs' : o.kind = "Namespace" /\ o.ns = NsName(cur) => o.owner = cur.uid
    BY DEF GovernedFacts, WorkerGoverns
  <2>4. QED
    BY <2>2, <2>3 DEF WorkerGoverns, NsName
<1>7. QED
  BY <1>1, <1>2, <1>3, <1>4, <1>5, <1>6 DEF GovernedFacts

\* Every step but tampering keeps the facts.
LEMMA FactsStep ==
  ASSUME Inv, UniqueName, ActiveNs, Unambiguous, GovernedFacts, [Next]_vars,
         \A o \in objs : ~Tamper(o)
  PROVE  GovernedFacts'
<1>0. /\ TypeOK /\ issued \in Nat /\ \A c \in crs : c.uid \in Nat /\ c.uid <= issued
      /\ \A o \in objs \cup past : o.owner \in Nat
  BY DEF Inv, TypeOK, StoreTypeOK, UidsIssued, Tenant, ManagedObject
<1>a. ASSUME WorkerRests, UNCHANGED <<objs, terminating>> PROVE WorkerGoverns'
  <2>1. CASE pc' = "idle"
    BY <2>1 DEF WorkerGoverns, Building
  <2>2. CASE UNCHANGED <<pc, cur>>
    <3>1. \A uid, ns, K : Governs(uid, ns, K) => Governs(uid, ns, K)'
      BY <1>a DEF Governs, Owned, LiveNamespaces
    <3>2. NsName(cur)' = NsName(cur) /\ BuiltBefore[pc]' = BuiltBefore[pc]
      BY <2>2 DEF NsName
    <3>3. pc \in Building => Governs(cur.uid, NsName(cur), BuiltBefore[pc])'
      BY <2>2, <3>1, <3>2 DEF GovernedFacts, WorkerGoverns
    <3>4. QED
      BY <1>a, <2>2, <3>2, <3>3 DEF GovernedFacts, WorkerGoverns
  <2>3. QED
    BY <1>a, <2>1, <2>2 DEF WorkerRests
<1>b. ASSUME UNCHANGED <<crs, objs>>, past' \subseteq past PROVE OwnersKnown'
  BY <1>b DEF GovernedFacts, OwnersKnown, NamespaceOf
<1>c. ASSUME UNCHANGED <<crs, objs, terminating>> PROVE ActiveGoverns'
  BY <1>c DEF GovernedFacts, ActiveGoverns, Governs, Owned, LiveNamespaces
<1>d. ASSUME UNCHANGED <<objs, terminating>>
      PROVE  \A uid, ns, K : Governs(uid, ns, K) => Governs(uid, ns, K)'
  BY <1>d DEF Governs, Owned, LiveNamespaces
<1>e. ASSUME pc' \notin Building \cup {"Quota"} PROVE WorkerGoverns'
  BY <1>e DEF WorkerGoverns
<1>1. CASE Quiet
  <2>1. WorkerGoverns'
    BY <1>1, <1>a, <1>e DEF Quiet, Building
  <2>2. QED
    BY <1>1, <1>b, <1>c, <2>1, FactsFrame DEF Quiet
<1>2. CASE Created
  <2>1. PICK x \in Tenant : /\ x.uid = issued + 1 /\ x.phase = ""
                            /\ crs' = crs \cup {x}
    BY <1>2 DEF Created
  <2>2. /\ issued' = issued + 1 /\ UNCHANGED <<objs, past, terminating>>
        /\ WorkerRests
    BY <1>2 DEF Created, clusterVars, WorkerRests
  <2>3. \A i \in Nat : i <= issued => i <= x.uid
    <3>1. issued \in Nat /\ x.uid = issued + 1
      BY <1>0, <2>1
    <3>2. QED
      BY <3>1
  <2>4. \A o \in objs \cup past : o.kind \in Governing => o.owner <= x.uid
    BY <1>0, <2>3 DEF GovernedFacts, AsBuilt
  <2>5. OwnersKnown'
    BY <2>1, <2>2, <2>4 DEF GovernedFacts, OwnersKnown, NamespaceOf
  <2>6. ActiveGoverns'
    BY <1>d, <2>1, <2>2 DEF GovernedFacts, ActiveGoverns
  <2>7. QED
    BY <1>a, <2>2, <2>5, <2>6, FactsFrame
<1>3. CASE Revised
  <2>1. PICK v \in crs, a \in Tenant :
          /\ crs' = (crs \ {v}) \cup {a}
          /\ a.uid = v.uid /\ a.name = v.name
          /\ a.phase = v.phase /\ a.statusNs = v.statusNs
    BY <1>3 DEF Revised
  <2>2. UNCHANGED <<issued, objs, past, terminating>> /\ WorkerRests
    BY <1>3 DEF Revised, clusterVars
  <2>3. OwnersKnown'
    BY <2>1, <2>2 DEF GovernedFacts, OwnersKnown, NamespaceOf
  <2>4. ActiveGoverns'
    BY <1>d, <2>1, <2>2 DEF GovernedFacts, ActiveGoverns
  <2>5. QED
    BY <1>a, <2>2, <2>3, <2>4, FactsFrame
<1>4. CASE Activated
  <2>1. PICK a \in Tenant :
          /\ crs' = (crs \ {cur}) \cup {a}
          /\ a.uid = cur.uid /\ a.name = cur.name
          /\ a.phase = "Active" /\ a.statusNs = NsName(cur)
    BY <1>4 DEF Activated
  <2>2. /\ UNCHANGED <<issued, objs, past, terminating>>
        /\ pc = "status" /\ pc' = "NetworkPolicy" /\ cur \in crs
    BY <1>4 DEF Activated, clusterVars
  <2>3. Governs(cur.uid, NsName(cur), Governing \ {"Namespace"})
    BY <2>2 DEF GovernedFacts, WorkerGoverns, Building, BuiltBefore
  <2>4. OwnersKnown'
    BY <2>1, <2>2 DEF GovernedFacts, OwnersKnown, NamespaceOf
  <2>5. ActiveGoverns'
    BY <1>d, <2>1, <2>2, <2>3 DEF GovernedFacts, ActiveGoverns
  <2>6. WorkerGoverns'
    BY <1>e, <2>2 DEF Building
  <2>7. QED
    BY <2>2, <2>4, <2>5, <2>6, FactsFrame
<1>5. CASE Removed
  <2>1. /\ crs' \subseteq crs /\ UNCHANGED <<issued, objs, past, terminating>>
        /\ WorkerRests
    BY <1>5 DEF Removed, clusterVars
  <2>2. OwnersKnown'
    BY <2>1 DEF GovernedFacts, OwnersKnown, NamespaceOf
  <2>3. ActiveGoverns'
    BY <1>d, <2>1 DEF GovernedFacts, ActiveGoverns
  <2>4. QED
    BY <1>a, <2>1, <2>2, <2>3, FactsFrame
<1>6. CASE RowsOnly
  <2>1. UNCHANGED <<crs, objs, past, terminating, issued>>
    BY <1>6, RowsOnlyEffect
  <2>2. WorkerGoverns'
    BY <1>6, <1>e, RowsOnlyEffect DEF Building
  <2>3. QED
    BY <1>b, <1>c, <2>1, <2>2, FactsFrame
<1>7. ASSUME NEW kind \in Kinds, Apply(kind) PROVE GovernedFacts'
  <2>1. pc = kind /\ pc \in Provisioning /\ UNCHANGED <<crs, issued, terminating>>
    BY <1>7 DEF Apply, storeVars, Provisioning
  <2>2. UNCHANGED <<objs, past>> \/ Overwritten(Build(kind, cur))
    BY <1>7 DEF Apply, createOrUpdate, Replace, Overwritten
  <2>3. /\ \A o \in (objs \cup past)' : AsBuilt(o)'
        /\ UniqueKeys' /\ OwnersKnown' /\ OwnersGrow'
    BY <2>1, <2>2, ApplyObjects
  <2>4. Lasting
    <3>1. CASE UNCHANGED <<objs, past>>
      BY <1>d, <2>1, <3>1 DEF Lasting
    <3>2. CASE Overwritten(Build(kind, cur))
      BY <2>1, <3>2, OverwriteLasts
    <3>3. QED
      BY <2>2, <3>1, <3>2
  <2>5. ActiveGoverns'
    BY <2>1, <2>4, LastingGoverns DEF GovernedFacts
  <2>6. WorkerGoverns'
    <3>1. CASE pc' = "idle"
      BY <1>e, <3>1 DEF Building
    <3>2. CASE pc' # "idle" /\ kind \in Governing
      BY <1>7, <2>1, <2>3, <2>4, <3>2, ApplyEffect, ApplyGoverns
    <3>3. CASE pc' # "idle" /\ kind \notin Governing
      <4>1. kind \in {"NetworkPolicy", "LimitRange"} /\ pc' = NextCall[kind]
        BY <1>7, <3>3 DEF Apply, AfterApply, Requeue, Done, Goto, Governing
      <4>2. QED
        BY <1>e, <4>1 DEF NextCall, Building
    <3>4. QED
      BY <3>1, <3>2, <3>3
  <2>7. QED
    BY <2>3, <2>5, <2>6 DEF GovernedFacts
<1>8. ASSUME NEW kind \in Kinds, ApplyStale(kind) PROVE GovernedFacts'
  <2>1. kind \in {"NetworkPolicy", "LimitRange"}
    BY <1>8, NeverStale DEF Governing
  <2>2. UNCHANGED <<crs, objs, past, terminating, issued>>
    BY <1>8 DEF ApplyStale, storeVars, clusterVars
  <2>3. pc' \in {"idle", "LimitRange"}
    BY <1>8, <2>1 DEF ApplyStale, AfterApply, Done, Goto, NextCall
  <2>4. WorkerGoverns'
    BY <1>e, <2>3 DEF Building
  <2>5. QED
    BY <1>b, <1>c, <2>2, <2>4, FactsFrame
<1>9. ASSUME NEW x \in objs, GcCollect(x) PROVE GovernedFacts'
  <2>1. UNCHANGED <<crs, issued, pc, cur>>
    BY <1>9 DEF GcCollect, storeVars, crVars, workVars
  <2>2. Lasting
    BY <1>9, CollectLasts DEF GovernedFacts
  <2>3. \/ UNCHANGED <<objs, past>>
        \/ objs' = objs \ {x} /\ past' \subseteq past \cup {x}
    BY <1>9 DEF GcCollect, Replace
  <2>4. \A o \in objs : SameKey(o, x) => o = x
    BY DEF GovernedFacts, UniqueKeys
  <2>5. /\ objs' \subseteq objs /\ past' \subseteq past \cup (objs \ objs')
        /\ \A o \in objs', p \in objs \ objs' : ~SameKey(o, p)
    BY <2>3, <2>4
  <2>6. QED
    BY <2>1, <2>2, <2>5, ShrinkStep
<1>10. ASSUME NEW n \in terminating, FinalizeNamespace(n) PROVE GovernedFacts'
  <2>1. UNCHANGED <<crs, issued, pc, cur>>
    BY <1>10 DEF FinalizeNamespace, storeVars, crVars, workVars
  <2>2. Lasting
    BY <1>10, FinalizeLasts
  <2>3. /\ objs' = objs \ {o \in objs : o.ns = n}
        /\ past' \subseteq past \cup {o \in objs : o.ns = n}
    BY <1>10 DEF FinalizeNamespace, Replace
  <2>4. /\ objs' \subseteq objs /\ past' \subseteq past \cup (objs \ objs')
        /\ \A o \in objs', p \in objs \ objs' : ~SameKey(o, p)
    BY <2>3 DEF SameKey
  <2>5. QED
    BY <2>1, <2>2, <2>4, ShrinkStep
<1>11. QED
  BY <1>1, <1>2, <1>3, <1>4, <1>5, <1>6, <1>7, <1>8, <1>9, <1>10, StepShape
     DEF RowsOnly

\* For any unambiguous names, and through edits, renamings, deletions, recreations under
\* the same name, stale caches and crashes: while nobody tampers, an Active tenant
\* owns its live namespace, a quota, both roles and both bindings in it.
THEOREM ActiveGoverned ==
  ASSUME Unambiguous
  PROVE  Spec => []ActiveIsGoverned
<1>1. Init => GovernedInv
  BY DEF Init, GovernedInv, UniqueName, ActiveNs, GovernedFacts, UniqueKeys,
     OwnersKnown, OwnersGrow, WorkerGoverns, ActiveGoverns, Building
<1>2. Inv /\ GovernedInv /\ [Next]_vars => GovernedInv'
  <2> SUFFICES ASSUME Inv, GovernedInv, [Next]_vars PROVE GovernedInv'
    OBVIOUS
  <2>1. UniqueName' /\ ActiveNs'
    BY NamesStep DEF GovernedInv
  <2>2. ASSUME spent'["tampers"] = 0 PROVE GovernedFacts'
    BY <2>2, TampersCounted, FactsStep DEF GovernedInv, Inv
  <2>3. QED
    BY <2>1, <2>2 DEF GovernedInv
<1>3. GovernedInv => ActiveIsGoverned
  <2> SUFFICES ASSUME GovernedInv, spent["tampers"] = 0, NEW c \in crs,
                      c.phase = "Active"
               PROVE  /\ c.statusNs \in LiveNamespaces
                      /\ \A kind \in Governing : Has(c, kind)
    BY DEF ActiveIsGoverned, Governing
  <2>1. Governs(c.uid, c.statusNs, Governing \ {"Namespace"})
    BY DEF GovernedInv, GovernedFacts, ActiveGoverns
  <2>2. \A kind : Owned(c.uid, c.statusNs, kind) => Has(c, kind)
    BY DEF Owned, Has
  <2>3. QED
    BY <2>1, <2>2 DEF Governs
<1>4. QED
  BY <1>1, <1>2, <1>3, Invariance, PTL DEF Spec

=============================================================================
