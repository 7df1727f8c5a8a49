-------------------------- MODULE TenantController --------------------------
(***************************************************************************)
(* The tenant controller (internal/reconciler) between the Kubernetes API, *)
(* where users create, edit and delete Tenant resources, and the store.    *)
(*                                                                         *)
(* The one worker of the controller (MaxConcurrentReconciles is left at 1) *)
(* takes a name from the work queue, reads the tenant from the informer    *)
(* cache, which may lag behind the API server, and then makes one remote   *)
(* call after another; each call is one step, so users, the garbage        *)
(* collector, the watch and crashes come between any two of them.          *)
(*                                                                         *)
(* External parts, modelled from how the controller uses them: the API     *)
(* server's optimistic concurrency, the watch and the periodic resync of   *)
(* the informer, the work queue, the garbage collector and the namespace   *)
(* controller.  The controller sets owner references without the           *)
(* controller flag, so events on the objects it owns enqueue nothing.      *)
(***************************************************************************)
EXTENDS TenantStore, TenantResources

CONSTANTS CRNames,     \* metadata.name values of Tenant resources
          NoTenant,    \* the worker has no tenant in hand
          MaxEdits,    \* bound: spec edits by users
          MaxDeletes,  \* bound: tenants deleted by users
          MaxFaults,   \* bound: failed calls and controller crashes
          MaxTampers   \* bound: foreign changes to managed objects

ASSUME CRNamesAssumption == CRNames \subseteq Seq(Segment)

\* The CRD's enum: no other tier reaches a Tenant resource.
CRTiers == TierValues \cap Tiers

VARIABLES crs,         \* the Tenant resources in the API server
          cache,       \* the informer's copies of them
          queue,       \* names waiting for the worker
          objs,        \* the managed objects in the API server
          past,        \* versions replaced since the controller started
          terminating, \* names of namespaces being deleted
          pc,          \* the worker's next call
          cur,         \* the worker's copy of the tenant it reconciles
          spent        \* how much of each bound is used

crVars == <<crs, cache, queue>>

clusterVars == <<objs, past, terminating>>

workVars == <<pc, cur>>

vars == <<storeVars, crVars, clusterVars, workVars, spent>>

(***************************************************************************)
(* A Tenant resource.  rv is its resource version; a recreated resource    *)
(* has a new uid, so versions are only compared for the same uid.          *)
(***************************************************************************)
Tenant == [name : CRNames, uid : Nat, specName : SpecNames,
           tier : CRTiers, email : Emails,
           finalizer : BOOLEAN, deleting : BOOLEAN,
           phase : {"", "Active"}, statusNs : Seq(Segment), rv : Nat]

ASSUME NoTenantAssumption == NoTenant \notin Tenant

\* The worker's remote calls that provision a tenant, in the order of
\* reconcileCreateOrUpdate after the store is written.
NextCall == [Namespace           |-> "Quota",
             Quota               |-> "AdminRole",
             AdminRole           |-> "OperatorRole",
             OperatorRole        |-> "AdminRoleBinding",
             AdminRoleBinding    |-> "OperatorRoleBinding",
             OperatorRoleBinding |-> "status",
             status              |-> "NetworkPolicy",
             NetworkPolicy       |-> "LimitRange",
             LimitRange          |-> "idle"]

Provisioning == {"getRow", "createRow", "updateRow", "status"} \cup Kinds

Calls == {"idle", "addFinalizer", "deleteRow", "removeFinalizer"}
           \cup Provisioning

Bounded == {"edits", "deletes", "faults", "tampers"}

ManagedObject == [kind : Kinds, ns : Seq(Segment), of : Seq(Segment \cup Tiers),
                  owner : Nat,
                  val : Tiers \cup {"built", "other", "otherRoleRef"},
                  hidden : BOOLEAN]

TypeOK == /\ StoreTypeOK
          /\ crs \subseteq Tenant
          /\ cache \subseteq Tenant
          /\ queue \subseteq CRNames
          /\ objs \subseteq ManagedObject
          /\ past \subseteq ManagedObject
          /\ terminating \subseteq Seq(Segment)
          /\ pc \in Calls
          /\ cur \in Tenant \cup {NoTenant}
          /\ (cur = NoTenant) <=> (pc = "idle")
          /\ spent \in [Bounded -> Nat]

Init == /\ StoreInit
        /\ crs = {} /\ cache = {} /\ queue = {}
        /\ objs = {} /\ past = {} /\ terminating = {}
        /\ pc = "idle" /\ cur = NoTenant
        /\ spent = [b \in Bounded |-> 0]

-----------------------------------------------------------------------------
(***************************************************************************)
(* The API server.                                                         *)
(***************************************************************************)
Named(S, n) == {c \in S : c.name = n}

\* The stored resource that has v's uid and resource version.
Stored(v) == {c \in crs : c.uid = v.uid /\ c.rv = v.rv}

\* An update of v to w is rejected (Conflict, NotFound) unless v is current.
Conflict(v) == Stored(v) = {}

\* What an accepted update leaves in the store: a write that changes nothing
\* keeps the resource version.
Accepted(v, w) == IF w = v THEN v ELSE [w EXCEPT !.rv = v.rv + 1]

Write(v, w) == crs' = (crs \ Stored(v)) \cup {Accepted(v, w)}

Spend(b, max) == /\ spent[b] < max
                 /\ spent' = [spent EXCEPT ![b] = @ + 1]

NewCR(n, specName, tier, email) ==
  [name |-> n, uid |-> FreshId, specName |-> specName, tier |-> tier,
   email |-> email, finalizer |-> FALSE, deleting |-> FALSE,
   phase |-> "", statusNs |-> <<>>, rv |-> 1]

CreateCR(n, specName, tier, email) ==
  /\ issued < MaxIds
  /\ Named(crs, n) = {}
  /\ crs' = crs \cup {NewCR(n, specName, tier, email)}
  /\ issued' = FreshId
  /\ UNCHANGED <<tenants, members, cache, queue, clusterVars, workVars, spent>>

EditCR(c, specName, tier, email) ==
  LET w == [c EXCEPT !.specName = specName, !.tier = tier, !.email = email]
  IN /\ w # c
     /\ Spend("edits", MaxEdits)
     /\ Write(c, w)
     /\ UNCHANGED <<storeVars, cache, queue, clusterVars, workVars>>

\* A resource with a finalizer is only marked.
DeleteCR(c) ==
  /\ ~c.deleting
  /\ Spend("deletes", MaxDeletes)
  /\ IF c.finalizer THEN Write(c, [c EXCEPT !.deleting = TRUE])
                    ELSE crs' = crs \ {c}
  /\ UNCHANGED <<storeVars, cache, queue, clusterVars, workVars>>

\* The watch brings the cache up to date for one name and enqueues it.
Deliver(n) ==
  /\ Named(cache, n) # Named(crs, n)
  /\ cache' = (cache \ Named(cache, n)) \cup Named(crs, n)
  /\ queue' = queue \cup {n}
  /\ UNCHANGED <<storeVars, crs, clusterVars, workVars, spent>>

\* (mutant) the watch filters out events that change nothing.
ResyncFiltered(n) == FALSE /\ UNCHANGED vars

\* The informer's periodic resync enqueues every cached tenant: the watch of
\* SetupWithManager has no predicate that would filter it out.
Resync(n) ==
  /\ Named(cache, n) # {}
  /\ n \notin queue
  /\ queue' = queue \cup {n}
  /\ UNCHANGED <<storeVars, crs, cache, clusterVars, workVars, spent>>

-----------------------------------------------------------------------------
(***************************************************************************)
(* The cluster around the managed objects.                                 *)
(***************************************************************************)
\* A version that is replaced or removed stays visible in a cache that lags
\* behind.  It is kept if createOrUpdate may take it for the desired object: its
\* owner is there, or the owner is not compared.
Replace(old, new) ==
  /\ objs' = (objs \ old) \cup new
  /\ past' = past \cup {o \in old \ new :
                           \/ \E c \in crs : c.uid = o.owner
                           \/ o.kind \in {"NetworkPolicy", "LimitRange"}}

\* The garbage collector deletes an object whose owner is gone; a namespace
\* first becomes terminating.
GcCollect(o) ==
  /\ \A c \in crs : c.uid # o.owner
  /\ IF o.kind = "Namespace"
       THEN /\ o.ns \notin terminating
            /\ terminating' = terminating \cup {o.ns}
            /\ UNCHANGED <<objs, past>>
       ELSE Replace({o}, {}) /\ UNCHANGED terminating
  /\ UNCHANGED <<storeVars, crVars, workVars, spent>>

\* The namespace controller has emptied and removed the namespace.
FinalizeNamespace(ns) ==
  /\ ns \in terminating
  /\ Replace({o \in objs : o.ns = ns}, {})
  /\ terminating' = terminating \ {ns}
  /\ UNCHANGED <<storeVars, crVars, workVars, spent>>

\* Somebody other than the controller deletes or changes a managed object.
Tamper(o) ==
  /\ Spend("tampers", MaxTampers)
  /\ IF o.kind = "Namespace"
       THEN terminating' = terminating \cup {o.ns} /\ UNCHANGED <<objs, past>>
       ELSE /\ \E T \in {{}} \cup {{x} : x \in Tampered(o)} :
                 Replace({o}, T)
            /\ UNCHANGED terminating
  /\ UNCHANGED <<storeVars, crVars, workVars>>

-----------------------------------------------------------------------------
(***************************************************************************)
(* How a reconciliation goes on and ends.                                  *)
(***************************************************************************)
Goto(call) == pc' = call /\ UNCHANGED <<cur, queue>>

\* (mutant) the copy survives the reconciliation.
DoneKeepingCopy == pc' = "idle" /\ UNCHANGED <<cur, queue>>

Done == pc' = "idle" /\ cur' = NoTenant /\ UNCHANGED queue

\* An error or Requeue: the name goes back to the work queue.
Requeue == /\ pc' = "idle"
           /\ cur' = NoTenant
           /\ queue' = queue \cup {cur.name}

\* (mutant) the finalizer is not added first.
FirstCallNoFinalizer(t) == IF t.deleting THEN "deleteRow" ELSE "getRow"

\* (mutant) the deletion timestamp is not looked at.
FirstCallIgnoringDeletion(t) ==
  IF ~t.finalizer THEN "addFinalizer" ELSE "getRow"

\* Where Reconcile sends a tenant it has read.
FirstCall(t) == CASE t.deleting    -> "deleteRow"
                  [] ~t.finalizer  -> "addFinalizer"
                  [] OTHER         -> "getRow"

\* Reconcile reads from the cache; a tenant that is not there is ignored.
BeginReconcile(n) ==
  /\ pc = "idle"
  /\ n \in queue
  /\ queue' = queue \ {n}
  /\ \/ Named(cache, n) = {} /\ UNCHANGED workVars
     \/ \E t \in Named(cache, n) : cur' = t /\ pc' = FirstCall(t)
  /\ UNCHANGED <<storeVars, crs, cache, clusterVars, spent>>

\* (mutant) the update is forced on whatever version is stored.
addFinalizerForced ==
  /\ pc = "addFinalizer"
  /\ \/ \E c \in crs : /\ c.uid = cur.uid
                      /\ Write(c, [cur EXCEPT !.finalizer = TRUE, !.rv = c.rv])
     \/ (\A c \in crs : c.uid # cur.uid) /\ UNCHANGED crs
  /\ Requeue
  /\ UNCHANGED <<storeVars, cache, clusterVars, spent>>

\* Both outcomes requeue: Requeue: true, or the error.
addFinalizer ==
  /\ pc = "addFinalizer"
  /\ \/ ~Conflict(cur) /\ Write(cur, [cur EXCEPT !.finalizer = TRUE])
     \/ Conflict(cur) /\ UNCHANGED crs
  /\ Requeue
  /\ UNCHANGED <<storeVars, cache, clusterVars, spent>>

\* (mutant) the error of DeleteTenant is ignored.
DeleteRowIgnoringError ==
  /\ pc = "deleteRow"
  /\ DeleteTenant(cur.uid) \/ UNCHANGED <<tenants, members>>
  /\ Goto("removeFinalizer")
  /\ UNCHANGED <<issued, crs, cache, clusterVars, spent>>

DeleteRow ==
  /\ pc = "deleteRow"
  /\ DeleteTenant(cur.uid)
  /\ Goto("removeFinalizer")
  /\ UNCHANGED <<issued, crs, cache, clusterVars, spent>>

\* The resource carries no other finalizer, so removing this one frees it.
RemoveFinalizer ==
  /\ pc = "removeFinalizer"
  /\ \/ ~Conflict(cur) /\ crs' = crs \ Stored(cur) /\ Done
     \/ Conflict(cur) /\ UNCHANGED crs /\ Requeue
  /\ UNCHANGED <<storeVars, cache, clusterVars, spent>>

GetRow ==
  /\ pc = "getRow"
  /\ Goto(IF GetTenantByID(cur.uid) = {} THEN "createRow" ELSE "updateRow")
  /\ UNCHANGED <<storeVars, crs, cache, clusterVars, spent>>

\* (mutant) the error of CreateTenant is ignored.
CreateRowIgnoringError ==
  /\ pc = "createRow"
  /\ CreateTenant(cur) \/ (UniqueViolation(cur) /\ UNCHANGED <<tenants, members>>)
  /\ Goto("Namespace")
  /\ UNCHANGED <<issued, crs, cache, clusterVars, spent>>

CreateRow ==
  /\ pc = "createRow"
  /\ \/ CreateTenant(cur) /\ Goto("Namespace")
     \/ UniqueViolation(cur) /\ Requeue /\ UNCHANGED <<tenants, members>>
  /\ UNCHANGED <<issued, crs, cache, clusterVars, spent>>

\* (mutant) a tenant already in the store is left alone.
UpdateRowSkipped ==
  /\ pc = "updateRow"
  /\ Goto("Namespace")
  /\ UNCHANGED <<storeVars, crs, cache, clusterVars, spent>>

UpdateRow ==
  /\ pc = "updateRow"
  /\ UpdateTenant(cur)
  /\ Goto("Namespace")
  /\ UNCHANGED <<issued, crs, cache, clusterVars, spent>>

-----------------------------------------------------------------------------
Existing(d) == {o \in objs : SameKey(o, d)}

LiveNamespaces == {o.ns : o \in {x \in objs : x.kind = "Namespace"}}
                    \ terminating

\* (mutant) AlreadyExists is an error like any other.
RejectedExisting(d) == \/ d.kind # "Namespace" /\ d.ns \notin LiveNamespaces
                       \/ Existing(d) # {}

\* The API server takes objects only into a namespace that exists and is not
\* being deleted, and rejects a change of roleRef.
Rejected(d) == \/ d.kind # "Namespace" /\ d.ns \notin LiveNamespaces
               \/ \E o \in Existing(d) : needsUpdate(o, d) /\ ImmutableChanged(o)

\* Create it; if it exists already, compare and overwrite.
createOrUpdate(d) ==
  IF \E o \in Existing(d) : ~needsUpdate(o, d)
    THEN UNCHANGED <<objs, past>>
    ELSE Replace(Existing(d), {d})

AfterApply(kind) ==
  IF NextCall[kind] = "idle" THEN Done ELSE Goto(NextCall[kind])

Apply(kind) ==
  LET d == Build(kind, cur)
  IN /\ pc = kind
     /\ \/ /\ ~Rejected(d)
           /\ createOrUpdate(d)
           /\ AfterApply(kind)
        \/ Rejected(d) /\ Requeue /\ UNCHANGED <<objs, past>>
     /\ UNCHANGED <<storeVars, crs, cache, terminating, spent>>

\* The object exists, but Get answers from a cache that lags behind: it shows
\* an earlier version that needs no update, and the call succeeds without one.
\* (A copy that is missing, or too old to be updated, makes the call fail.)
ApplyStale(kind) ==
  LET d == Build(kind, cur)
  IN /\ pc = kind
     /\ kind # "Namespace" => d.ns \in LiveNamespaces
     /\ \E o \in Existing(d) : needsUpdate(o, d)
     /\ \E o \in past : SameKey(o, d) /\ ~needsUpdate(o, d)
     /\ Spend("faults", MaxFaults)
     /\ AfterApply(kind)
     /\ UNCHANGED <<storeVars, crs, cache, clusterVars>>

\* Status().Update; the answer replaces the worker's copy.
UpdateStatus ==
  LET w == [cur EXCEPT !.phase = "Active", !.statusNs = NsName(cur)]
  IN /\ pc = "status"
     /\ \/ /\ ~Conflict(cur)
           /\ Write(cur, w)
           /\ cur' = Accepted(cur, w)
           /\ pc' = NextCall["status"]
           /\ UNCHANGED queue
        \/ Conflict(cur) /\ Requeue /\ UNCHANGED crs
     /\ UNCHANGED <<storeVars, cache, clusterVars, spent>>

\* Any remote call may fail.  One that took effect although its answer was
\* lost is the same as a failure of the call after it.
Fail ==
  /\ pc # "idle"
  /\ Spend("faults", MaxFaults)
  /\ Requeue
  /\ UNCHANGED <<storeVars, crs, cache, clusterVars>>

\* The controller dies and restarts: it lists everything anew and enqueues all
\* tenants.
Crash ==
  /\ Spend("faults", MaxFaults)
  /\ cache' = crs
  /\ queue' = {c.name : c \in crs}
  /\ past' = {}
  /\ pc' = "idle" /\ cur' = NoTenant
  /\ UNCHANGED <<storeVars, crs, objs, terminating>>

Worker == \/ addFinalizer \/ DeleteRow \/ RemoveFinalizer
          \/ GetRow \/ CreateRow \/ UpdateRow
          \/ (\E kind \in Kinds : Apply(kind))
          \/ UpdateStatus

User == \/ \E n \in CRNames, s \in SpecNames, t \in CRTiers, e \in Emails :
             CreateCR(n, s, t, e)
        \/ \E c \in crs, s \in SpecNames, t \in CRTiers, e \in Emails :
             EditCR(c, s, t, e)
        \/ \E c \in crs : DeleteCR(c)
        \/ \E o \in objs : Tamper(o)

Cluster == \/ \E n \in CRNames : Deliver(n) \/ Resync(n)
           \/ \E o \in objs : GcCollect(o)
           \/ \E ns \in terminating : FinalizeNamespace(ns)

Next == \/ Worker
        \/ \E n \in CRNames : BeginReconcile(n)
        \/ (\E kind \in Kinds : ApplyStale(kind))
        \/ User \/ Cluster \/ Fail \/ Crash

(***************************************************************************)
(* The worker and the cluster's own controllers make progress; the work    *)
(* queue is first-in first-out, so a waiting name is taken eventually      *)
(* however often others come back.  Users and faults owe nothing.          *)
(***************************************************************************)
Fairness == /\ WF_vars(Worker)
            /\ \A n \in CRNames : /\ SF_vars(BeginReconcile(n))
                                  /\ WF_vars(Deliver(n))
                                  /\ WF_vars(Resync(n))
            /\ WF_vars(\E o \in objs : GcCollect(o))
            /\ WF_vars(\E ns \in terminating : FinalizeNamespace(ns))

Spec == Init /\ [][Next]_vars /\ Fairness

-----------------------------------------------------------------------------
(***************************************************************************)
(* Safety.                                                                 *)
(***************************************************************************)
\* A Tenant resource whose deletion the controller still gets to see.
Held(uid) == \E c \in crs : c.uid = uid /\ c.finalizer

\* A live row always belongs to a Tenant resource that still carries the
\* finalizer: whatever crashes, conflicts and stale reads happen, reconcileDelete
\* never lets a resource go before its row is deleted, and
\* reconcileCreateOrUpdate never inserts a row for a resource already gone.
NoOrphanRow == \A r \in tenants : ~r.deleted => Held(r.id)

\* While reconcileCreateOrUpdate runs on a cached copy, however stale, its
\* resource cannot disappear: so it never creates a namespace, role or policy
\* for a uid that is gone already.
ProvisioningHeld == pc \in Provisioning => Held(cur.uid)

Has(c, kind) == \E o \in objs : /\ o.kind = kind
                               /\ o.ns = c.statusNs
                               /\ o.owner = c.uid

\* As long as nobody tampers with the objects, a tenant whose status is Active
\* has, in the namespace its status names, the namespace itself (not being
\* deleted), a quota, both roles and both bindings, all owned by it: also when
\* the previous tenant of that name is being collected meanwhile.
ActiveIsGoverned ==
  spent["tampers"] = 0 =>
    \A c \in crs : c.phase = "Active" =>
      /\ c.statusNs \in LiveNamespaces
      /\ \A kind \in Kinds \ {"NetworkPolicy", "LimitRange"} : Has(c, kind)

\* What a user may set in a Tenant resource.
UserPart(c) == <<c.specName, c.tier, c.email>>

\* A step that is not a user's edit never changes what users wrote, and no step
\* revokes a deletion or takes a finalizer from a tenant that stays: addFinalizer
\* and Status().Update send back a whole tenant read from a stale cache, and only
\* the resource version they carry keeps them from undoing a newer edit.
NoLostEdit ==
  [][\A c \in crs, d \in crs' : c.uid = d.uid =>
       /\ spent'["edits"] = spent["edits"] => UserPart(d) = UserPart(c)
       /\ c.deleting => d.deleting
       /\ c.finalizer => d.finalizer]_vars

\* A tenant becomes Active only after the store has taken it: it has a live row,
\* or its spec.name was found in another tenant's row (deleted or not), the one
\* case that CreateTenant passes off as success.
ActiveIsRecorded ==
  \A c \in crs :
    c.phase = "Active" /\ ~c.deleting /\ c.statusNs = NsName(c) =>
      \E r \in tenants : \/ r.id = c.uid /\ ~r.deleted
                         \/ r.id # c.uid /\ r.name = c.specName

(***************************************************************************)
(* What the controller implements.                                         *)
(***************************************************************************)
UidsOf(S) == {c.uid : c \in S}

Life == INSTANCE TenantLifecycle WITH
          Uid     <- 1..MaxIds,
          used    <- 1..issued,
          alive   <- UidsOf(crs),
          held    <- UidsOf({c \in crs : c.finalizer}),
          doomed  <- UidsOf({c \in crs : c.deleting}),
          stored  <- {r.id : r \in {x \in tenants : ~x.deleted}},
          dropped <- {r.id : r \in {x \in tenants : x.deleted}}

\* Through caches of any age, conflicts, failed calls and crashes, every step of
\* the controller, its users and the cluster is a step of the tenant's life or
\* leaves it alone: reconcileDelete drops the row before it lets the resource
\* go, and neither a uid nor a dropped row ever comes back.
ImplementsLifecycle == Life!Spec

-----------------------------------------------------------------------------
(***************************************************************************)
(* Liveness.                                                               *)
(***************************************************************************)
\* Everything reconcileCreateOrUpdate builds for c is there as built.
Provisioned(c) ==
  /\ c.phase = "Active" /\ c.statusNs = NsName(c)
  /\ NsName(c) \in LiveNamespaces
  /\ \A kind \in Kinds : \E o \in objs : /\ SameKey(o, Build(kind, c))
                                         /\ o.val = Build(kind, c).val
                                         /\ ~o.hidden

Wanted(uid) == \E c \in crs : c.uid = uid /\ ~c.deleting

\* Once users leave a tenant alone it becomes and stays Active with all eight
\* objects as its tier demands, after any crashes, conflicts and races with the
\* collection of a predecessor of the same name.
EventuallyProvisioned ==
  \A uid \in 1..MaxIds :
    <>[]Wanted(uid) => <>[](\A c \in crs : c.uid = uid => Provisioned(c))

\* Tenants do not hold each other up: once users leave a tenant alone it is
\* provisioned, or its row is refused for good because another row, perhaps a
\* deleted one, has the same namespace column.
ProvisionedUnlessRefused ==
  \A uid \in 1..MaxIds :
    <>[]Wanted(uid) =>
      \/ <>[](\A c \in crs : c.uid = uid => Provisioned(c))
      \/ <>[](\A c \in crs : c.uid = uid => UniqueViolation(c))

\* The store follows the resource: once users leave a tenant alone, its live row
\* carries the tier and owner of its spec (only checked where names are not
\* reused, see ActiveIsRecorded).
RowFollowsSpec ==
  \A uid \in 1..MaxIds :
    <>[]Wanted(uid) =>
      <>[](\A c \in crs : c.uid = uid =>
             \E r \in GetTenantByID(uid) : /\ r.tier = c.tier
                                          /\ r.ownerEmail = c.email)

\* Drift is repaired, with nothing but the resync to notice it, unless it is in
\* content no NeedsUpdate function compares or in an immutable roleRef.
DriftRepaired ==
  \A uid \in 1..MaxIds :
    <>[]Wanted(uid) =>
      <>[](\/ \A c \in crs : c.uid = uid => Provisioned(c)
           \/ \E o \in objs : o.hidden \/ ImmutableChanged(o))

\* A tenant marked for deletion goes away, and then its namespace does.
DeletionCompletes ==
  \A uid \in 1..MaxIds :
    (\E c \in crs : c.uid = uid /\ c.deleting)
      ~> /\ \A c \in crs : c.uid # uid
         /\ \A o \in objs : o.kind = "Namespace" => o.owner # uid

=============================================================================
