# A TLA+ model of k8s-mtp

k8s-mtp turns `Tenant` resources of a Kubernetes cluster into namespaces with
quotas, roles, network policies and limit ranges, keeps tenant metadata in
PostgreSQL, and offers a REST API on the same tables. This directory models its
control plane in TLA+, from the start of its processes to the pods of its
tenants, checks small instances with TLC, and proves with TLAPS, for every value
of the constants, the safety properties that TLC checks.

    tlc -workers 2 -config controller_safety.cfg MCTenantController
    tlapm TenantControllerProofs.tla

`PROJECT.json` lists the runs, the source lines behind every definition, the
hazards, the findings and the theorems.

## 1. Inventory

| Component | State | Operations | Interacts with |
|---|---|---|---|
| store, `internal/store` | tables `tenants`, `tenant_members` | one SQL statement per method, no transactions | called by controller and API |
| reconciler, `internal/reconciler` | none of its own: its copy of the tenant, the informer cache, the work queue | `Reconcile`: add finalizer, delete, create or update | Kubernetes API (read through a cache, written directly), store |
| REST handlers, `internal/handlers` | none: a request's local variables | 8 endpoints, a goroutine per request | store |
| rate limiter, `internal/middleware/ratelimit.go` | map from keys to buckets, under a mutex | `Limit` | runs before authentication in `NewMux` |
| authentication, `internal/middleware/auth.go` | Dex's keys, fetched at start-up | `Auth` | identity provider |
| admission webhook, `cmd/webhook` | its certificate, loaded at start-up | validate and mutate pods | Kubernetes API server |
| webhook manager, `internal/webhook`, `pkg/webhook` | secret with CA and certificate, deployment, service, two webhook configurations | `EnsureAll`, before the controller starts to reconcile | Kubernetes API |
| migrations, `internal/store/migrations.go` | the schema's version and dirty flag, a lock | `RunMigrationsEmbedded`, at the start of controller and API server | PostgreSQL |
| configuration, `internal/config` | values read at start-up | `Load` from file, `.env`, environment and defaults | all |
| CLI, `cmd/cli` | a file with URLs, client id and token | `login`, one request per other command | Dex, REST API |

What is hard here:

* **Staleness.** The reconciler reads tenants from a cache, then makes up to
  eleven remote calls, while users edit, delete and recreate the resource. Only
  the finalizer, the uid and the resource version protect it.
* **Partial failure.** Any call may fail, or succeed with its answer lost; the
  controller may die between any two. All is retried from the start.
* **Background deletion.** The garbage collector and the namespace controller
  remove a deleted tenant's objects at their own pace, also while a successor of
  the same name is provisioned in the same namespace.
* **Two writers.** Controller and API server write the same tables, with
  the same unique columns, without knowing of each other.
* **Two-statement handlers.** PUT of a tenant and POST of a member read with one
  statement and write with another.
* **Soft deletion.** A deleted row keeps its name and namespace for ever.
* **Starting together.** Several processes run the migrations and `EnsureAll` at
  the same time and may die anywhere in between; leader election is off by
  default, so that a rolling update has two controllers at work.
* **Read once.** Configuration, Dex's keys and the webhook's certificate are read
  when a process starts and not again, while what they were read from changes.

What makes each part correct: no live row without its resource; an Active
tenant has what Active promises; deletion completes and is final; drift and
edits converge; users' edits are not undone; a member has one role in an
existing tenant; a bucket admits no more than the rate allows in any window, and
nobody is locked out for good; no process works on a half-made schema; one
certificate authority is trusted and used; no pod gets into a tenant's namespace
unchecked, and compliant pods get in; a server starts as it is configured and
its users get through.

## 2. Modules

| Module | Models |
|---|---|
| `TenantStore` | the two tables and their statements |
| `TenantResources` | the `build...` and `...NeedsUpdate` functions, as pure operators |
| `TenantController` | the reconciler with its environment; extends the two above |
| `TenantLifecycle` | the abstract life of a tenant that `TenantController` implements |
| `Overlap` | two controllers during a rolling update; extends `TenantController` and instantiates it again |
| `TenantApi` | the REST handlers; extends `TenantStore` |
| `Platform` | controller and API server over one store |
| `RateLimiter` | the token buckets |
| `Startup` | the main functions, the migrations and `EnsureAll` |
| `PodRules` | the webhook's decisions, as pure operators |
| `Admission` | pods on their way through the webhooks; extends the two above |
| `Config` | `Load`, as pure operators |
| `Access` | the API server's start and middlewares, Dex and the CLI; extends `Config` |
| `MC...` | constant values for TLC |
| `TenantControllerProofs`, `GovernanceProofs` | theorems about `TenantController`; the second builds on the first |
| `PlatformProofs`, `OverlapProofs` | theorems about `Platform` and `Overlap`, building on `TenantControllerProofs` |
| `TenantApiProofs`, `RateLimiterProofs`, `AdmissionProofs`, `AccessProofs` | theorems about the module of that name |

### TenantStore

`tenants` and `members` are the tables as sets of rows. Every method of
`Database` is a single statement, so it is a single atomic action. `CreateTenant`
keeps the asymmetry of the SQL: a conflict on `name` is silently a success, a
conflict on the primary key or on `namespace` is an error (`UniqueViolation`).
Soft-deleted rows count for both. Names are sequences of their dash-free parts,
so that joining two names with a dash is concatenation and can collide exactly
when the strings do; the constant prefix `tenant-` is implicit. Row order,
timestamps and row ids of members are left out. `HardDeleteTenant`,
`GetTenantByName` and `GetMemberRole` have no caller and are not modelled.

### TenantResources

An object is its key, its owner and two pieces of content: `val` stands for what
its `NeedsUpdate` function compares, `hidden` says that content the function
does not compare has been changed. Which content that is, is read off the code:
the peers and ports of a network policy, `defaultRequest` of a limit range, the
`resourceNames` of a role's rule. Network policy and limit range also ignore the
owner. The quota's name contains the tier; the limit range's defaults depend on
the tier (the configuration's defaults for the tiers differ).

### TenantController

`crs` are the resources in the API server, `cache` the informer's copies,
`queue` the work queue, `objs` and `terminating` the managed objects and the
namespaces being deleted; `pc` and `cur` are the worker's next remote call and
its copy of the tenant. There is one worker, as `SetupWithManager` leaves
`MaxConcurrentReconciles` at 1. One action per remote call, in the code's order:

| Action | Code |
|---|---|
| `BeginReconcile` | `Reconcile` up to the first remote call; `FirstCall` is its branching |
| `addFinalizer` | `addFinalizer` |
| `DeleteRow`, `RemoveFinalizer` | `reconcileDelete` |
| `GetRow`, `CreateRow`, `UpdateRow` | the store part of `reconcileCreateOrUpdate` |
| `Apply(kind)` | one `createOrUpdate`; `NextCall` is their order |
| `ApplyStale(kind)` | one `createOrUpdate` whose `Get` answers from an outdated cache |
| `UpdateStatus` | `Status().Update` |
| `Fail`, `Crash` | an error return at any call; the process dies and restarts |

The environment is external: `CreateCR`, `EditCR`, `DeleteCR` (users), `Deliver`
(watch), `Resync`, `GcCollect`, `FinalizeNamespace`, `Tamper` (anyone with
`kubectl`). What is assumed of it:

* An update is accepted only with the stored uid and resource version; one that
  changes nothing keeps the version. Deleting a resource with a finalizer only
  marks it; removing the last finalizer removes it. The CRD
  (`config/crds`) is cluster-scoped, has a status subresource and admits only the
  three tiers, so `buildResourceQuota` never returns nil.
* `Deliver` brings the cache from any earlier version to the present one. A
  cache that stops at a version between behaves like a `Deliver` taken at that
  moment, so every staleness of a copy is still reached.
* After a restart the informer lists the present resources.
* The controller's owner references have no controller flag, so the `Owns`
  watches map no event to a tenant: only the tenants' own watch and the resync
  enqueue names.
* A namespace that is being deleted takes no new objects, and a `roleRef` cannot
  be changed.
* A call that took effect although its answer was lost is a failure of the next
  call: the same state, the same retry from the start.
* `createOrUpdate` is one step. Between its `Create`, its cached `Get` and its
  `Update` another writer can only make it fail (`AlreadyExists` with nothing in
  the cache, or a conflict), which is `Fail`, or make it believe that nothing is
  to do, because the cache still shows a version that equals the desired object.
  That is `ApplyStale`: `past` are the versions of objects that were overwritten
  or removed, any of which the cache may still show. Those that no `NeedsUpdate`
  function could take for the desired object, because their owner is gone, are
  not kept.
* The label the API server puts on every namespace makes `nsNeedsUpdate` true
  each time; the update it causes changes nothing and is left out.

### TenantLifecycle

A tenant's life without caches, queues, versions and SQL: requested, held by the
finalizer, stored, doomed, dropped, released. `Life` in `TenantController` is the
mapping: uids of the resources, of those with a finalizer or a deletion mark, of
live and of deleted rows. `ImplementsLifecycle` says that every step of the
controller, its users and the cluster is a step of this life or leaves it alone.

### Overlap

`TenantController` is the new controller; `Old`, an instance of the same module
over the same cluster and tables with its own cache, queue and worker, is the one
that is being replaced. Watch and resync still give it work, it begins up to
`MaxOld` more reconciliations, and is gone between two of them or at any point of
one. The run has `MaxOld = 1`; the theorems hold for any number. `NoOrphanRow` and
`ActiveIsGoverned` do **not** hold here: the old controller may insert a row for a
tenant that the new one has already let go, and nothing deletes that row later.
What still holds is checked: deleted rows are safe, the tenant is provisioned in
the end, and objects built for a tenant that is gone are collected. That users'
edits are safe from both is proved (`OverlapEditsSurvive`) and not checked: the
run, in which two controllers already interleave call by call, has no edits.

### TenantApi

`call[c]` is a client's request between its two statements; `answered` are the
tenants a POST was answered 201 with, as the client was told them, and `deleted` the
ids answered 204. An id in `answered` need not be a row's: a POST of a taken name is
answered 201 as well. Handlers with one statement are one
step. Requests that fail validation change nothing: the validation is the guard
of what remains. `HandleUpdateTenantRead` does not restrict the tier, as the
handler does not. `Abandon` is a failing second statement or a client that
disconnects, which cancels the context.

### Platform

Either process takes a step and leaves the other's variables alone; the tables
and the supply of UUIDs are shared.

### RateLimiter

The mutex covers a request's accounting, so a request is one step. Time is
counted in ticks in which one `Unit`-th of a token is refilled, which makes
`elapsed * rate` an integer; rounding of floats is left out. `ServeHTTP` calls
`Limit` with no user in the context, because `NewMux` wraps `Auth` in `Limit`.
`Observe` starts a new observation window at any time, and `granted` and `refused`
count what it sees; they are not code.

### Startup

`proc[p]` is how far a process has come in its main function: the migrations,
then, in an API server, fetching Dex's keys, in a controller the five objects of
`EnsureAll` in their order (`NextStage`), then running. What the API server exits
on is in `Access`; here such an exit is a `Crash`. `missing` and `ca` are the
local variables of an ensure function: the last `Get` answered NotFound, and the
CA read from the secret. Each database or Kubernetes call is a step; an error
return is `Exit`, after which the kubelet starts the process again. A certificate
is represented by the number of the CA that signed it, so `made["secret"]`, the CA
bundle in `made["validating"]` and `made["mutating"]`, and `served` can be
compared. Content that `EnsureAll` never compares (image, ports, rules) is left
out. External: golang-migrate (lock, dirty flag), the kubelet, the start of the
webhook's pod once its secret can be mounted.

### PodRules

A container keeps what the checks look at. `validateContainer` and
`validateEphemeralContainer` are two copies in the code and two here. The table of
blocked configurations (README.md:179-190) is the reference `Compliant`, against which
the handler is proved for every pod (`RulesMatchTable`). The README's list of features
(README.md:25-26) promises more, "Non-root containers (runAsNonRoot: true)": a
container that leaves `runAsNonRoot` unset is not in the table and passes the code's
check, and so it is `Compliant` here. The `admission` run has such a pod.

### Admission

A pod is submitted to a tenant's namespace, which exists only once a controller
got through `EnsureAll`; the API server calls the mutating, then the validating
webhook, if the configuration exists, and refuses the pod if the server cannot be
reached, presents a certificate of another CA, panics or denies. The operator may
follow the README's regeneration procedure, one command at a time. The requests are
those that create pods. An ephemeral container is added later, by a request for
`pods/ephemeralcontainers`, which the rules at manager.go:263 do not name, so that
neither webhook is called for it; `validateEphemeralContainer` sees such containers
only when something else in their pod is updated. Updates, requests for
subresources, the form of the responses, and the defaults that other admission
plugins put in are out of scope.

### Config and Access

A source of configuration maps each field to a value, `Absent`, `Zero` (empty, 0 or
false) or `Malformed`. `Load` is `Parsed`, `overrideCfg` and `validateCfg`, as in the
code; `Nil` is an error return.

`Access` is the API server's main function and the way to it. The server's start is
three steps, in the code's order, each an exit when something fails: `ApiStart`
loads what is there now and opens the database (`Opens`: the connections' life time
must parse, the ping must succeed); `RunMigrationsEmbedded` fails on a dirty schema
or a database that has gone away; `Serve` fetches Dex's keys, skips those it cannot
decode, and listens. `ApiCrash` may cut each, and leaves the schema dirty in the middle
of the migration. A user of the CLI creates the file, completes it, logs in when
told to and tries again. All tenant and member commands are one action, as they
differ in method, path and output alone. A bucket is a connection's (`RateLimiter`): a
client that connects to the server itself has a new one each time, but behind an
ingress, the chart's default, it shares the ingress's connection, and `crowded` says
that others have emptied that bucket; by `PatienceRewarded` it refills when they pause.

## 3. Runs

Runs that pass:

| Run | Instance | Shows |
|---|---|---|
| `controller_safety` | 1 name, 2 uids, 2 tiers, 1 edit, 1 deletion, 1 fault | `TypeOK`, `NoOrphanRow`, `ProvisioningHeld`, `ActiveIsGoverned`, `NoLostEdit`, `ImplementsLifecycle` |
| `controller_recreate` | 1 name, 2 uids, 2 deletions, 1 fault | `EventuallyProvisioned`, `DeletionCompletes` |
| `controller_converge` | 1 uid, 2 tiers, 2 edits, 1 fault, 1 foreign change | `DriftRepaired`, `RowFollowsSpec` |
| `controller_two` | 2 names, 2 spec names, 2 uids | `ProvisionedUnlessRefused`, `ActiveIsRecorded` |
| `controllers_overlap` | 2 controllers, 1 last reconciliation of the old one, 1 name, 1 uid, 1 deletion | `DroppedRowsFrozen`, `EventuallyProvisioned`, `LeftoversCollected` |
| `api_safety` | 2 clients, 2 names, 2 tiers, 2 e-mails, 3 ids | `TypeOK`, `DeletedStaysGone`, `MembersSound`, `FirstOwnerStays`, `DeletedRowsFrozen` |
| `platform_safety` | 1 resource name, 1 client, 2 ids, 1 deletion, a known and an unknown tier | `NoOrphanControllerRow`, `DeletedRowsFrozen`, `ApiRowsUntouched` |
| `rate_limiter` | 2 connections, burst 2, 7 requests in 6 ticks | `TypeOK`, `WindowBound`, `PatienceRewarded` |
| `admission` | 2 controllers, 1 API server, 2 pods (one with `runAsNonRoot` unset, one to refuse), 1 crash, 1 regeneration | `TypeOK`, `SchemaBeforeWork`, `CertificatesAgree`, `AdmittedChecked`, `UpUnlessDirty`, `CompliantAdmitted` |
| `access` | 1 user, 11 configurations, 1 change of them, 3 keys of which one does not decode, 2 faults | `TypeOK`, `StartsAsMeant`, `UpUnlessUnusable`, `ServedInTheEnd` |

Runs that end in a violation, each showing where the code and what is said of it
part:

| Run | Violated | Because |
|---|---|---|
| `second_tenant` | `EventuallyProvisioned` | the row is inserted with an empty namespace, a unique column: the second tenant's row is refused for ever |
| `tls_regeneration` | `RegenerationHeals` | the webhook server loads its certificate once and nothing restarts it: after the documented regeneration the new configurations do not trust it |

The liveness properties name what alone can prevent the good outcome, and each
alternative is needed. `UpUnlessDirty` and `CompliantAdmitted`: a process that died
inside the migration leaves the schema dirty, and then no process starts, which
takes a person to mend. `CompliantAdmitted`: after a regeneration, the server or
a configuration is left with a former certificate (also when a controller happens
to restart between the operator's deletion of the configurations and that of the
secret). `UpUnlessUnusable`: a configuration that stays unusable, be it for `Load`, the
database, the address or Dex's URL, or a dirty schema. `ServedInTheEnd`: a server
down for good, a negative burst, others who empty a shared bucket again and again, a
key that the server started too early to know or could not decode, or another
audience.

More disagreements are visible in the definitions and have no run of their own:

* Drift that the comparison cannot see, or cannot repair, stays (the second
  alternative of `DriftRepaired`, against README.md:321).
* The status says Active before the network policy is made (`NextCall`, against
  README.md:7).
* The names (a, b-c) and (a-b, c) get the same namespace (`NsName`, against
  README.md:7). With such names `ActiveIsGoverned` does not hold, which is why its
  theorem excludes them (section 4): once a tenant has been renamed into the
  namespace of another, each takes roles and bindings of its own name but both
  want the namespace and the quota, and take them from one another.
* A tenant recreated under the `spec.name` of a deleted one becomes Active without
  a row: ON CONFLICT (name) DO NOTHING meets the soft-deleted row (`CreateTenant`
  and the second alternative of `ActiveIsRecorded`, against README.md:17).
* After a change of tier the quota of the former tier, which has another name, is
  never removed, and both apply (`buildResourceQuota`, against README.md:43).
* The webhook lets a container that leaves `runAsNonRoot` unset pass
  (`validateContainer`, main.go:278; stored in the `admission` run), against "Non-root
  containers (runAsNonRoot: true)", README.md:26.
* A POST of a taken name is answered 201 with an id no row has (`CreateTenant` in
  `HandleCreateTenant`), and a GET of that id 404; what holds is that the name stays
  with its first owner (`FirstOwnerStays`). A PUT does not validate the tier
  (`HandleUpdateTenantRead`, against README.md:15).
* Two PUTs of different fields undo one another, as each reads the row, then
  writes both columns (`HandleUpdateTenantRead` and `Write`; the test at
  tenants_test.go:180 expects a field that is not named to stay).
* The limiter runs before authentication, so its key is the connection and a user
  with two connections has two buckets (`ServeHTTP`, against README.md:37); the
  Retry-After header names the time of one token, but a client that was refused
  several times has to wait for each of them (`PatienceRewarded`).
* Dex's keys are fetched once (`Serve`, against "JWKS key rotation",
  README.md:35), and also with authentication off, so that the server needs Dex
  to start (`Fetches`, against README.md:40).
* The CLI's default client id is `k8s-mtp-cli`, the chart's server expects the
  audience `k8s-mtp` (`AudienceDiffers`).
* With neither file, `Load` fails although it has made a `Config` for the environment
  to fill, because the error of the last `os.Stat` is still in `err` (`Parsed`, against
  the comment at config.go:46-48); a `.env` file's log format and webhook image
  are ignored (`DotEnvFields`); negative numbers pass validation (`Defaults`).
* The mutating webhook replaces a pod's labels, and the tier label is the second
  part of the name, not the tier (`mutatePodHandler`, against README.md:22); a
  namespace with a single part after `tenant-` makes it panic (`MutatePanics`),
  which no namespace of the reconciler has.
* While the operator regenerates the certificates there is a time without
  configurations, in which pods are stored unchecked; `AdmittedChecked` and
  `CertificatesAgree` are therefore about clusters nobody has regenerated.

**Bounds.** Two uids are the least with which a predecessor's leftovers meet a
successor; a third adds no new kind of meeting under one name. One fault is
enough to cut a reconciliation at each call; the retry then runs to its end. One
edit (two in `controller_converge`, so that the tier can change and change back)
lands between any two calls. Two controllers are the least that race in
`EnsureAll` and for the migration lock, and one crash cuts either at each step;
four certificates suffice for two lost races and a regeneration. A key set
needs three keys to be behind by more than the one Dex still publishes. The eleven
configurations cover each source and each way to fail. `MaxIds`, `MaxEdits`,
`MaxDeletes`, `MaxFaults`, `MaxTampers`, `MaxTime`, `MaxRequests`, `MaxCrashes`,
`MaxCerts`, `MaxRegenerations`, `MaxOld` and `MaxKeys` are the only bounds, all in guards.
Deadlock is not checked where the environment may fall silent: an idle cluster
has nothing to do once its bounds are spent.

One branch is never taken within these bounds: the API's INSERT failing on the
namespace column (the second alternative of `HandleCreateTenant`) needs a
controller row with a non-empty namespace, which takes a recreated tenant without
a row that is then renamed, and a third id for the POST: an instance of several
million states.

**Fairness.** The worker (`WF` on its calls: a call returns or fails), the watch,
the resync (the informer's period is finite), the garbage collector and the
namespace controller (`WF`). The work queue is first-in first-out, so a name in
it is taken however often others come back: `SF` on `BeginReconcile`. Users,
tampering, failures and crashes owe nothing, and there are finitely many of them.
In `Overlap` the old controller owes nothing but to be gone in the end, as its
termination grace period runs out. In `Admission` processes that are down are
restarted and those that run go on (`WF`; the kubelet, and calls that return), the
API server answers a request it has taken, an operator who has begun the procedure
finishes it, and the owner of a compliant pod, a deployment's controller for
instance, submits it again (`SF`, as one request is in flight at a time). In
`Access` the kubelet restarts the server, whose start goes on (`WF`), outages of
database and Dex end, a bucket that others have emptied refills, and the user
completes the file, logs in when told to and repeats the command (`SF`, because
logging in and being told alternate).

**Each property has a mutant** of the code in its module that breaks it: for
instance `addFinalizerForced` (the last writer wins) breaks `NoLostEdit`, and
`rbNeedsUpdateNoOwner` (bindings compared as carelessly as network policies)
breaks `ActiveIsGoverned` when a successor keeps bindings that are about to be
collected.

## 4. Proofs

`TenantControllerProofs` proves, for every value of the constants and so for any
number of tenants, edits, faults and crashes:

* `TypeCorrect`: `Spec => []TypeOK`
* `OrphanFreedom`: `Spec => []NoOrphanRow`
* `ProvisioningSafety`: `Spec => []ProvisioningHeld`
* `EditsSurvive`: `Spec => NoLostEdit`
* `Refinement`: `Spec => ImplementsLifecycle`

`NoOrphanRow` is not inductive: the row is inserted from a copy of the tenant
that may be long out of date. The invariant `Inv` says what keeps such a copy
harmless. Uids are never issued twice, and each is held by at most one resource
and one cached copy (`UidsIssued`, `UniqueUid`). A copy in the cache or in the
worker's hand is an earlier version of its resource, or its resource is gone; if
a stored resource has the copy's uid then its version is no older, deletion
marks and finalizers only ever having been added since, and with equal versions
the two are equal (`Copy`). A provisioning worker's copy carries the finalizer,
and only this worker removes finalizers, so its resource is still there; a
worker about to remove the finalizer has already deleted the row (`CurFacts`).
The lemma `WriteEffect` says what an accepted update does, `WriteStep` that every
update made from such a copy keeps the invariant; `InvStep` has one case per
action. `Inv` speaks of no rows but the worker's own, so that it also holds where
the API server writes rows; `RowsStep` derives from it that a step leaves no
orphan, which is `OrphanFreedom`. `EditsSurvive` follows from the same invariant,
and so does `Refinement`: each action changes at most one of the mapped sets by
at most one uid, and the invariant supplies the abstract step's guard; for
instance, that the row about to be inserted is of a held uid, and that a resource
let go has no live row.

`GovernanceProofs` is about what the phase Active stands for:

* `ActiveRecorded`: `Spec => []ActiveIsRecorded`
* `ActiveGoverned`: `Spec => []ActiveIsGoverned`, if no two resource names can get
  the same namespace (`Unambiguous`)

Its `StepShape` sorts all actions into what they do to resources, rows and
objects. For `ActiveRecorded` the invariant must look past `spec.name`, which may
be edited and edited back: a tenant that is Active and not marked was taken by
the store under the name that its `status.namespace` was made of (`ActiveTaken`),
a worker past the store knows that its row is there unless the resource was
marked meanwhile (`WorkerTaken`), and a row is deleted only for a marked resource
(`DroppedDoomed`). That the two names are the same in the end is that
concatenation can be cancelled (`ConcatCancel`).

`ActiveGoverned` rests on owners: an object passes from a tenant to its successor
of the same name, never back. So no object in a tenant's namespaces belongs to a
later uid (`OwnersKnown`), and what was replaced belongs to no later uid than what
replaced it (`OwnersGrow`). Hence an outdated cache cannot deceive the worker about
an object whose owner is compared (`NeverStale`), and what a tenant that is there
owns in a live namespace lasts through every overwriting, collection and removal
(`Lasting`); the worker's possessions grow call by call (`BuiltBefore`,
`WorkerGoverns`) until `Status().Update` says so. At the quota the worker may
still be in its predecessor's namespace: that the API server takes no object into
a namespace being deleted is what tells them apart. Two tenants that share a
namespace break the first fact, so `Unambiguous` cannot be dropped: with the
resources `a` and `a-b` and the names `b-c` and `c`, TLC finds a tenant whose namespace
is taken over after one renaming. Names with the same number of dashes, none for
instance, satisfy it (`EvenNamesUnambiguous`).

`TenantApiProofs` proves, for any number of concurrent requests:

* `ApiTypeCorrect`: `Spec => []TypeOK`
* `NoResurrection`: `Spec => []DeletedStaysGone`
* `MembersConsistent`: `Spec => []MembersSound`
* `FirstOwnerKept`: `Spec => []FirstOwnerStays`
* `DeletedRowsStay`: `Spec => DeletedRowsFrozen`

The invariants are inductive together with `RowsIssued` (no row has an id that was
not generated), which is what makes a new id new, `NamesOwned` (id, name and namespace
each identify a row, deleted ones included) and `NamesHeld` (a name that was answered
201 has a row of no later id): a row is never removed, so the name never comes free for
a later answer. `InPlace` says what any
statement that changes rows in place maintains, and PUT's UPDATE and DELETE's soft
deletion are instances of it.

`PlatformProofs` proves of controller and API server over one store:

* `PlatformOrphanFreedom`: `PlatformSpec => []NoOrphanControllerRow`
* `PlatformDeletedRowsStay`: `PlatformSpec => DeletedRowsFrozen`
* `ApiRowsSafe`: `PlatformSpec => ApiRowsUntouched`

The controller's `Inv` survives the API server's steps, as the ids answered 201 and the uids
of resources and of all copies of them never meet (`Apart`); a row whose tenant was
created and deleted through the API is deleted (`DeletedOwn`).

`OverlapProofs` proves of two controllers at work:

* `OverlapEditsSurvive`: `OverlapSpec => NoLostEdit`
* `OverlapDroppedRowsStay`: `OverlapSpec => DroppedRowsFrozen`

`Inv` fails there, since one controller may provision what the other has let go.
What optimistic concurrency alone gives is enough: each of the four kinds of copy
is of the stored version or an older one, and no step makes a copy but from a copy
or from the API server (`OverlapInv`). Deleted rows are safe by each statement of
the store, whoever sends it.

`RateLimiterProofs` proves `TypeCorrect`, `WindowIsBounded`: `Spec => []WindowBound`,
and `PatienceIsRewarded`: `Spec => []PatienceRewarded`. The invariant relates each
bucket to the window and to its debt: what was granted since the window began,
and what the bucket could still grant now, together never exceed the burst and
the refill since; and a bucket is never deeper in debt than by what the refusals
since its last admission have paid.

`AdmissionProofs` proves, for any number of controllers, API servers, crashes and
pods:

* `ChecksMatchTable`: `RulesMatchTable`, for every pod
* `TypeCorrect`: `Spec => []TypeOK`
* `SchemaIsReady`: `Spec => []SchemaBeforeWork`; inductive given the types
* `CertificatesSound`: `Spec => []CertificatesAgree`
* `NoPodUnseen`: `Spec => []AdmittedChecked`

The last two rest on `Undisturbed`, which says how far each process must have
come: one past an object has seen it, the CA it holds is the secret's, and one
that runs has seen both configurations (`Past`); both configurations and the
server have the secret's CA (`Objects`); so there are both configurations before
there is a namespace, hence before there is a request, and a request about to be
validated has been mutated (`PodsSeen`). `ObjectsStep` has one case per step of the
start-up, `UndisturbedStep` one per action. The operator's first command ends the
premise.

`AccessProofs` proves `AccessTypeCorrect`: `Spec => []TypeOK`, and `StartMeans`:
`Spec => StartsAsMeant`, for any sources of configuration whatever, where TLC checks
eleven. The second is a fact about `Load`, field by field (`LoadMeans`); the first
needs that records stay records and that no client id is written but the
template's.

The proofs assume what the modules' `ASSUME`s say (names are sequences of
segments, bounds are naturals, `NoTenant` is not a tenant, a positive `Unit`,
`Nobody` is not a process, the tenant's namespace begins with `tenant-`), and
`ActiveGoverned` also `Unambiguous`; no more.

Only model-checked: the liveness properties (`EventuallyProvisioned`,
`DeletionCompletes`, `DriftRepaired`, `RowFollowsSpec`, `ProvisionedUnlessRefused`,
`LeftoversCollected`, `UpUnlessDirty`, `CompliantAdmitted`, `UpUnlessUnusable`,
`ServedInTheEnd`). Liveness under fairness and `ENABLED` are out of TLAPS's reach and
stay with TLC. Every other property of a passing run is a theorem.

## 5. Not modelled

Logging, metrics, probes, flags and graceful shutdown; the wording and encoding of
requests and responses; deep copies and scheme registration of the API types;
connection pooling; cryptography; float rounding in the limiter; the pod
controllers behind the webhook's deployment; the Helm chart, beyond the values
named above. `HardDeleteTenant`, `GetTenantByName` and `GetMemberRole` have no caller.
Two clients that edit one CLI file at a time (a login writes back the file it read
before the prompt) are left out: a user has one client.

Of the hazards, two have no property: two PUTs at once, which do undo one
another; and the growth of the bucket map, which the code's own comment names.

## 6. Plan

Done: every component of section 1; the abstract life of a tenant and its
refinement; a theorem for every safety property (section 4).

Left:

1. What liveness rests on, as invariants: that a name which needs work is in the
   queue, or its cached copy is not the stored one, or the worker has it.
2. An abstract specification of `Admission`'s start-up, and its refinement.
