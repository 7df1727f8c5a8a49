------------------------------ MODULE Platform ------------------------------
(***************************************************************************)
(* The whole platform's control plane: the controller and the API server,  *)
(* two processes that share nothing but the store.  The API writes rows    *)
(* without creating Tenant resources, and the controller writes rows for   *)
(* resources without asking the API; both use the same unique columns.     *)
(***************************************************************************)
EXTENDS TenantController

CONSTANTS Clients, Keep

VARIABLES call, answered, deleted

Api == INSTANCE TenantApi

controllerVars == <<crVars, clusterVars, workVars, spent>>

apiVars == <<call, answered, deleted>>

platformVars == <<vars, apiVars>>

PlatformInit == Init /\ Api!Init

PlatformNext == \/ Next /\ UNCHANGED apiVars
                \/ Api!Next /\ UNCHANGED controllerVars

PlatformSpec == PlatformInit /\ [][PlatformNext]_platformVars

-----------------------------------------------------------------------------
\* The ids of the tenants answered 201.
created == {a.id : a \in answered}

\* A live row that no POST was answered with belongs to a Tenant resource that
\* still carries the finalizer: NoOrphanRow survives an API server that inserts,
\* updates and deletes rows behind the controller's back, its own rows excepted.
NoOrphanControllerRow ==
  \A r \in tenants : ~r.deleted /\ r.id \notin created => Held(r.id)

\* No row that either process deleted is changed by the other: neither the PUT
\* nor the controller's UpdateTenant, both of which read the row one statement
\* earlier.
DeletedRowsFrozen ==
  [][\A r \in tenants : r.deleted => r \in tenants']_platformVars

\* The API never gives up a tenant it has created to the controller: the
\* controller's statements only touch rows of its own resources, also when a
\* resource has the spec.name of an API tenant.
ApiRowsUntouched ==
  [][\A r \in tenants : r.id \in created /\ call' = call /\ deleted' = deleted
       => r \in tenants']_platformVars

=============================================================================
