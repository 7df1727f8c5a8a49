----------------------------- MODULE TenantApi -----------------------------
(***************************************************************************)
(* The REST API server (internal/handlers) on the store.  Every request    *)
(* runs in a goroutine of its own and nothing but the database serialises  *)
(* them: a handler that makes two statements (PUT of a tenant, POST of a   *)
(* member) is open to all others in between.  Handlers that make a single  *)
(* statement are one step.  Requests that fail validation change nothing   *)
(* and are left out; the validation is the guard of what remains.          *)
(***************************************************************************)
EXTENDS TenantStore

CONSTANTS Clients,  \* concurrent requests
          Keep      \* a field that a PUT body leaves out

ASSUME KeepAssumption == Keep \notin TierValues \cup Emails

VARIABLES call,     \* for each client, the request between two statements
          answered, \* id and name of the tenants answered 201
          deleted   \* ids of the tenants answered 204 to DELETE

apiVars == <<call, answered, deleted>>

vars == <<storeVars, apiVars>>

Idle == [op |-> "none"]

\* A PUT that has read its row: the tenant to write.
UpdateCall == [op : {"update"}, uid : Nat, tier : TierValues, email : Emails]

\* A member POST that has found its tenant.
MemberCall == [op : {"addMember"}, id : Nat, user : Users, role : Roles]

TypeOK == /\ StoreTypeOK
          /\ call \in [Clients -> {Idle} \cup UpdateCall \cup MemberCall]
          /\ answered \subseteq [id : 1..issued, name : SpecNames]
          /\ deleted \subseteq 1..issued

Init == /\ StoreInit
        /\ call = [c \in Clients |-> Idle]
        /\ answered = {}
        /\ deleted = {}

-----------------------------------------------------------------------------
\* The tenant of a POST body.  Its namespace is "tenant-" + name.
NewTenant(name, tier, email) ==
  [uid |-> FreshId, specName |-> name, statusNs |-> name,
   tier |-> tier, email |-> email]

\* POST /tenants: 201, or 500 when the INSERT fails on another unique column.
HandleCreateTenant(c, name, tier, email) ==
  LET t == NewTenant(name, tier, email)
  IN /\ call[c] = Idle
     /\ name # <<>> /\ tier \in Tiers
     /\ issued < MaxIds
     /\ issued' = FreshId
     /\ \/ /\ CreateTenant(t)
           /\ answered' = answered \cup {[id |-> FreshId, name |-> name]}
        \/ UniqueViolation(t) /\ UNCHANGED <<tenants, members, answered>>
     /\ UNCHANGED <<call, deleted>>

\* (mutant) the body's pointers are not tested for nil.
OverlayAlways(req, old) == req

Overlay(req, old) == IF req = Keep THEN old ELSE req

\* PUT /tenants/{id}, first half: SELECT (404 when there is no live row) and
\* overlay the fields the body names.  The tier is not validated.
HandleUpdateTenantRead(c, id, reqTier, reqEmail) ==
  /\ call[c] = Idle
  /\ \E r \in GetTenantByID(id) :
       call' = [call EXCEPT ![c] =
                  [op |-> "update", uid |-> id,
                   tier |-> Overlay(reqTier, r.tier),
                   email |-> Overlay(reqEmail, r.ownerEmail)]]
  /\ UNCHANGED <<storeVars, answered, deleted>>

\* Second half: UPDATE both columns.  200 even when no live row is left.
HandleUpdateTenantWrite(c) ==
  /\ call[c].op = "update"
  /\ UpdateTenant(call[c])
  /\ call' = [call EXCEPT ![c] = Idle]
  /\ UNCHANGED <<issued, answered, deleted>>

\* DELETE /tenants/{id}: 204 whether or not there was a live row.
HandleDeleteTenant(c, id) ==
  /\ call[c] = Idle
  /\ DeleteTenant(id)
  /\ deleted' = deleted \cup {id}
  /\ UNCHANGED <<issued, call, answered>>

\* POST /tenants/{id}/members, first half: 404 unless the tenant is live.
HandleAddMemberRead(c, id, user, role) ==
  /\ call[c] = Idle
  /\ GetTenantByID(id) # {}
  /\ call' = [call EXCEPT ![c] =
                [op |-> "addMember", id |-> id, user |-> user, role |-> role]]
  /\ UNCHANGED <<storeVars, answered, deleted>>

\* Second half: the upsert.
HandleAddMemberWrite(c) ==
  /\ call[c].op = "addMember"
  /\ AddMember(call[c].id, call[c].user, call[c].role)
  /\ call' = [call EXCEPT ![c] = Idle]
  /\ UNCHANGED <<issued, answered, deleted>>

\* DELETE /tenants/{id}/members/{userId}: does not look at the tenant.
HandleRemoveMember(c, id, user) ==
  /\ call[c] = Idle
  /\ RemoveMember(id, user)
  /\ UNCHANGED <<issued, apiVars>>

\* The statement fails, or the client disconnects and cancels the context.
Abandon(c) ==
  /\ call[c] # Idle
  /\ call' = [call EXCEPT ![c] = Idle]
  /\ UNCHANGED <<storeVars, answered, deleted>>

Next ==
  \E c \in Clients :
    \/ \E n \in SpecNames, t \in TierValues, e \in Emails :
         HandleCreateTenant(c, n, t, e)
    \/ \E id \in 1..issued, t \in TierValues \cup {Keep}, e \in Emails \cup {Keep} :
         HandleUpdateTenantRead(c, id, t, e)
    \/ HandleUpdateTenantWrite(c)
    \/ \E id \in 1..issued : HandleDeleteTenant(c, id)
    \/ \E id \in 1..issued, u \in Users, r \in Roles :
         HandleAddMemberRead(c, id, u, r)
    \/ HandleAddMemberWrite(c)
    \/ \E id \in 1..issued, u \in Users : HandleRemoveMember(c, id, u)
    \/ Abandon(c)

Spec == Init /\ [][Next]_vars

-----------------------------------------------------------------------------
(***************************************************************************)
(* Properties.                                                             *)
(***************************************************************************)
\* What DELETE removed stays as it was: a PUT that read the row before the
\* DELETE and writes after it changes nothing (the deleted_at IS NULL of
\* UpdateTenant), and no later POST takes the row over.
DeletedRowsFrozen == [][\A r \in tenants : r.deleted => r \in tenants']_vars

\* Once a DELETE was answered 204, neither a GET of that tenant nor the list of
\* all finds it again, whatever requests were in flight.
DeletedStaysGone ==
  \A id \in deleted : /\ GetTenantByID(id) = {}
                      /\ \A r \in ListTenants : r.id # id

\* A member belongs to a tenant row and has a single role, also after
\* concurrent POSTs with different roles and a DELETE of the tenant between the
\* two statements of AddMember.
MembersSound ==
  \A m \in members :
    /\ TenantRowExists(m.tenantId)
    /\ \A n \in ListMembers(m.tenantId) : n.userId = m.userId => n = m

\* A POST of a name that is taken is answered 201 with an id of its own, and
\* stores nothing.  The name nevertheless has one owner from the first 201 on, and
\* for good: the tenant of that answer or of an earlier one, deleted or not.  The
\* id of a later answer never comes to be a row, also not when the owner is deleted
\* and the name posted again.
FirstOwnerStays ==
  \A a \in answered :
    \E r \in tenants : /\ r.name = a.name /\ r.id <= a.id
                       /\ \A s \in tenants : s.name = a.name => s = r

=============================================================================
