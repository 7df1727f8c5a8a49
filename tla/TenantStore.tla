---------------------------- MODULE TenantStore ----------------------------
(***************************************************************************)
(* The PostgreSQL store (internal/store): the tables tenants and           *)
(* tenant_members, and one action per SQL statement.  Each method of       *)
(* Database runs a single statement outside any transaction, so each is    *)
(* one atomic step.  The controller and the API server are its callers.    *)
(*                                                                         *)
(* A name is the sequence of its dash-free parts ("a-b" is <<"a", "b">>),  *)
(* so joining names with dashes is concatenation; the prefix "tenant-" of  *)
(* every namespace is left implicit.  <<>> is the empty string.            *)
(***************************************************************************)
EXTENDS Integers, Sequences, FiniteSets

CONSTANTS Segment,    \* the dash-free parts names are made of
          SpecNames,  \* the spec.name values callers use
          TierValues, \* the tier strings callers send
          Emails,     \* the owner e-mail addresses callers send
          Users,      \* user ids of tenant members
          MaxIds      \* bound: how many UUIDs are ever generated

Tiers == {"free", "pro", "enterprise"}

Roles == {"admin", "operator"}

ASSUME SpecNamesAssumption == SpecNames \subseteq Seq(Segment)

ASSUME MaxIdsAssumption == MaxIds \in Nat

VARIABLES tenants,  \* rows of table tenants
          members,  \* rows of table tenant_members
          issued    \* UUIDs are numbered in the order they are generated

storeVars == <<tenants, members, issued>>

(***************************************************************************)
(* The tables.  deleted stands for "deleted_at IS NOT NULL".               *)
(***************************************************************************)
TenantRow == [id : Nat, name : Seq(Segment), namespace : Seq(Segment),
              tier : TierValues, ownerEmail : Emails, deleted : BOOLEAN]

MemberRow == [tenantId : Nat, userId : Users, role : Roles]

StoreTypeOK == /\ tenants \subseteq TenantRow
               /\ members \subseteq MemberRow
               /\ issued \in Nat

StoreInit == tenants = {} /\ members = {} /\ issued = 0

\* A fresh UUID, from uuid.New in the API or metadata.uid from Kubernetes.
FreshId == issued + 1

-----------------------------------------------------------------------------
(***************************************************************************)
(* Table tenants.  t is a v1.Tenant: the fields read are uid, specName,    *)
(* statusNs, tier and email.                                               *)
(***************************************************************************)
Row(t) == [id |-> t.uid, name |-> t.specName, namespace |-> t.statusNs,
           tier |-> t.tier, ownerEmail |-> t.email, deleted |-> FALSE]

NameTaken(t) == \E r \in tenants : r.name = t.specName

\* UNIQUE(namespace) and the primary key, which ON CONFLICT (name) ignores.
\* Soft-deleted rows still occupy both.
KeyTaken(t) == \E r \in tenants : r.id = t.uid \/ r.namespace = t.statusNs

\* The INSERT returns an error: the arbiter of ON CONFLICT is only the name.
UniqueViolation(t) == ~NameTaken(t) /\ KeyTaken(t)

\* (mutant) ON CONFLICT (name) DO UPDATE.
CreateTenantUpsert(t) ==
  /\ ~UniqueViolation(t)
  /\ tenants' = IF ~NameTaken(t) THEN tenants \cup {Row(t)}
                  ELSE {IF r.name = t.specName THEN [Row(t) EXCEPT !.id = r.id]
                                               ELSE r : r \in tenants}
  /\ UNCHANGED members

\* INSERT ... ON CONFLICT (name) DO NOTHING; the ErrNoRows of a conflict is
\* turned into success.
CreateTenant(t) ==
  /\ ~UniqueViolation(t)
  /\ tenants' = IF NameTaken(t) THEN tenants ELSE tenants \cup {Row(t)}
  /\ UNCHANGED members

\* SELECT ... WHERE id = $1 AND deleted_at IS NULL: no row, or the only one.
GetTenantByID(id) == {r \in tenants : r.id = id /\ ~r.deleted}

\* SELECT ... WHERE deleted_at IS NULL.
ListTenants == {r \in tenants : ~r.deleted}

\* (mutant) "AND deleted_at IS NULL" is missing.
UpdateTenantDeletedToo(t) ==
  /\ tenants' = {IF r.id = t.uid
                   THEN [r EXCEPT !.tier = t.tier, !.ownerEmail = t.email]
                   ELSE r : r \in tenants}
  /\ UNCHANGED members

\* (mutant) the update brings a deleted row back.
UpdateTenantRestoring(t) ==
  /\ tenants' = {IF r.id = t.uid
                   THEN [r EXCEPT !.tier = t.tier, !.ownerEmail = t.email,
                                  !.deleted = FALSE]
                   ELSE r : r \in tenants}
  /\ UNCHANGED members

UpdateTenant(t) ==
  /\ tenants' = {IF r.id = t.uid /\ ~r.deleted
                   THEN [r EXCEPT !.tier = t.tier, !.ownerEmail = t.email]
                   ELSE r : r \in tenants}
  /\ UNCHANGED members

\* (mutant) DELETE FROM tenants WHERE id = $1.
DeleteTenantHard(id) == /\ tenants' = {r \in tenants : r.id # id}
                        /\ members' = {m \in members : m.tenantId # id}

\* Soft delete; deleting an absent or already deleted row is no error.
DeleteTenant(id) ==
  /\ tenants' = {IF r.id = id /\ ~r.deleted
                   THEN [r EXCEPT !.deleted = TRUE]
                   ELSE r : r \in tenants}
  /\ UNCHANGED members

-----------------------------------------------------------------------------
(***************************************************************************)
(* Table tenant_members.                                                   *)
(***************************************************************************)
\* tenant_id REFERENCES tenants(id): soft-deleted tenants still count.
TenantRowExists(id) == \E r \in tenants : r.id = id

SameMember(m, id, user) == m.tenantId = id /\ m.userId = user

\* (mutant) the upsert keeps the previous role as a second row.
AddMemberNoConflict(id, user, role) ==
  /\ TenantRowExists(id)
  /\ members' = members \cup
                   {[tenantId |-> id, userId |-> user, role |-> role]}
  /\ UNCHANGED tenants

\* INSERT ... ON CONFLICT (tenant_id, user_id) DO UPDATE SET role.
AddMember(id, user, role) ==
  /\ TenantRowExists(id)
  /\ members' = {m \in members : ~SameMember(m, id, user)} \cup
                   {[tenantId |-> id, userId |-> user, role |-> role]}
  /\ UNCHANGED tenants

RemoveMember(id, user) ==
  /\ members' = {m \in members : ~SameMember(m, id, user)}
  /\ UNCHANGED tenants

ListMembers(id) == {m \in members : m.tenantId = id}

=============================================================================
