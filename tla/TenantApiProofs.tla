--------------------------- MODULE TenantApiProofs ---------------------------
(***************************************************************************)
(* Theorems about TenantApi, for any number of concurrent requests, names, *)
(* users and ids: type correctness, DeletedRowsFrozen, DeletedStaysGone,   *)
(* MembersSound and FirstOwnerStays.                                       *)
(***************************************************************************)
EXTENDS TenantApi, TLAPS

-----------------------------------------------------------------------------
(***************************************************************************)
(* What the statements of the store do to the table.                       *)
(***************************************************************************)
\* r and s are versions of the same row: the columns that no statement writes
\* agree.
SameRow(r, s) == r.id = s.id /\ r.name = s.name /\ r.namespace = s.namespace

\* The unique columns: no two rows agree in any of them, deleted ones included.
NamesOwned ==
  \A r, s \in tenants :
    r.id = s.id \/ r.name = s.name \/ r.namespace = s.namespace => r = s

\* A statement that changes rows in place: no row is lost or made up, and a
\* deleted row is as it was.
Maintains ==
  /\ tenants' \subseteq TenantRow
  /\ \A r \in tenants : \E s \in tenants' : SameRow(r, s) /\ (r.deleted => s = r)
  /\ \A s \in tenants' : \E r \in tenants : SameRow(r, s) /\ (r.deleted => s = r)
  /\ NamesOwned => NamesOwned'
  /\ members' = members

\* Any function on rows that keeps the unique columns and the deleted rows.
LEMMA InPlace ==
  ASSUME NEW f, tenants' = {f[r] : r \in tenants}, members' = members,
         \A r \in tenants : /\ f[r] \in TenantRow
                            /\ SameRow(r, f[r])
                            /\ r.deleted => f[r] = r
  PROVE  Maintains
<1>1. tenants' \subseteq TenantRow
  OBVIOUS
<1>2. \A r \in tenants : \E s \in tenants' : SameRow(r, s) /\ (r.deleted => s = r)
  OBVIOUS
<1>3. \A s \in tenants' : \E r \in tenants : SameRow(r, s) /\ (r.deleted => s = r)
  OBVIOUS
<1>4. ASSUME NamesOwned, NEW s \in tenants', NEW u \in tenants',
             s.id = u.id \/ s.name = u.name \/ s.namespace = u.namespace
      PROVE  s = u
  <2>1. PICK q \in tenants : s = f[q]
    OBVIOUS
  <2>2. PICK r \in tenants : u = f[r]
    OBVIOUS
  <2>3. q.id = r.id \/ q.name = r.name \/ q.namespace = r.namespace
    BY <1>4, <2>1, <2>2 DEF SameRow
  <2>4. q = r
    BY <1>4, <2>3 DEF NamesOwned
  <2>5. QED
    BY <2>1, <2>2, <2>4
<1>5. NamesOwned => NamesOwned'
  BY <1>4 DEF NamesOwned
<1>6. QED
  BY <1>1, <1>2, <1>3, <1>5 DEF Maintains

\* The UPDATE changes the tier and the e-mail address of live rows only.
LEMMA UpdateMaintains ==
  ASSUME StoreTypeOK, NEW t, t.tier \in TierValues, t.email \in Emails,
         UpdateTenant(t)
  PROVE  Maintains
<1> DEFINE W(r) == [r EXCEPT !.tier = t.tier, !.ownerEmail = t.email]
           f == [r \in tenants |-> IF r.id = t.uid /\ ~r.deleted THEN W(r) ELSE r]
<1>1. tenants' = {f[r] : r \in tenants} /\ members' = members
  BY DEF UpdateTenant
<1>2. \A r \in tenants : r \in TenantRow
  BY DEF StoreTypeOK
<1>3. \A r \in TenantRow : W(r) \in TenantRow /\ SameRow(r, W(r))
  BY DEF TenantRow, SameRow
<1>4. \A r \in tenants : /\ f[r] \in TenantRow
                         /\ SameRow(r, f[r])
                         /\ r.deleted => f[r] = r
  BY <1>2, <1>3 DEF SameRow
<1> HIDE DEF f
<1>5. QED
  BY <1>1, <1>4, InPlace

\* The soft delete changes nothing but deleted_at, of the live row only.
LEMMA DeleteMaintains ==
  ASSUME StoreTypeOK, NEW id, DeleteTenant(id)
  PROVE  Maintains /\ GetTenantByID(id)' = {}
<1> DEFINE W(r) == [r EXCEPT !.deleted = TRUE]
           f == [r \in tenants |-> IF r.id = id /\ ~r.deleted THEN W(r) ELSE r]
<1>1. tenants' = {f[r] : r \in tenants} /\ members' = members
  BY DEF DeleteTenant
<1>2. \A r \in tenants : r \in TenantRow
  BY DEF StoreTypeOK
<1>3. \A r \in TenantRow : /\ W(r) \in TenantRow /\ SameRow(r, W(r))
                           /\ W(r).deleted
  BY DEF TenantRow, SameRow
<1>4. \A r \in tenants : /\ f[r] \in TenantRow
                         /\ SameRow(r, f[r])
                         /\ r.deleted => f[r] = r
  BY <1>2, <1>3 DEF SameRow
<1>5. \A r \in tenants : f[r].id = id => f[r].deleted
  BY <1>2, <1>3 DEF SameRow
<1> HIDE DEF f
<1>6. GetTenantByID(id)' = {}
  BY <1>1, <1>5 DEF GetTenantByID
<1>7. QED
  BY <1>1, <1>4, <1>6, InPlace

\* The INSERT adds at most one row, whose unique columns are all new.
LEMMA CreateAdds ==
  ASSUME NEW t, CreateTenant(t), NamesOwned
  PROVE  /\ tenants \subseteq tenants' /\ tenants' \subseteq tenants \cup {Row(t)}
         /\ NamesOwned'
         /\ members' = members
         /\ Row(t) \in tenants' \/ \E r \in tenants : r.name = t.specName
<1>1. CASE NameTaken(t)
  BY <1>1 DEF CreateTenant, NamesOwned, NameTaken
<1>2. CASE ~NameTaken(t)
  <2>1. tenants' = tenants \cup {Row(t)} /\ members' = members /\ ~KeyTaken(t)
    BY <1>2 DEF CreateTenant, UniqueViolation
  <2>2. \A r \in tenants : /\ r.id # Row(t).id /\ r.name # Row(t).name
                           /\ r.namespace # Row(t).namespace
    BY <1>2, <2>1 DEF NameTaken, KeyTaken, Row
  <2>3. NamesOwned'
    BY <2>1, <2>2 DEF NamesOwned
  <2>4. QED
    BY <2>1, <2>3
<1>3. QED
  BY <1>1, <1>2

-----------------------------------------------------------------------------
(***************************************************************************)
(* The inductive invariant.  A fresh id is new to every table, which keeps *)
(* a POST from bringing back what a DELETE was answered 204 for, and makes *)
(* the owner of a name that is taken an earlier tenant.                    *)
(***************************************************************************)
RowsIssued == \A r \in tenants : r.id \in 1..issued

NamesHeld ==
  \A a \in answered : \E r \in tenants : r.name = a.name /\ r.id <= a.id

Inv == /\ TypeOK
       /\ RowsIssued
       /\ NamesOwned
       /\ NamesHeld
       /\ DeletedStaysGone
       /\ MembersSound

\* A request between two statements is one of the two kinds.
LEMMA CallType ==
  ASSUME TypeOK, NEW c \in Clients
  PROVE  /\ call[c].op = "update" => call[c] \in UpdateCall
         /\ call[c].op = "addMember" => call[c] \in MemberCall
<1>1. call[c] \in {Idle} \cup UpdateCall \cup MemberCall
  BY DEF TypeOK
<1>2. QED
  BY <1>1 DEF Idle, UpdateCall, MemberCall

\* The table changes in place, the rest of the store does not change.
LEMMA InPlaceStep ==
  ASSUME Inv, Maintains, UNCHANGED <<issued, answered, deleted>>
  PROVE  RowsIssued' /\ NamesOwned' /\ NamesHeld' /\ DeletedStaysGone' /\ MembersSound'
<1>1. RowsIssued'
  BY DEF Inv, Maintains, RowsIssued, SameRow
<1>2. NamesOwned' /\ NamesHeld'
  BY DEF Inv, Maintains, NamesHeld, SameRow
<1>3. DeletedStaysGone'
  <2>1. ASSUME NEW id \in deleted, NEW s \in tenants', s.id = id PROVE s.deleted
    <3>1. PICK r \in tenants : SameRow(r, s) /\ (r.deleted => s = r)
      BY DEF Maintains
    <3>2. r.id = id
      BY <2>1, <3>1 DEF SameRow
    <3>3. r.deleted
      BY <3>2 DEF Inv, DeletedStaysGone, GetTenantByID
    <3>4. QED
      BY <3>1, <3>3
  <2>2. QED
    BY <2>1 DEF DeletedStaysGone, GetTenantByID, ListTenants
<1>4. MembersSound'
  <2>1. \A i : TenantRowExists(i) => TenantRowExists(i)'
    BY DEF Maintains, TenantRowExists, SameRow
  <2>2. QED
    BY <2>1 DEF Inv, Maintains, MembersSound, ListMembers
<1>5. QED
  BY <1>1, <1>2, <1>3, <1>4

\* Every step keeps the types and the invariant.
LEMMA InvStep == Inv /\ [Next]_vars => Inv'
<1> SUFFICES ASSUME Inv, [Next]_vars PROVE Inv'
  OBVIOUS
<1>0. TypeOK /\ issued \in Nat /\ StoreTypeOK
  BY DEF Inv, TypeOK, StoreTypeOK
<1>a. ASSUME NEW c \in Clients, NEW x \in {Idle} \cup UpdateCall \cup MemberCall,
             call' = [call EXCEPT ![c] = x]
      PROVE  call' \in [Clients -> {Idle} \cup UpdateCall \cup MemberCall]
  BY <1>0, <1>a DEF TypeOK
<1>b. ASSUME UNCHANGED <<storeVars, answered, deleted>>,
             call' \in [Clients -> {Idle} \cup UpdateCall \cup MemberCall]
      PROVE  Inv'
  <2>1. TypeOK'
    BY <1>0, <1>b DEF TypeOK, StoreTypeOK, storeVars
  <2>2. RowsIssued' /\ NamesOwned' /\ NamesHeld' /\ DeletedStaysGone'
    BY <1>b DEF Inv, RowsIssued, NamesOwned, NamesHeld, DeletedStaysGone, GetTenantByID,
       ListTenants, storeVars
  <2>3. MembersSound'
    BY <1>b DEF Inv, MembersSound, TenantRowExists, ListMembers, storeVars
  <2>4. QED
    BY <2>1, <2>2, <2>3 DEF Inv
<1>1. CASE UNCHANGED vars
  BY <1>0, <1>1, <1>b DEF vars, apiVars, TypeOK
<1>2. ASSUME NEW c \in Clients, NEW n \in SpecNames, NEW t \in TierValues,
             NEW e \in Emails, HandleCreateTenant(c, n, t, e)
      PROVE  Inv'
  <2> DEFINE T == NewTenant(n, t, e)
  <2>1. /\ issued' = issued + 1 /\ UNCHANGED <<call, deleted>>
        /\ \/ /\ CreateTenant(T)
              /\ answered' = answered \cup {[id |-> issued + 1, name |-> n]}
           \/ UNCHANGED <<tenants, members, answered>>
    BY <1>2 DEF HandleCreateTenant, FreshId
  <2>2. Row(T).id = issued + 1 /\ Row(T) \in TenantRow
    BY <1>0, SpecNamesAssumption DEF NewTenant, Row, TenantRow, FreshId
  <2>3. /\ tenants \subseteq tenants' /\ tenants' \subseteq tenants \cup {Row(T)}
        /\ NamesOwned' /\ members' = members
    <3>1. CASE CreateTenant(T)
      BY <3>1, CreateAdds DEF Inv
    <3>2. CASE UNCHANGED <<tenants, members, answered>>
      BY <3>2 DEF Inv, NamesOwned
    <3>3. QED
      BY <2>1, <3>1, <3>2
  <2>4. TypeOK'
    <3>1. 1..issued \subseteq (1..issued)' /\ issued + 1 \in (1..issued)'
      BY <1>0, <2>1
    <3>2. /\ answered' \subseteq [id : (1..issued)', name : SpecNames]
          /\ deleted' \subseteq (1..issued)'
      BY <1>0, <2>1, <3>1 DEF TypeOK
    <3>3. StoreTypeOK'
      BY <1>0, <2>1, <2>2, <2>3 DEF StoreTypeOK
    <3>4. QED
      BY <1>0, <2>1, <3>2, <3>3 DEF TypeOK
  <2>5. RowsIssued'
    BY <1>0, <2>1, <2>2, <2>3 DEF Inv, RowsIssued
  <2>6. DeletedStaysGone'
    <3>1. \A id \in deleted : id # Row(T).id
      BY <1>0, <2>2 DEF TypeOK
    <3>2. QED
      BY <2>1, <2>3, <3>1 DEF Inv, DeletedStaysGone, GetTenantByID, ListTenants
  <2>7. MembersSound'
    BY <2>3 DEF Inv, MembersSound, TenantRowExists, ListMembers
  <2>8. NamesHeld'
    <3>1. \A a \in answered : \E r \in tenants' : r.name = a.name /\ r.id <= a.id
      BY <2>3 DEF Inv, NamesHeld
    <3>2. CASE CreateTenant(T)
      <4>1. Row(T) \in tenants' \/ \E r \in tenants : r.name = T.specName
        BY <3>2, CreateAdds DEF Inv
      <4>2. T.specName = n /\ Row(T).name = n
        BY DEF NewTenant, Row
      <4>3. \A r \in tenants : r.id <= issued + 1
        BY <1>0 DEF Inv, RowsIssued
      <4>4. Row(T).id <= issued + 1
        BY <1>0, <2>2
      <4> HIDE DEF T
      <4>5. \E r \in tenants' : r.name = n /\ r.id <= issued + 1
        BY <2>3, <4>1, <4>2, <4>3, <4>4
      <4>6. answered' \subseteq answered \cup {[id |-> issued + 1, name |-> n]}
        BY <2>1
      <4>7. QED
        BY <3>1, <4>5, <4>6 DEF NamesHeld
    <3>3. CASE UNCHANGED <<tenants, members, answered>>
      BY <3>1, <3>3 DEF NamesHeld
    <3>4. QED
      BY <2>1, <3>2, <3>3
  <2>9. QED
    BY <2>3, <2>4, <2>5, <2>6, <2>7, <2>8 DEF Inv
<1>3. ASSUME NEW c \in Clients, NEW id \in 1..issued,
             NEW t \in TierValues \cup {Keep}, NEW e \in Emails \cup {Keep},
             HandleUpdateTenantRead(c, id, t, e)
      PROVE  Inv'
  <2>1. PICK r \in tenants :
          call' = [call EXCEPT ![c] = [op |-> "update", uid |-> id,
                                       tier |-> Overlay(t, r.tier),
                                       email |-> Overlay(e, r.ownerEmail)]]
    BY <1>3 DEF HandleUpdateTenantRead, GetTenantByID
  <2>2. r.tier \in TierValues /\ r.ownerEmail \in Emails /\ id \in Nat
    BY <1>0 DEF StoreTypeOK, TenantRow
  <2>3. [op |-> "update", uid |-> id, tier |-> Overlay(t, r.tier),
         email |-> Overlay(e, r.ownerEmail)] \in UpdateCall
    BY <2>2 DEF UpdateCall, Overlay
  <2>4. QED
    BY <1>3, <1>a, <1>b, <2>1, <2>3 DEF HandleUpdateTenantRead
<1>4. ASSUME NEW c \in Clients, HandleUpdateTenantWrite(c) PROVE Inv'
  <2>1. call[c] \in UpdateCall /\ UpdateTenant(call[c])
    BY <1>0, <1>4, CallType DEF HandleUpdateTenantWrite
  <2>2. call[c].tier \in TierValues /\ call[c].email \in Emails
    BY <2>1 DEF UpdateCall
  <2>3. Maintains
    BY <1>0, <2>1, <2>2, UpdateMaintains
  <2>4. call' \in [Clients -> {Idle} \cup UpdateCall \cup MemberCall]
    BY <1>4, <1>a DEF HandleUpdateTenantWrite
  <2>5. UNCHANGED <<issued, answered, deleted>>
    BY <1>4 DEF HandleUpdateTenantWrite
  <2>6. TypeOK'
    BY <1>0, <2>3, <2>4, <2>5 DEF TypeOK, StoreTypeOK, Maintains
  <2>7. QED
    BY <2>3, <2>5, <2>6, InPlaceStep DEF Inv
<1>5. ASSUME NEW c \in Clients, NEW id \in 1..issued, HandleDeleteTenant(c, id)
      PROVE  Inv'
  <2>1. /\ DeleteTenant(id) /\ deleted' = deleted \cup {id}
        /\ UNCHANGED <<issued, call, answered>>
    BY <1>5 DEF HandleDeleteTenant
  <2>2. Maintains /\ GetTenantByID(id)' = {}
    BY <1>0, <2>1, DeleteMaintains
  <2>3. TypeOK'
    BY <1>0, <2>1, <2>2 DEF TypeOK, StoreTypeOK, Maintains
  <2>4. RowsIssued' /\ NamesOwned' /\ NamesHeld' /\ MembersSound'
    <3>1. RowsIssued'
      BY <2>1, <2>2 DEF Inv, Maintains, RowsIssued, SameRow
    <3>2. \A i : TenantRowExists(i) => TenantRowExists(i)'
      BY <2>2 DEF Maintains, TenantRowExists, SameRow
    <3>3. NamesHeld'
      BY <2>1, <2>2 DEF Inv, Maintains, NamesHeld, SameRow
    <3>4. QED
      BY <2>2, <3>1, <3>2, <3>3 DEF Inv, Maintains, MembersSound, ListMembers
  <2>5. DeletedStaysGone'
    <3>1. ASSUME NEW i \in deleted, NEW s \in tenants', s.id = i PROVE s.deleted
      <4>1. PICK r \in tenants : SameRow(r, s) /\ (r.deleted => s = r)
        BY <2>2 DEF Maintains
      <4>2. r.deleted
        BY <3>1, <4>1 DEF Inv, DeletedStaysGone, GetTenantByID, SameRow
      <4>3. QED
        BY <4>1, <4>2
    <3>2. \A s \in tenants' : s.id = id => s.deleted
      BY <2>2 DEF GetTenantByID
    <3>3. QED
      BY <2>1, <3>1, <3>2 DEF DeletedStaysGone, GetTenantByID, ListTenants
  <2>6. QED
    BY <2>3, <2>4, <2>5 DEF Inv
<1>6. ASSUME NEW c \in Clients, NEW id \in 1..issued, NEW u \in Users,
             NEW r \in Roles, HandleAddMemberRead(c, id, u, r)
      PROVE  Inv'
  <2>1. [op |-> "addMember", id |-> id, user |-> u, role |-> r] \in MemberCall
    BY <1>0 DEF MemberCall
  <2>2. QED
    BY <1>6, <1>a, <1>b, <2>1 DEF HandleAddMemberRead
<1>7. ASSUME NEW c \in Clients, HandleAddMemberWrite(c) PROVE Inv'
  <2> DEFINE x == call[c]
             m == [tenantId |-> x.id, userId |-> x.user, role |-> x.role]
  <2>1. /\ x \in MemberCall /\ TenantRowExists(x.id)
        /\ members' = {y \in members : ~SameMember(y, x.id, x.user)} \cup {m}
        /\ UNCHANGED <<tenants, issued, answered, deleted>>
    BY <1>0, <1>7, CallType DEF HandleAddMemberWrite, AddMember
  <2>2. m \in MemberRow
    BY <2>1 DEF MemberCall, MemberRow
  <2>3. call' \in [Clients -> {Idle} \cup UpdateCall \cup MemberCall]
    BY <1>7, <1>a DEF HandleAddMemberWrite
  <2>4. TypeOK'
    BY <1>0, <2>1, <2>2, <2>3 DEF TypeOK, StoreTypeOK
  <2>5. RowsIssued' /\ NamesOwned' /\ NamesHeld' /\ DeletedStaysGone'
    BY <2>1 DEF Inv, RowsIssued, NamesOwned, NamesHeld, DeletedStaysGone, GetTenantByID,
       ListTenants
  <2>6. MembersSound'
    <3>1. m.tenantId = x.id /\ m.userId = x.user
      OBVIOUS
    <3> HIDE DEF m, x
    <3>2. QED
      BY <2>1, <3>1 DEF Inv, MembersSound, TenantRowExists, ListMembers, SameMember
  <2>7. QED
    BY <2>4, <2>5, <2>6 DEF Inv
<1>8. ASSUME NEW c \in Clients, NEW id \in 1..issued, NEW u \in Users,
             HandleRemoveMember(c, id, u)
      PROVE  Inv'
  <2>1. /\ members' \subseteq members
        /\ UNCHANGED <<tenants, issued, call, answered, deleted>>
    BY <1>8 DEF HandleRemoveMember, RemoveMember, apiVars
  <2>2. TypeOK'
    BY <1>0, <2>1 DEF TypeOK, StoreTypeOK
  <2>3. RowsIssued' /\ NamesOwned' /\ NamesHeld' /\ DeletedStaysGone'
    BY <2>1 DEF Inv, RowsIssued, NamesOwned, NamesHeld, DeletedStaysGone, GetTenantByID,
       ListTenants
  <2>4. MembersSound'
    BY <2>1 DEF Inv, MembersSound, TenantRowExists, ListMembers
  <2>5. QED
    BY <2>2, <2>3, <2>4 DEF Inv
<1>9. ASSUME NEW c \in Clients, Abandon(c) PROVE Inv'
  BY <1>9, <1>a, <1>b DEF Abandon
<1>10. QED
  BY <1>1, <1>2, <1>3, <1>4, <1>5, <1>6, <1>7, <1>8, <1>9 DEF Next

\* The inductive invariant holds in every reachable state.
LEMMA Invariance == Spec => []Inv
<1>1. Init => Inv
  BY DEF Init, StoreInit, Inv, TypeOK, StoreTypeOK, RowsIssued, NamesOwned,
     NamesHeld, DeletedStaysGone, MembersSound
<1>2. Inv /\ [Next]_vars => Inv'
  BY InvStep
<1>3. QED
  BY <1>1, <1>2, PTL DEF Spec

-----------------------------------------------------------------------------
(***************************************************************************)
(* The results.                                                            *)
(***************************************************************************)
\* Every reachable state is well typed: whatever requests overlap, a request
\* between its two statements holds a complete tenant or member to write, and no
\* request is answered for an id that was never generated.
THEOREM ApiTypeCorrect == Spec => []TypeOK
<1>1. Inv => TypeOK
  BY DEF Inv
<1>2. QED
  BY <1>1, Invariance, PTL

\* For any number of concurrent requests, a tenant whose DELETE was answered 204
\* is found by neither GET nor the list again.
THEOREM NoResurrection == Spec => []DeletedStaysGone
<1>1. Inv => DeletedStaysGone
  BY DEF Inv
<1>2. QED
  BY <1>1, Invariance, PTL

\* For any number of concurrent requests, every member row has its tenant row
\* and is the only one of its tenant and user.
THEOREM MembersConsistent == Spec => []MembersSound
<1>1. Inv => MembersSound
  BY DEF Inv
<1>2. QED
  BY <1>1, Invariance, PTL

\* For any number of concurrent requests, the name of a tenant answered 201 belongs
\* to that tenant or an earlier one for good: what a later POST of the same name
\* was answered with never comes to be a row.
THEOREM FirstOwnerKept == Spec => []FirstOwnerStays
<1>1. Inv => FirstOwnerStays
  BY DEF Inv, NamesHeld, NamesOwned, FirstOwnerStays
<1>2. QED
  BY <1>1, Invariance, PTL

\* No request changes a row that is deleted already, a PUT that had read it
\* while it was live included.
THEOREM DeletedRowsStay == Spec => DeletedRowsFrozen
<1>1. Inv /\ [Next]_vars =>
        [\A r \in tenants : r.deleted => r \in tenants']_vars
  <2> SUFFICES ASSUME Inv, Next
               PROVE  \A r \in tenants : r.deleted => r \in tenants'
    OBVIOUS
  <2>0. StoreTypeOK /\ TypeOK
    BY DEF Inv, TypeOK
  <2>1. CASE Maintains
    BY <2>1 DEF Maintains
  <2>2. CASE tenants \subseteq tenants'
    BY <2>2
  <2>3. PICK c \in Clients :
          \/ \E n \in SpecNames, t \in TierValues, e \in Emails :
               HandleCreateTenant(c, n, t, e)
          \/ HandleUpdateTenantWrite(c)
          \/ \E id \in 1..issued : HandleDeleteTenant(c, id)
          \/ UNCHANGED tenants
    BY DEF Next, HandleUpdateTenantRead, HandleAddMemberRead,
       HandleAddMemberWrite, AddMember, HandleRemoveMember, RemoveMember, Abandon,
       storeVars
  <2>4. ASSUME NEW n \in SpecNames, NEW t \in TierValues, NEW e \in Emails,
               HandleCreateTenant(c, n, t, e)
        PROVE  tenants \subseteq tenants'
    BY <2>4, CreateAdds DEF Inv, HandleCreateTenant
  <2>5. CASE HandleUpdateTenantWrite(c)
    <3>1. call[c] \in UpdateCall /\ UpdateTenant(call[c])
      BY <2>0, <2>5, CallType DEF HandleUpdateTenantWrite
    <3>2. call[c].tier \in TierValues /\ call[c].email \in Emails
      BY <3>1 DEF UpdateCall
    <3>3. QED
      BY <2>0, <2>1, <3>1, <3>2, UpdateMaintains
  <2>6. ASSUME NEW id \in 1..issued, HandleDeleteTenant(c, id) PROVE Maintains
    BY <2>0, <2>6, DeleteMaintains DEF HandleDeleteTenant
  <2>7. QED
    BY <2>1, <2>2, <2>3, <2>4, <2>5, <2>6
<1>2. QED
  BY <1>1, Invariance, PTL DEF Spec, DeletedRowsFrozen

=============================================================================
