------------------------- MODULE MembershipsProofs --------------------------
(***************************************************************************)
(* TLAPS proofs about Memberships, for any users, roles and number of      *)
(* concurrent requests.                                                    *)
(***************************************************************************)
EXTENDS Memberships, TLAPS

(* Two transactions never hold the tenant, so they never hold a membership *)
(* for update either.                                                      *)
TenantExclusive ==
  \A r, s \in Requests : HoldsTenant(r) /\ HoldsTenant(s) => r = s

(* A membership is locked by one transaction at a time.                    *)
MembershipExclusive ==
  \A r, s \in Requests :
    \A u \in Users : HoldsMembership(r, u) /\ HoldsMembership(s, u) => r = s

(* No role is given by one transaction and deleted by another.             *)
RoleExclusive ==
  \A r, s \in Requests : \A c \in Custom : GivesRole(r, c) => ~DeletesRole(s, c)

(* The foreign key of memberships.                                         *)
RolesOfMembers == \A u \in Users : status[u] # "absent" => role[u] \in tenantRoles

(* What a transaction was asked to do.                                     *)
RequestType(r) ==
  /\ pc[r] \in Updating \cup Accepting => req[r] \in Changes
  /\ pc[r] \in Deleting => req[r] \in Deletions
  /\ pc[r] \in Accepting => req[r].role \notin Custom

(* What a transaction has found stays true while it holds its locks.       *)
RequestInv(r) ==
  /\ pc[r] \in Updating => status[req[r].user] # "absent"
  /\ pc[r] \in {"membership", "checked", "persisted"} => seen[r] = role[req[r].user]
  /\ pc[r] = "joining" => status[req[r].user] = "inactive"
  /\ pc[r] \in {"checked", "persisted"} /\ RemovesAdministrator(r) => OthersRemain(r)
  /\ pc[r] = "persisted" => RevisionMatches(r) /\ req[r].role \in tenantRoles
  /\ pc[r] = "unreferenced" => \A u \in Users : ~Names(u, req[r].role)

(* The inductive invariant.                                                *)
IInv ==
  /\ TypeOK
  /\ TenantExclusive
  /\ MembershipExclusive
  /\ RoleExclusive
  /\ RolesOfMembers
  /\ \A r \in Requests : RequestType(r) /\ RequestInv(r)
  /\ AdministratorRemains

(* A step of one transaction that writes no row keeps what the others      *)
(* know.                                                                   *)
LEMMA OthersUndisturbed ==
  ASSUME IInv, UNCHANGED rows, NEW s \in Requests,
         pc'[s] = pc[s], req'[s] = req[s], seen'[s] = seen[s]
  PROVE  RequestInv(s)'
  BY DEF IInv, RequestInv, RemovesAdministrator, OthersRemain,
         ActiveAdministrator, RevisionMatches, Names, rows, memberships

(* Nor does a step change what another transaction was asked to do.        *)
LEMMA OthersTyped ==
  ASSUME IInv, NEW s \in Requests, pc'[s] = pc[s], req'[s] = req[s]
  PROVE  RequestType(s)'
  BY DEF IInv, RequestType

(* The tenant stays exclusive while nobody new comes to hold it.           *)
LEMMA NoNewHolder ==
  ASSUME TenantExclusive, \A s \in Requests : HoldsTenant(s)' => HoldsTenant(s)
  PROVE  TenantExclusive'
  BY DEF TenantExclusive

(* The same of the memberships.                                            *)
LEMMA NoNewMembershipHolder ==
  ASSUME MembershipExclusive,
         \A s \in Requests, u \in Users :
           HoldsMembership(s, u)' => HoldsMembership(s, u)
  PROVE  MembershipExclusive'
  BY DEF MembershipExclusive

(* The same of the roles.                                                  *)
LEMMA NoNewRoleHolder ==
  ASSUME RoleExclusive,
         \A s \in Requests, c \in Custom :
           /\ GivesRole(s, c)' => GivesRole(s, c)
           /\ DeletesRole(s, c)' => DeletesRole(s, c)
  PROVE  RoleExclusive'
  BY DEF RoleExclusive

(* A step that writes no row keeps the properties of the rows.             *)
LEMMA RowsKept ==
  ASSUME IInv, UNCHANGED rows
  PROVE  AdministratorRemains' /\ RolesOfMembers'
  BY DEF IInv, AdministratorRemains, RolesOfMembers, ActiveAdministrator, rows, memberships

(* The end of a transaction: it holds no lock, and knows nothing.          *)
LEMMA EndKeeps ==
  ASSUME IInv, NEW r \in Requests, End(r)
  PROVE  /\ \A s \in Requests \ {r} : pc'[s] = pc[s] /\ req'[s] = req[s] /\ seen'[s] = seen[s]
         /\ TenantExclusive' /\ MembershipExclusive' /\ RoleExclusive'
         /\ \A s \in Requests : RequestType(s)'
         /\ RequestInv(r)'
<1>1. \A s \in Requests \ {r} : pc'[s] = pc[s] /\ req'[s] = req[s] /\ seen'[s] = seen[s]
  BY DEF IInv, TypeOK, End, Goto
<1>2. pc'[r] = "idle"
  BY DEF IInv, TypeOK, End, Goto
<1>3. TenantExclusive'
  BY <1>1, <1>2, NoNewHolder DEF IInv, HoldsTenant, Updating
<1>4. MembershipExclusive'
  BY <1>1, <1>2, NoNewMembershipHolder DEF IInv, HoldsMembership
<1>5. RoleExclusive'
  <2>1. ASSUME NEW s \in Requests, NEW c \in Custom
        PROVE  /\ GivesRole(s, c)' => GivesRole(s, c)
               /\ DeletesRole(s, c)' => DeletesRole(s, c)
    BY <1>1, <1>2, <2>1 DEF GivesRole, DeletesRole, ChangesRole
  <2> QED
    BY <2>1, NoNewRoleHolder DEF IInv
<1>6. ASSUME NEW s \in Requests
      PROVE  RequestType(s)'
  <2>1. CASE s = r
    BY <1>2, <2>1 DEF RequestType, Updating, Accepting, Deleting
  <2> QED
    BY <1>1, <2>1, OthersTyped
<1>7. RequestInv(r)'
  BY <1>2 DEF RequestInv, Updating
<1> QED
  BY <1>1, <1>3, <1>4, <1>5, <1>6, <1>7

(* The end of a transaction without effect.                                *)
LEMMA RollbackKeeps ==
  ASSUME IInv, NEW r \in Requests, Rollback(r)
  PROVE  IInv'
<1>1. End(r) /\ UNCHANGED rows
  BY DEF Rollback
<1>2. TypeOK'
  BY <1>1 DEF IInv, TypeOK, End, Goto, rows, memberships
<1>3. ASSUME NEW s \in Requests
      PROVE  RequestInv(s)'
  <2>1. CASE s = r
    BY <1>1, <2>1, EndKeeps
  <2>2. CASE s # r
    BY <1>1, <2>2, EndKeeps, OthersUndisturbed
  <2> QED
    BY <2>1, <2>2
<1> QED
  BY <1>1, <1>2, <1>3, EndKeeps, RowsKept DEF IInv

(* A request arrives; one that accepts an invitation has it locked.        *)
LEMMA SubmitKeeps ==
  ASSUME IInv, NEW r \in Requests,
         \/ \E u \in Users : SubmitUpdate(r, u) \/ LockInvitation(r, u)
         \/ SubmitDeletion(r)
  PROVE  IInv'
<1>1. PICK o \in Changes \cup Deletions :
        /\ req' = [req EXCEPT ![r] = o]
        /\ \/ pc' = [pc EXCEPT ![r] = "submitted"] /\ o \in Changes /\ status[o.user] # "absent"
           \/ pc' = [pc EXCEPT ![r] = "invitation"] /\ o \in Changes /\ o.role \notin Custom
           \/ pc' = [pc EXCEPT ![r] = "deleting"] /\ o \in Deletions
  <2>1. CASE \E u \in Users : SubmitUpdate(r, u)
    <3>1. PICK u \in Users : SubmitUpdate(r, u)
      BY <2>1
    <3>2. PICK newRole \in tenantRoles, newStatus \in {"active", "inactive"} :
            req' = [req EXCEPT ![r] = [user |-> u, role |-> newRole,
                                       status |-> newStatus, revision |-> revision[u]]]
      BY <3>1 DEF SubmitUpdate
    <3> DEFINE o == [user |-> u, role |-> newRole, status |-> newStatus, revision |-> revision[u]]
    <3>3. o \in Changes /\ status[o.user] # "absent"
      BY <3>1, <3>2 DEF IInv, TypeOK, SubmitUpdate, Changes
    <3>4. req' = [req EXCEPT ![r] = o] /\ pc' = [pc EXCEPT ![r] = "submitted"]
      BY <3>1, <3>2 DEF SubmitUpdate, Goto
    <3> HIDE DEF o
    <3> QED
      BY <3>3, <3>4
  <2>2. CASE \E u \in Users : LockInvitation(r, u)
    <3>1. PICK u \in Users : LockInvitation(r, u)
      BY <2>2
    <3>2. PICK newRole \in Roles \ Custom :
            req' = [req EXCEPT ![r] = [user |-> u, role |-> newRole,
                                       status |-> "active", revision |-> 0]]
      BY <3>1 DEF LockInvitation
    <3> DEFINE o == [user |-> u, role |-> newRole, status |-> "active", revision |-> 0]
    <3>3. o \in Changes /\ o.role \notin Custom
      BY <3>2 DEF Changes
    <3>4. req' = [req EXCEPT ![r] = o] /\ pc' = [pc EXCEPT ![r] = "invitation"]
      BY <3>1, <3>2 DEF LockInvitation, Goto
    <3> HIDE DEF o
    <3> QED
      BY <3>3, <3>4
  <2>3. CASE SubmitDeletion(r)
    <3>1. PICK c \in Custom : req' = [req EXCEPT ![r] = [role |-> c]]
      BY <2>3 DEF SubmitDeletion
    <3> DEFINE o == [role |-> c]
    <3>2. o \in Deletions
      BY DEF Deletions
    <3>3. req' = [req EXCEPT ![r] = o] /\ pc' = [pc EXCEPT ![r] = "deleting"]
      BY <2>3, <3>1 DEF SubmitDeletion, Goto
    <3> HIDE DEF o
    <3> QED
      BY <3>2, <3>3
  <2> QED
    BY <2>1, <2>2, <2>3
<1>2. pc[r] = "idle" /\ UNCHANGED <<rows, seen>>
  BY DEF SubmitUpdate, LockInvitation, SubmitDeletion
<1>3. /\ \A s \in Requests \ {r} : pc'[s] = pc[s] /\ req'[s] = req[s] /\ seen'[s] = seen[s]
      /\ req'[r] = o /\ pc'[r] \in {"submitted", "invitation", "deleting"}
  BY <1>1, <1>2 DEF IInv, TypeOK
<1>4. TypeOK'
  BY <1>1, <1>2 DEF IInv, TypeOK, rows, memberships, Updating, Accepting, Deleting
<1>5. TenantExclusive'
  BY <1>3, NoNewHolder DEF IInv, HoldsTenant, Updating
<1>6. MembershipExclusive'
  BY <1>3, NoNewMembershipHolder DEF IInv, HoldsMembership
<1>7. RoleExclusive'
  <2>1. ASSUME NEW s \in Requests, NEW c \in Custom
        PROVE  /\ GivesRole(s, c)' => GivesRole(s, c)
               /\ DeletesRole(s, c)' => DeletesRole(s, c)
    BY <1>3, <2>1 DEF GivesRole, DeletesRole, ChangesRole
  <2> QED
    BY <2>1, NoNewRoleHolder DEF IInv
<1>8. ASSUME NEW s \in Requests
      PROVE  RequestType(s)' /\ RequestInv(s)'
  <2>1. CASE s = r
    BY <1>1, <1>2, <1>3, <2>1
    DEF IInv, TypeOK, RequestType, RequestInv, rows, memberships, Updating, Accepting, Deleting
  <2>2. CASE s # r
    BY <1>2, <1>3, <2>2, OthersUndisturbed, OthersTyped
  <2> QED
    BY <2>1, <2>2
<1> QED
  BY <1>2, <1>4, <1>5, <1>6, <1>7, <1>8, RowsKept DEF IInv

(* The statements of a transaction before its commit.                      *)
Statement(r) ==
  \/ LockTenant(r) \/ LockMembership(r) \/ PersistMembershipUpdate(r)
  \/ LockUser(r) \/ LockInactive(r) \/ DeleteRow(r) \/ FindNoMembership(r)
  \/ ProtectFinalAdministrator(r) /\ pc'[r] = "checked"

(* A statement moves its own transaction on.                               *)
LEMMA StatementMoves ==
  ASSUME IInv, NEW r \in Requests, Statement(r)
  PROVE  /\ UNCHANGED <<rows, req>> /\ TypeOK'
         /\ \A s \in Requests \ {r} : pc'[s] = pc[s] /\ req'[s] = req[s] /\ seen'[s] = seen[s]
         /\ \A s \in Requests : RequestType(s)'
         /\ \/ LockTenant(r) /\ pc[r] = "submitted" /\ pc'[r] = "tenant"
            \/ LockMembership(r) /\ pc[r] = "tenant" /\ pc'[r] = "membership"
            \/ PersistMembershipUpdate(r) /\ pc[r] = "checked" /\ pc'[r] = "persisted"
            \/ LockUser(r) /\ pc[r] = "invitation" /\ pc'[r] = "user"
            \/ LockInactive(r) /\ pc[r] = "user" /\ pc'[r] = "joining"
            \/ DeleteRow(r) /\ pc[r] = "deleting" /\ pc'[r] = "deleted"
            \/ FindNoMembership(r) /\ pc[r] = "deleted" /\ pc'[r] = "unreferenced"
            \/ /\ ProtectFinalAdministrator(r) /\ pc[r] = "membership" /\ pc'[r] = "checked"
               /\ RemovesAdministrator(r) => OthersRemain(r)
         /\ pc[r] # "tenant" => seen' = seen
<1>1. /\ UNCHANGED <<rows, req>>
      /\ \A s \in Requests \ {r} : pc'[s] = pc[s] /\ seen'[s] = seen[s]
      /\ pc[r] # "tenant" => seen' = seen
  BY DEF Statement, IInv, TypeOK, LockTenant, LockMembership, PersistMembershipUpdate,
         LockUser, LockInactive, DeleteRow, FindNoMembership,
         ProtectFinalAdministrator, Goto, Rollback, End
<1>2. \/ LockTenant(r) /\ pc[r] = "submitted" /\ pc'[r] = "tenant"
      \/ LockMembership(r) /\ pc[r] = "tenant" /\ pc'[r] = "membership"
      \/ PersistMembershipUpdate(r) /\ pc[r] = "checked" /\ pc'[r] = "persisted"
      \/ LockUser(r) /\ pc[r] = "invitation" /\ pc'[r] = "user"
      \/ LockInactive(r) /\ pc[r] = "user" /\ pc'[r] = "joining"
      \/ DeleteRow(r) /\ pc[r] = "deleting" /\ pc'[r] = "deleted"
      \/ FindNoMembership(r) /\ pc[r] = "deleted" /\ pc'[r] = "unreferenced"
      \/ /\ ProtectFinalAdministrator(r) /\ pc[r] = "membership" /\ pc'[r] = "checked"
         /\ RemovesAdministrator(r) => OthersRemain(r)
  BY DEF Statement, IInv, TypeOK, LockTenant, LockMembership, PersistMembershipUpdate,
         LockUser, LockInactive, DeleteRow, FindNoMembership,
         ProtectFinalAdministrator, Goto, Rollback, End
<1>3. TypeOK'
  <2>1. pc' \in [Requests -> {"idle"} \cup Updating \cup Accepting \cup Deleting]
    BY DEF Statement, IInv, TypeOK, LockTenant, LockMembership, PersistMembershipUpdate,
           LockUser, LockInactive, DeleteRow, FindNoMembership,
           ProtectFinalAdministrator, Goto, Rollback, End, Updating, Accepting, Deleting
  <2>2. seen' \in [Requests -> Roles \cup {NoRole}]
    <3>1. CASE LockMembership(r)
      <4>1. req[r].user \in Users
        BY <3>1 DEF IInv, RequestType, LockMembership, Updating, Changes
      <4> QED
        BY <3>1, <4>1 DEF IInv, TypeOK, LockMembership
    <3>2. CASE ~LockMembership(r)
      BY <1>1, <1>2, <3>2 DEF IInv, TypeOK
    <3> QED
      BY <3>1, <3>2
  <2> QED
    BY <1>1, <2>1, <2>2 DEF IInv, TypeOK, rows, memberships
<1>4. \A s \in Requests \ {r} : req'[s] = req[s]
  BY <1>1
<1>5. ASSUME NEW s \in Requests
      PROVE  RequestType(s)'
  <2>1. CASE s = r
    BY <1>1, <1>2, <2>1 DEF IInv, RequestType, Updating, Accepting, Deleting
  <2> QED
    BY <1>1, <1>4, <2>1, OthersTyped
<1> QED
  BY <1>1, <1>2, <1>3, <1>4, <1>5

(* A statement takes only a lock that is free, and what it finds is so.    *)
LEMMA StatementKeeps ==
  ASSUME IInv, NEW r \in Requests, Statement(r)
  PROVE  IInv'
<1>1. TenantExclusive'
  <2>1. CASE LockTenant(r)
    BY <2>1, StatementMoves DEF LockTenant, TenantFree, HoldsTenant, TenantExclusive
  <2>2. CASE ~LockTenant(r)
    BY <2>2, StatementMoves, NoNewHolder DEF IInv, HoldsTenant, Updating
  <2> QED
    BY <2>1, <2>2
<1>2. MembershipExclusive'
  <2>1. CASE LockMembership(r) \/ LockInactive(r)
    BY <2>1, StatementMoves DEF IInv, LockMembership, LockInactive, MembershipFree,
           HoldsMembership, MembershipExclusive
  <2>2. CASE ~LockMembership(r) /\ ~LockInactive(r)
    BY <2>2, StatementMoves, NoNewMembershipHolder DEF IInv, HoldsMembership
  <2> QED
    BY <2>1, <2>2
<1>3. RoleExclusive'
  <2>1. CASE PersistMembershipUpdate(r)
    <3>1. ASSUME NEW s \in Requests, NEW c \in Custom
          PROVE  /\ DeletesRole(s, c)' => DeletesRole(s, c)
                 /\ GivesRole(s, c)' => GivesRole(s, c) \/ \A q \in Requests : ~DeletesRole(q, c)
      BY <2>1, <3>1, StatementMoves
      DEF PersistMembershipUpdate, NotDeleted, GivesRole, DeletesRole, ChangesRole
    <3> QED
      BY <3>1 DEF IInv, RoleExclusive
  <2>2. CASE DeleteRow(r)
    <3>1. ASSUME NEW s \in Requests, NEW c \in Custom
          PROVE  /\ GivesRole(s, c)' => GivesRole(s, c)
                 /\ DeletesRole(s, c)' => DeletesRole(s, c) \/ \A q \in Requests : ~GivesRole(q, c)
      BY <2>2, <3>1, StatementMoves
      DEF DeleteRow, NotGiven, GivesRole, DeletesRole, ChangesRole
    <3> QED
      BY <3>1 DEF IInv, RoleExclusive
  <2>3. CASE ~PersistMembershipUpdate(r) /\ ~DeleteRow(r)
    <3>1. ASSUME NEW s \in Requests, NEW c \in Custom
          PROVE  /\ GivesRole(s, c)' => GivesRole(s, c)
                 /\ DeletesRole(s, c)' => DeletesRole(s, c)
      BY <2>3, <3>1, StatementMoves DEF GivesRole, DeletesRole, ChangesRole
    <3> QED
      BY <3>1, NoNewRoleHolder DEF IInv
  <2> QED
    BY <2>1, <2>2, <2>3
<1>4. ASSUME NEW s \in Requests
      PROVE  RequestInv(s)'
  <2>1. CASE s # r
    BY <2>1, StatementMoves, OthersUndisturbed
  <2>2. CASE s = r /\ LockMembership(r)
    <3>1. seen'[r] = role[req[r].user]
      BY <2>2 DEF IInv, TypeOK, LockMembership
    <3> QED
      BY <2>2, <3>1, StatementMoves
      DEF IInv, RequestInv, rows, memberships, Updating, LockMembership
  <2>3. CASE s = r /\ ~LockMembership(r)
    <3>1. UNCHANGED <<status, role, revision, tenantRoles, req, seen>>
      BY <2>3, StatementMoves DEF rows, memberships, LockTenant, PersistMembershipUpdate,
         LockUser, LockInactive, DeleteRow, FindNoMembership
    <3>2. PersistMembershipUpdate(r) => RevisionMatches(r) /\ req[r].role \in tenantRoles
      BY DEF PersistMembershipUpdate
    <3>3. FindNoMembership(r) => \A u \in Users : ~Names(u, req[r].role)
      BY DEF FindNoMembership
    <3>4. LockInactive(r) => status[req[r].user] = "inactive"
      BY DEF LockInactive
    <3>5. /\ (RemovesAdministrator(r) => OthersRemain(r)) => (RemovesAdministrator(r) => OthersRemain(r))'
          /\ RevisionMatches(r) => RevisionMatches(r)'
          /\ \A u \in Users : Names(u, req[r].role)' = Names(u, req[r].role)
      BY <3>1 DEF RemovesAdministrator, OthersRemain, ActiveAdministrator, RevisionMatches, Names
    <3> QED
      BY <2>3, <3>1, <3>2, <3>3, <3>4, <3>5, StatementMoves DEF IInv, RequestInv, Updating
  <2> QED
    BY <2>1, <2>2, <2>3
<1> QED
  BY <1>1, <1>2, <1>3, <1>4, StatementMoves, RowsKept DEF IInv

(* A commit of a membership keeps what the other transactions know: nobody *)
(* else holds the tenant or that membership, and nobody deletes the role.  *)
LEMMA OthersKept ==
  ASSUME IInv, NEW s \in Requests, NEW u \in Users,
         pc'[s] = pc[s], req'[s] = req[s], seen'[s] = seen[s],
         UNCHANGED tenantRoles,
         \A v \in Users \ {u} :
           status'[v] = status[v] /\ role'[v] = role[v] /\ revision'[v] = revision[v],
         status'[u] # "absent",
         ~HoldsTenant(s), pc[s] = "joining" => req[s].user # u,
         pc[s] = "unreferenced" => req[s].role # role'[u]
  PROVE  RequestInv(s)'
<1>1. pc[s] \in Updating \cup Accepting => req[s].user \in Users
  BY DEF IInv, RequestType, Changes
<1>2. pc[s] \in Updating => pc[s] = "submitted" /\ status'[req[s].user] # "absent"
  BY <1>1 DEF IInv, RequestInv, HoldsTenant, Updating
<1>3. pc[s] = "joining" => status'[req[s].user] = "inactive"
  BY <1>1 DEF IInv, RequestInv, Accepting
<1>4. pc[s] = "unreferenced" => \A v \in Users : ~Names(v, req[s].role)'
  BY DEF IInv, RequestInv, Names
<1> QED
  BY <1>2, <1>3, <1>4 DEF RequestInv, Updating

(* An acceptance changes a membership that is not active and that no       *)
(* update has locked.                                                      *)
LEMMA AcceptKeeps ==
  ASSUME IInv, NEW r \in Requests, Reactivate(r) \/ Insert(r)
  PROVE  IInv'
<1>1. /\ pc[r] \in {"user", "joining"} /\ req[r] \in Changes /\ req[r].role \notin Custom
      /\ Store(r, "active") /\ End(r) /\ TenantFree /\ UNCHANGED tenantRoles
      /\ status[req[r].user] # "active"
  BY DEF IInv, RequestType, RequestInv, Reactivate, Insert, Accepting
<1> PICK u \in Users : u = req[r].user
  BY <1>1 DEF Changes
<1>2. /\ \A v \in Users \ {u} :
           status'[v] = status[v] /\ role'[v] = role[v] /\ revision'[v] = revision[v]
      /\ status'[u] = "active" /\ role'[u] = req[r].role
  BY <1>1 DEF IInv, TypeOK, Store
<1>3. TypeOK'
  BY <1>1 DEF IInv, TypeOK, Store, End, Goto, Changes
<1>4. ASSUME NEW s \in Requests \ {r}
      PROVE  RequestInv(s)'
  <2>1. pc[s] = "joining" => req[s].user # u
    BY <1>1 DEF IInv, Reactivate, Insert, RequestInv, MembershipExclusive, HoldsMembership
  <2>2. pc[s] = "unreferenced" => req[s].role \in Custom
    BY DEF IInv, RequestType, Deleting, Deletions
  <2> QED
    BY <1>1, <1>2, <2>1, <2>2, EndKeeps, OthersKept DEF TenantFree
<1>5. AdministratorRemains'
  BY <1>1, <1>2 DEF IInv, AdministratorRemains, ActiveAdministrator
<1>6. RolesOfMembers'
  BY <1>1, <1>2 DEF IInv, TypeOK, RolesOfMembers, Changes
<1> QED
  BY <1>1, <1>3, <1>4, <1>5, <1>6, EndKeeps DEF IInv

(* An update writes what it checked: nobody else can have taken away the   *)
(* administrators it counted, as that needs the tenant.                    *)
LEMMA CommitKeeps ==
  ASSUME IInv, NEW r \in Requests, CommitUpdate(r)
  PROVE  IInv'
<1>1. /\ pc[r] = "persisted" /\ req[r] \in Changes /\ End(r) /\ UNCHANGED tenantRoles
      /\ Store(r, req[r].status) /\ seen[r] = role[req[r].user]
      /\ req[r].role \in tenantRoles /\ status[req[r].user] # "absent"
      /\ RemovesAdministrator(r) => OthersRemain(r)
  BY DEF IInv, RequestType, RequestInv, CommitUpdate, Updating
<1> PICK u \in Users : u = req[r].user
  BY <1>1 DEF Changes
<1>2. /\ \A v \in Users \ {u} :
           status'[v] = status[v] /\ role'[v] = role[v] /\ revision'[v] = revision[v]
      /\ status'[u] = req[r].status /\ role'[u] = req[r].role
      /\ status'[u] \in {"active", "inactive"}
  BY <1>1 DEF IInv, TypeOK, Store, Changes
<1>3. TypeOK'
  BY <1>1 DEF IInv, TypeOK, Store, End, Goto, Changes
<1>4. ASSUME NEW s \in Requests \ {r}
      PROVE  RequestInv(s)'
  <2>1. ~HoldsTenant(s) /\ (pc[s] = "joining" => req[s].user # u)
    BY <1>1 DEF IInv, TenantExclusive, HoldsTenant, Updating, MembershipExclusive, HoldsMembership
  <2>2. ASSUME pc[s] = "unreferenced", req[s].role = req[r].role
        PROVE  FALSE
    <3>1. req[s].role \in Custom /\ DeletesRole(s, req[s].role)
      BY <2>2 DEF IInv, RequestType, Deleting, Deletions, DeletesRole
    <3>2. ~GivesRole(r, req[r].role)
      BY <2>2, <3>1 DEF IInv, RoleExclusive
    <3>3. role[u] = req[s].role
      BY <1>1, <2>2, <3>2 DEF GivesRole, ChangesRole
    <3> QED
      BY <1>1, <2>2, <3>3 DEF IInv, RequestInv, Names
  <2> QED
    BY <1>1, <1>2, <2>1, <2>2, EndKeeps, OthersKept
<1>5. AdministratorRemains'
  <2>1. CASE ActiveAdministrator(u) /\ RemovesAdministrator(r)
    BY <1>1, <1>2, <2>1 DEF OthersRemain, AdministratorRemains, ActiveAdministrator
  <2>2. CASE ActiveAdministrator(u) /\ ~RemovesAdministrator(r)
    BY <1>1, <1>2, <2>2 DEF RemovesAdministrator, AdministratorRemains, ActiveAdministrator
  <2>3. CASE ~ActiveAdministrator(u)
    BY <1>2, <2>3 DEF IInv, AdministratorRemains, ActiveAdministrator
  <2> QED
    BY <2>1, <2>2, <2>3
<1>6. RolesOfMembers'
  BY <1>1, <1>2 DEF IInv, RolesOfMembers
<1> QED
  BY <1>1, <1>3, <1>4, <1>5, <1>6, EndKeeps DEF IInv

(* A role is deleted that no membership has, and none is being given.      *)
LEMMA DeletionKeeps ==
  ASSUME IInv, NEW r \in Requests, CommitDeletion(r)
  PROVE  IInv'
<1>1. /\ pc[r] = "unreferenced" /\ req[r] \in Deletions /\ End(r) /\ UNCHANGED memberships
      /\ tenantRoles' = tenantRoles \ {req[r].role}
      /\ \A u \in Users : ~Names(u, req[r].role)
  BY DEF IInv, RequestType, RequestInv, CommitDeletion, Deleting
<1> PICK c \in Custom : c = req[r].role
  BY <1>1 DEF Deletions
<1>2. TypeOK'
  BY <1>1 DEF IInv, TypeOK, End, Goto, memberships
<1>3. ASSUME NEW s \in Requests \ {r}
      PROVE  RequestInv(s)'
  <2>1. pc'[s] = pc[s] /\ req'[s] = req[s] /\ seen'[s] = seen[s]
    BY <1>1, EndKeeps
  <2>2. ASSUME pc[s] = "persisted"
        PROVE  req[s].role # c
    <3>1. ~GivesRole(s, c)
      BY <1>1 DEF IInv, RoleExclusive, DeletesRole
    <3>2. /\ req[s].user \in Users /\ status[req[s].user] # "absent"
          /\ seen[s] = role[req[s].user]
      BY <2>2 DEF IInv, RequestType, RequestInv, Updating, Changes
    <3> QED
      BY <1>1, <2>2, <3>1, <3>2 DEF GivesRole, ChangesRole, Names
  <2> QED
    BY <1>1, <2>1, <2>2 DEF IInv, RequestInv, RemovesAdministrator, OthersRemain,
       ActiveAdministrator, RevisionMatches, Names, memberships
<1>4. AdministratorRemains'
  BY <1>1 DEF IInv, AdministratorRemains, ActiveAdministrator, memberships
<1>5. RolesOfMembers'
  BY <1>1 DEF IInv, RolesOfMembers, Names, memberships
<1> QED
  BY <1>1, <1>2, <1>3, <1>4, <1>5, EndKeeps DEF IInv

(* The invariant is inductive.                                             *)
LEMMA StepKeeps == IInv /\ [Next]_vars => IInv'
<1> SUFFICES ASSUME IInv, [Next]_vars
             PROVE  IInv'
  OBVIOUS
<1>1. ASSUME NEW r \in Requests, TxStep(r)
      PROVE  IInv'
  <2>1. CASE ProtectFinalAdministrator(r)
    <3>1. Rollback(r) \/ pc'[r] = "checked"
      BY <2>1 DEF ProtectFinalAdministrator, Goto, IInv, TypeOK
    <3> QED
      BY <2>1, <3>1, RollbackKeeps, StatementKeeps DEF Statement
  <2>2. CASE Conflict(r) \/ AlreadyMember(r) \/ NoRowDeleted(r) \/ FindMembership(r)
    BY <2>2, RollbackKeeps DEF Conflict, AlreadyMember, NoRowDeleted, FindMembership
  <2>3. CASE CommitUpdate(r) \/ Reactivate(r) \/ Insert(r) \/ CommitDeletion(r)
    BY <2>3, CommitKeeps, AcceptKeeps, DeletionKeeps
  <2> QED
    BY <1>1, <2>1, <2>2, <2>3, StatementKeeps DEF TxStep, Statement
<1>2. ASSUME NEW r \in Requests, DeadlockVictim(r) \/ Cancelled(r)
      PROVE  IInv'
  BY <1>2, RollbackKeeps DEF DeadlockVictim, Cancelled
<1>3. CASE UNCHANGED vars
  <2>1. /\ TypeOK' /\ TenantExclusive' /\ MembershipExclusive' /\ RoleExclusive'
        /\ AdministratorRemains' /\ RolesOfMembers'
    BY <1>3 DEF IInv, TypeOK, TenantExclusive, HoldsTenant, MembershipExclusive,
       HoldsMembership, RoleExclusive, GivesRole, DeletesRole, ChangesRole,
       AdministratorRemains, RolesOfMembers, ActiveAdministrator, vars, rows, memberships
  <2>2. \A r \in Requests : RequestType(r)' /\ RequestInv(r)'
    BY <1>3, OthersTyped, OthersUndisturbed DEF vars
  <2> QED
    BY <2>1, <2>2 DEF IInv
<1> QED
  BY <1>1, <1>2, <1>3, SubmitKeeps DEF Next

(* The inductive invariant holds of every behaviour.                       *)
THEOREM Invariant == Spec => []IInv
<1>1. Init => IInv
  BY MembershipsAssumption
  DEF Init, IInv, TypeOK, TenantExclusive, MembershipExclusive, RoleExclusive, RolesOfMembers,
      RequestType, RequestInv, HoldsTenant, HoldsMembership, GivesRole, AdministratorRemains,
      Updating, Accepting, Deleting
<1> QED
  BY <1>1, StepKeeps, PTL DEF Spec

(* Type correctness of the memberships and of the requests under way.      *)
THEOREM TypeCorrect == Spec => []TypeOK
<1>1. IInv => TypeOK
  BY DEF IInv
<1> QED
  BY <1>1, Invariant, PTL

(* Whatever updates, acceptances and deletions run at the same time, the   *)
(* tenant keeps an active administrator (AdministratorRemains).            *)
THEOREM KeepsAdministrator == Spec => []AdministratorRemains
<1>1. IInv => AdministratorRemains
  BY DEF IInv
<1> QED
  BY <1>1, Invariant, PTL

(* No deletion of a role leaves a member with a role that is not there.    *)
THEOREM KeepsRoles == Spec => []RolesOfMembers
<1>1. IInv => RolesOfMembers
  BY DEF IInv
<1> QED
  BY <1>1, Invariant, PTL

(* A step changes rows only by a commit.                                   *)
LEMMA OnlyCommitsWrite ==
  ASSUME IInv, [Next]_vars, rows' # rows
  PROVE  \E r \in Requests :
           CommitUpdate(r) \/ Reactivate(r) \/ Insert(r) \/ CommitDeletion(r)
  BY DEF Next, TxStep, SubmitUpdate, LockInvitation, SubmitDeletion, LockTenant,
     LockMembership, PersistMembershipUpdate, LockUser, LockInactive, Conflict, AlreadyMember,
     DeleteRow, NoRowDeleted, FindNoMembership, FindMembership,
     ProtectFinalAdministrator, DeadlockVictim, Cancelled, Rollback, vars

(* NoLostUpdate: an update takes effect only on the revision its caller    *)
(* saw.                                                                    *)
THEOREM UpdatesAreSeen == Spec => NoLostUpdate
<1> DEFINE Takes(r) == pc[r] = "persisted" /\ pc'[r] = "idle" /\ memberships' # memberships
           Seen(r) == revision[req[r].user] = req[r].revision
<1>1. ASSUME IInv, [Next]_vars, NEW r \in Requests, Takes(r)
      PROVE  Seen(r)
  BY <1>1 DEF IInv, RequestInv, RevisionMatches
<1>2. IInv /\ [Next]_vars => [\A r \in Requests : Takes(r) => Seen(r)]_vars
  BY <1>1
<1> QED
  BY <1>2, Invariant, PTL DEF Spec, NoLostUpdate

(* Every step is a step of MembershipRegistry or leaves the rows alone.    *)
LEMMA StepRefines ==
  ASSUME IInv, [Next]_vars
  PROVE  [Registry!Next]_Registry!registryVars
<1>1. CASE rows' = rows
  BY <1>1 DEF rows, memberships, Registry!registryVars
<1>2. CASE rows' # rows
  <2>1. PICK r \in Requests :
          CommitUpdate(r) \/ Reactivate(r) \/ Insert(r) \/ CommitDeletion(r)
    BY <1>2, OnlyCommitsWrite
  <2>2. CASE CommitUpdate(r)
    <3>1. /\ req[r] \in Changes /\ req[r].role \in tenantRoles
          /\ status[req[r].user] # "absent" /\ seen[r] = role[req[r].user]
          /\ RemovesAdministrator(r) => OthersRemain(r)
      BY <2>2 DEF IInv, RequestType, RequestInv, CommitUpdate, Updating
    <3>2. PICK u \in Users : u = req[r].user
      BY <3>1 DEF Changes
    <3>3. \/ req[r].status = "active" /\ req[r].role = "administrator"
          \/ \E v \in Users \ {u} : Registry!ActiveAdministrator(v)
          \/ ~Registry!ActiveAdministrator(u)
      BY <3>1, <3>2 DEF RemovesAdministrator, OthersRemain, ActiveAdministrator,
         Registry!ActiveAdministrator
    <3>4. Registry!Set(u, req[r].status, req[r].role)
      BY <2>2, <3>2 DEF CommitUpdate, Store, Registry!Set
    <3>5. Registry!Edit(u)
      BY <3>1, <3>2, <3>3, <3>4 DEF Registry!Edit, Changes
    <3> QED
      BY <3>5 DEF Registry!Next
  <2>3. CASE Reactivate(r) \/ Insert(r)
    <3>1. req[r] \in Changes /\ req[r].role \in tenantRoles
      BY <2>3 DEF IInv, TypeOK, RequestType, Reactivate, Insert, Accepting, Changes
    <3>2. PICK u \in Users : u = req[r].user
      BY <3>1 DEF Changes
    <3>3. status[u] # "active" /\ Registry!Set(u, "active", req[r].role)
      BY <2>3, <3>2 DEF IInv, RequestInv, Reactivate, Insert, Store, Registry!Set
    <3>4. Registry!Join(u)
      BY <3>1, <3>3 DEF Registry!Join
    <3> QED
      BY <3>4 DEF Registry!Next
  <2>4. CASE CommitDeletion(r)
    <3>1. req[r] \in Deletions /\ \A u \in Users : ~Names(u, req[r].role)
      BY <2>4 DEF IInv, RequestType, RequestInv, CommitDeletion, Deleting
    <3>2. PICK c \in Custom : c = req[r].role
      BY <3>1 DEF Deletions
    <3>3. Registry!Delete(c)
      BY <2>4, <3>1, <3>2 DEF CommitDeletion, Names, memberships, Registry!Delete
    <3> QED
      BY <3>3 DEF Registry!Next
  <2> QED
    BY <2>1, <2>2, <2>3, <2>4
<1> QED
  BY <1>1, <1>2

(* Refinement: the transactions implement the atomic registry.             *)
THEOREM Implements == Spec => ImplementsRegistry
<1>1. Init => Registry!Init
  BY DEF Init, Registry!Init, ActiveAdministrator, Registry!ActiveAdministrator
<1> QED
  BY <1>1, StepRefines, Invariant, PTL DEF Spec, ImplementsRegistry, Registry!Spec
=============================================================================
