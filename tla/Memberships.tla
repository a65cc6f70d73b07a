---------------------------- MODULE Memberships -----------------------------
(***************************************************************************)
(* The memberships of one tenant under concurrent transactions: membership *)
(* updates and deletions of roles by administrators, and acceptances of    *)
(* invitations by existing users.  PostgreSQL runs them at READ COMMITTED: *)
(* each statement sees what was committed when it began, and only row      *)
(* locks order them, those of foreign keys included.                       *)
(*                                                                         *)
(* A step is a statement that may wait for a row lock or read what others  *)
(* write; the statements after the last such one are part of its step, as  *)
(* the rows they change stay locked until the commit.                      *)
(***************************************************************************)
EXTENDS Naturals

CONSTANTS
  Users,      \* users; a user has at most one membership in the tenant
  Roles,      \* roles of the tenant, of which "administrator" is one
  Custom,     \* custom roles that no invitation names, which can be deleted
  Requests,   \* request slots of the API servers
  MaxRevision \* bound: membership revisions

ASSUME MembershipsAssumption ==
  /\ "administrator" \in Roles
  /\ Custom \subseteq Roles \ {"administrator"}
  /\ MaxRevision \in Nat

VARIABLES
  status,      \* tenant_memberships.status, "absent" without a row
  role,        \* tenant_memberships.role_id
  revision,    \* tenant_memberships.revision
  tenantRoles, \* tenant_roles
  pc,          \* where the transaction of each request is
  req,         \* the request: what to change, and the revision the caller saw
  seen         \* the role that lockMembership found

memberships == <<status, role, revision>>
rows == <<memberships, tenantRoles>>
vars == <<rows, pc, req, seen>>

Updating == {"submitted", "tenant", "membership", "checked", "persisted"}
Accepting == {"invitation", "user", "joining"}
Deleting == {"deleting", "deleted", "unreferenced"}

(* What is asked of a membership, and of a role.                           *)
Changes ==
  [user : Users, role : Roles, status : {"active", "inactive"}, revision : Nat]
Deletions == [role : Custom]

NoRequest == [role |-> "none"]
NoRole == "none"

TypeOK ==
  /\ status \in [Users -> {"absent", "inactive", "active"}]
  /\ role \in [Users -> Roles]
  /\ revision \in [Users -> Nat]
  /\ Roles \ Custom \subseteq tenantRoles /\ tenantRoles \subseteq Roles
  /\ pc \in [Requests -> {"idle"} \cup Updating \cup Accepting \cup Deleting]
  /\ req \in [Requests -> Changes \cup Deletions \cup {NoRequest}]
  /\ seen \in [Requests -> Roles \cup {NoRole}]

ActiveAdministrator(u) == status[u] = "active" /\ role[u] = "administrator"

(* A provisioned tenant whose first invitation has been accepted.          *)
Init ==
  /\ status \in [Users -> {"absent", "inactive", "active"}]
  /\ role \in [Users -> Roles]
  /\ revision = [u \in Users |-> 0]
  /\ tenantRoles = Roles
  /\ \E u \in Users : ActiveAdministrator(u)
  /\ pc = [r \in Requests |-> "idle"]
  /\ req = [r \in Requests |-> NoRequest]
  /\ seen = [r \in Requests |-> NoRole]

Goto(r, label) == pc' = [pc EXCEPT ![r] = label]

(* The transaction is over, and its locks are free.                        *)
End(r) ==
  /\ Goto(r, "idle")
  /\ req' = [req EXCEPT ![r] = NoRequest]
  /\ seen' = [seen EXCEPT ![r] = NoRole]

Rollback(r) == End(r) /\ UNCHANGED rows

(* Mutant: the role that was found is written, not the requested one.      *)
StoreSeenRole(r, newStatus) ==
  LET u == req[r].user IN
  /\ status' = [status EXCEPT ![u] = newStatus]
  /\ role' = [role EXCEPT ![u] = seen[r]]
  /\ revision' = [revision EXCEPT ![u] = @ + 1]

Store(r, newStatus) ==
  LET u == req[r].user IN
  /\ status' = [status EXCEPT ![u] = newStatus]
  /\ role' = [role EXCEPT ![u] = req[r].role]
  /\ revision' = [revision EXCEPT ![u] = @ + 1]

-----------------------------------------------------------------------------
(* Row locks, each held from its statement to the end of the transaction.  *)

HoldsTenant(r) == pc[r] \in Updating \ {"submitted"}
HoldsMembership(r, u) ==
  pc[r] \in {"membership", "checked", "persisted", "joining"} /\ req[r].user = u
HoldsUser(r, u) == pc[r] \in {"user", "joining"} /\ req[r].user = u

(* The foreign key of a membership locks the role that an update gives, so *)
(* that it cannot be deleted; a deletion locks it against both.            *)
ChangesRole(r) == req[r].role # seen[r]
GivesRole(r, c) == pc[r] = "persisted" /\ ChangesRole(r) /\ req[r].role = c
DeletesRole(r, c) == pc[r] \in {"deleted", "unreferenced"} /\ req[r].role = c

(* Mutant: UpdateMembership does not lock the tenant.                      *)
TenantIgnored == TRUE

TenantFree == \A r \in Requests : ~HoldsTenant(r)
MembershipFree(u) == \A r \in Requests : ~HoldsMembership(r, u)
UserFree(u) == \A r \in Requests : ~HoldsUser(r, u)

(* Mutant: memberships have no foreign key to roles.                       *)
DeletionIgnored(c) == TRUE

NotDeleted(c) == \A r \in Requests : ~DeletesRole(r, c)
NotGiven(c) == \A r \in Requests : ~GivesRole(r, c)

-----------------------------------------------------------------------------
(* A caller has seen a membership and asks for a change of it.             *)
SubmitUpdate(r, u) ==
  /\ pc[r] = "idle" /\ status[u] # "absent"
  /\ \E newRole \in tenantRoles, newStatus \in {"active", "inactive"} :
       req' = [req EXCEPT ![r] = [user |-> u, role |-> newRole,
                                  status |-> newStatus, revision |-> revision[u]]]
  /\ Goto(r, "submitted")
  /\ UNCHANGED <<rows, seen>>

(* updateMembershipTx: SELECT id FROM tenants ... FOR UPDATE.              *)
LockTenant(r) ==
  /\ pc[r] = "submitted" /\ TenantFree
  /\ Goto(r, "tenant")
  /\ UNCHANGED <<rows, req, seen>>

(* lockMembership waits for the row of the membership, and finds its role. *)
(* What it finds is what it first saw: only an acceptance can hold the row *)
(* meanwhile, and cannot commit while this transaction holds the tenant.   *)
LockMembership(r) ==
  /\ pc[r] = "tenant" /\ MembershipFree(req[r].user)
  /\ seen' = [seen EXCEPT ![r] = role[req[r].user]]
  /\ Goto(r, "membership")
  /\ UNCHANGED <<rows, req>>

RemovesAdministrator(r) ==
  /\ seen[r] = "administrator"
  /\ req[r].status # "active" \/ req[r].role # "administrator"

(* Those that protectFinalAdministrator counts.                            *)
OthersRemain(r) ==
  \E v \in Users \ {req[r].user} : ActiveAdministrator(v)

(* membershipRoleKind finds no such role, or no administrator would remain. *)
ProtectFinalAdministrator(r) ==
  /\ pc[r] = "membership"
  /\ IF \/ req[r].role \notin tenantRoles
        \/ RemovesAdministrator(r) /\ ~OthersRemain(r)
     THEN Rollback(r)
     ELSE Goto(r, "checked") /\ UNCHANGED <<rows, req, seen>>

(* Mutant: UPDATE tenant_memberships without AND revision = $5.            *)
RevisionIgnored(r) == TRUE

RevisionMatches(r) == revision[req[r].user] = req[r].revision

(* persistMembershipUpdate; the foreign key waits for a deletion of the    *)
(* role, if the membership had another.                                    *)
PersistMembershipUpdate(r) ==
  /\ pc[r] = "checked" /\ RevisionMatches(r)
  /\ req[r].role \in tenantRoles
  /\ ChangesRole(r) => NotDeleted(req[r].role)
  /\ Goto(r, "persisted")
  /\ UNCHANGED <<rows, req, seen>>

(* invalidateUserSession, which waits for the row of the user, the audit   *)
(* event and the commit.                                                   *)
CommitUpdate(r) ==
  /\ pc[r] = "persisted" /\ UserFree(req[r].user)
  /\ Store(r, req[r].status)
  /\ UNCHANGED tenantRoles
  /\ End(r)

(* Mutant: the update is tried again in the same transaction.              *)
ConflictRetried(r) ==
  /\ pc[r] = "checked" /\ ~RevisionMatches(r)
  /\ Goto(r, "membership")
  /\ UNCHANGED <<rows, req, seen>>

(* persistMembershipUpdate changed no row, or gives a role that has been   *)
(* deleted.                                                                *)
Conflict(r) ==
  /\ pc[r] = "checked"
  /\ ~RevisionMatches(r) \/ req[r].role \notin tenantRoles
  /\ Rollback(r)

-----------------------------------------------------------------------------
(* acceptInvitationTx for a user who has an account.                       *)

(* lockedInvitation; the invitation is the request's own, as no two can    *)
(* have it locked.                                                         *)
LockInvitation(r, u) ==
  /\ pc[r] = "idle"
  /\ \E newRole \in Roles \ Custom :
       req' = [req EXCEPT ![r] = [user |-> u, role |-> newRole,
                                  status |-> "active", revision |-> 0]]
  /\ Goto(r, "invitation")
  /\ UNCHANGED <<rows, seen>>

(* acceptIdentity: SELECT ... FROM users ... FOR UPDATE.                   *)
LockUser(r) ==
  /\ pc[r] = "invitation" /\ UserFree(req[r].user)
  /\ Goto(r, "user")
  /\ UNCHANGED <<rows, req, seen>>

(* createMembership locks an inactive membership to reactivate it; what it *)
(* writes nobody sees before the commit.                                   *)
LockInactive(r) ==
  /\ pc[r] = "user" /\ status[req[r].user] = "inactive"
  /\ MembershipFree(req[r].user)
  /\ Goto(r, "joining")
  /\ UNCHANGED <<rows, req, seen>>

(* The rest of acceptInvitationTx; the foreign key of its audit event      *)
(* waits for the tenant.                                                   *)
Reactivate(r) ==
  /\ pc[r] = "joining" /\ TenantFree
  /\ Store(r, "active")
  /\ UNCHANGED tenantRoles
  /\ End(r)

(* It finds none and inserts one, whose foreign key waits for the tenant.  *)
Insert(r) ==
  /\ pc[r] = "user" /\ status[req[r].user] = "absent"
  /\ TenantFree
  /\ Store(r, "active")
  /\ UNCHANGED tenantRoles
  /\ End(r)

AlreadyMember(r) ==
  /\ pc[r] = "user" /\ status[req[r].user] = "active"
  /\ MembershipFree(req[r].user)
  /\ Rollback(r)

-----------------------------------------------------------------------------
(* DeleteRole, of a role that the caller has seen.  The checks of the      *)
(* role's revision and kind are in Roles.                                  *)

SubmitDeletion(r) ==
  /\ pc[r] = "idle"
  /\ \E c \in Custom \cap tenantRoles : req' = [req EXCEPT ![r] = [role |-> c]]
  /\ Goto(r, "deleting")
  /\ UNCHANGED <<rows, seen>>

(* DELETE FROM tenant_roles locks the row.                                 *)
DeleteRow(r) ==
  /\ pc[r] = "deleting" /\ req[r].role \in tenantRoles
  /\ NotGiven(req[r].role) /\ NotDeleted(req[r].role)
  /\ Goto(r, "deleted")
  /\ UNCHANGED <<rows, req, seen>>

(* Another request has deleted it.                                         *)
NoRowDeleted(r) ==
  /\ pc[r] = "deleting" /\ req[r].role \notin tenantRoles
  /\ Rollback(r)

Names(u, c) == status[u] # "absent" /\ role[u] = c

(* The foreign key of memberships looks for one that names the role, and   *)
(* waits for one that is locked.                                           *)
FindNoMembership(r) ==
  /\ pc[r] = "deleted" /\ \A u \in Users : ~Names(u, req[r].role)
  /\ Goto(r, "unreferenced")
  /\ UNCHANGED <<rows, req, seen>>

FindMembership(r) ==
  /\ pc[r] = "deleted"
  /\ \E u \in Users : Names(u, req[r].role) /\ MembershipFree(u)
  /\ Rollback(r)

(* The foreign key of the audit event waits for the tenant.                *)
CommitDeletion(r) ==
  /\ pc[r] = "unreferenced" /\ TenantFree
  /\ tenantRoles' = tenantRoles \ {req[r].role}
  /\ UNCHANGED memberships
  /\ End(r)

-----------------------------------------------------------------------------
(* Updates lock the tenant, then a membership, a role and a user,          *)
(* acceptances a user, a membership and the tenant, deletions a role and   *)
(* the tenant.  PostgreSQL aborts one of those that wait in a circle.      *)

Waits(r, s) ==
  \/ pc[r] = "tenant" /\ HoldsMembership(s, req[r].user)
  \/ /\ pc[r] = "checked" /\ RevisionMatches(r) /\ ChangesRole(r)
     /\ DeletesRole(s, req[r].role)
  \/ pc[r] = "persisted" /\ HoldsUser(s, req[r].user)
  \/ pc[r] = "invitation" /\ HoldsUser(s, req[r].user)
  \/ /\ pc[r] = "user"
     /\ IF status[req[r].user] = "absent" THEN HoldsTenant(s)
                                          ELSE HoldsMembership(s, req[r].user)
  \/ pc[r] \in {"joining", "unreferenced"} /\ HoldsTenant(s)
  \/ /\ pc[r] = "deleted"
     /\ \E u \in Users : Names(u, req[r].role) /\ HoldsMembership(s, u)

Circle(C) ==
  /\ C # {} /\ \A r \in C : \E s \in C : Waits(r, s)
  /\ \A D \in SUBSET C \ {C, {}} : \E r \in D : \A s \in D : ~Waits(r, s)

DeadlockVictim(v) ==
  /\ \E C \in SUBSET Requests : v \in C /\ Circle(C)
  /\ Rollback(v)

(* The connection is lost, or the caller's context is cancelled.           *)
Cancelled(r) == pc[r] # "idle" /\ Rollback(r)

TxStep(r) ==
  \/ LockTenant(r) \/ LockMembership(r) \/ ProtectFinalAdministrator(r)
  \/ PersistMembershipUpdate(r) \/ CommitUpdate(r) \/ Conflict(r)
  \/ LockUser(r) \/ LockInactive(r) \/ Reactivate(r) \/ Insert(r)
  \/ AlreadyMember(r)
  \/ DeleteRow(r) \/ NoRowDeleted(r) \/ FindNoMembership(r)
  \/ FindMembership(r) \/ CommitDeletion(r)

Next ==
  \E r \in Requests :
    \/ \E u \in Users :
         revision[u] < MaxRevision /\ (SubmitUpdate(r, u) \/ LockInvitation(r, u))
    \/ SubmitDeletion(r)
    \/ TxStep(r) \/ DeadlockVictim(r) \/ Cancelled(r)

Spec == Init /\ [][Next]_vars

(* PostgreSQL serves the waiters of a row lock in turn and breaks          *)
(* deadlocks.                                                              *)
Fairness == \A r \in Requests : SF_vars(TxStep(r)) /\ WF_vars(DeadlockVictim(r))

FairSpec == Spec /\ Fairness
-----------------------------------------------------------------------------
(***************************************************************************)
(* Properties                                                              *)
(***************************************************************************)

(* The tenant never loses its last active administrator, whatever updates  *)
(* run at the same time ("Serialize mutations so concurrent Administrator  *)
(* demotions cannot both pass the final-Administrator check").             *)
AdministratorRemains == \E u \in Users : ActiveAdministrator(u)

(* No lost update: an update takes effect only on the revision its caller  *)
(* saw, although the check and the write are statements of their own.      *)
NoLostUpdate ==
  [][\A r \in Requests :
       pc[r] = "persisted" /\ pc'[r] = "idle" /\ memberships' # memberships =>
         revision[req[r].user] = req[r].revision]_vars

(* Every interleaving of the transactions is a sequence of the atomic      *)
(* changes of MembershipRegistry: no role is deleted that a membership has *)
(* or is being given.                                                      *)
Registry == INSTANCE MembershipRegistry
ImplementsRegistry == Registry!Spec

(* Every request ends: no lock is kept, and no wait goes on for ever.      *)
EveryRequestEnds == \A r \in Requests : pc[r] # "idle" ~> pc[r] = "idle"
=============================================================================
