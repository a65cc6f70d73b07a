-------------------------------- MODULE Roles --------------------------------
(***************************************************************************)
(* The roles of one tenant, and the requests that manage roles,            *)
(* memberships and invitations by the permissions that roles grant.        *)
(*                                                                         *)
(* A request runs several transactions, and anything may commit between    *)
(* two of them: it finds the membership of its actor, then the permissions *)
(* of that membership's role, then perhaps the role it is about, and then  *)
(* makes its change.  Each transaction is one action.                      *)
(***************************************************************************)
EXTENDS Naturals

CONSTANTS
  Users,      \* users; a user has at most one membership in the tenant
  Custom,     \* IDs of roles to be created; an ID is used once
  Requests,   \* request slots of the API servers
  Operations, \* operations that are requested
  MaxRevision \* bound: revisions that are edited

Protected == {"administrator", "user"}
RoleIds == Custom \cup Protected
Permissions == {"user.manage", "role.manage"}

(* The permission that an operation requires.                              *)
Required ==
  [CreateRole |-> "role.manage", UpdateRole |-> "role.manage",
   DeleteRole |-> "role.manage", UpdateMembership |-> "user.manage",
   CreateInvitation |-> "user.manage"]

ASSUME RolesAssumption ==
  /\ Custom \cap Protected = {}
  /\ Operations \subseteq DOMAIN Required
  /\ MaxRevision \in Nat

VARIABLES
  state,     \* of each role: "new" and "deleted" have no row
  grants,    \* tenant_role_permissions, of those that are required here
  revision,  \* tenant_roles.revision
  member,    \* tenant_memberships
  invited,   \* roles that rows of invitations name
  pc,        \* where each request is
  req,       \* what it is to do
  found,     \* role of the actor's membership, as FindActiveMembership found it
  history    \* of each request, what happened since it began

roleVars == <<state, grants, revision>>
rows == <<roleVars, member, invited>>
vars == <<rows, pc, req, found, history>>

Memberships ==
  [status : {"absent", "active", "inactive"}, role : RoleIds, revision : Nat]

NoRequest == [op |-> "none"]
NoRole == "none"
NoHistory == [held |-> FALSE, moved |-> FALSE, regranted |-> FALSE]

(* A caller names a role or a membership, with the revision it saw.  What  *)
(* it saw granted is history.                                              *)
Submissions ==
  [op : Operations, actor : Users, role : RoleIds, user : Users,
   revision : Nat, grants : SUBSET Permissions]

TypeOK ==
  /\ state \in [RoleIds -> {"new", "live", "deleted"}]
  /\ grants \in [RoleIds -> SUBSET Permissions]
  /\ revision \in [RoleIds -> Nat]
  /\ \A r \in RoleIds : state[r] # "live" => grants[r] = {}
  /\ member \in [Users -> Memberships]
  /\ invited \subseteq RoleIds
  /\ pc \in [Requests -> {"idle", "member", "permissions", "target", "change"}]
  /\ req \in [Requests -> Submissions \cup {NoRequest}]
  /\ \A q \in Requests : pc[q] # "idle" => req[q] \in Submissions
  /\ found \in [Requests -> RoleIds \cup {NoRole}]
  /\ history \in [Requests ->
                    [held : BOOLEAN, moved : BOOLEAN, regranted : BOOLEAN]]

Active(u) == member[u].status = "active"
Administrates(u) == Active(u) /\ member[u].role = "administrator"
Permits(m, g, permission) == m.status = "active" /\ permission \in g[m.role]
Permitted(u, permission) == Permits(member[u], grants, permission)

(* createDefaultRoles; members who accepted their invitations.             *)
Init ==
  /\ state = [r \in RoleIds |-> IF r \in Protected THEN "live" ELSE "new"]
  /\ grants = [r \in RoleIds |-> IF r = "administrator" THEN Permissions ELSE {}]
  /\ revision = [r \in RoleIds |-> 1]
  /\ member \in [Users -> [status : {"absent", "active"}, role : Protected,
                           revision : {1}]]
  /\ \E u \in Users : Administrates(u)
  /\ invited = Protected
  /\ pc = [q \in Requests |-> "idle"]
  /\ req = [q \in Requests |-> NoRequest]
  /\ found = [q \in Requests |-> NoRole]
  /\ history = [q \in Requests |-> NoHistory]

-----------------------------------------------------------------------------
(* What rows refer to, and what they require                               *)

(* Mutant: the foreign key of invitations is dropped.                      *)
NoMemberHas(r) ==
  \A u \in Users : member[u].status # "absent" => member[u].role # r

Unreferenced(r) ==
  /\ \A u \in Users : member[u].status # "absent" => member[u].role # r
  /\ r \notin invited

(* Mutant: protected roles are treated like others.                        *)
AnyKind(r) == TRUE

IsCustom(r) == r \notin Protected

(* Mutant: the revision is not compared.                                   *)
RevisionIgnored(q) == TRUE

RevisionMatches(q) == revision[req[q].role] = req[q].revision

-----------------------------------------------------------------------------
(* The requests                                                            *)

Goto(q, label) == pc' = [pc EXCEPT ![q] = label]

(* The history of the requests under way: whether the actor held the       *)
(* permission at some moment, and if not, whether its membership was       *)
(* changed (that of a user in "moved"), and whether a role was given other *)
(* permissions.                                                            *)
Remember(moved, regranted) ==
  history' = [q \in Requests |->
    IF pc'[q] = "idle" THEN NoHistory
    ELSE IF \/ history[q].held
            \/ Permits(member'[req'[q].actor], grants', Required[req'[q].op])
    THEN [held |-> TRUE, moved |-> FALSE, regranted |-> FALSE]
    ELSE [held |-> FALSE,
          moved |-> history[q].moved \/ req'[q].actor \in moved,
          regranted |-> history[q].regranted \/ regranted]]

(* The request is over.                                                    *)
End(q) ==
  /\ Goto(q, "idle")
  /\ req' = [req EXCEPT ![q] = NoRequest]
  /\ found' = [found EXCEPT ![q] = NoRole]

Edits == {"UpdateRole", "DeleteRole"}

SeenRevision(op, r, u) ==
  CASE op = "UpdateMembership" -> member[u].revision
    [] op \in Edits -> revision[r]
    [] OTHER -> 0

(* A caller asks for an operation, on the basis of what it has seen, and   *)
(* its session is authenticated.  The arguments that no step reads before  *)
(* the change are chosen there.                                            *)
Ask(q, op, actor, r, u) ==
  /\ pc[q] = "idle" /\ Active(actor)
  /\ IF op = "UpdateMembership" THEN member[u].status # "absent" /\ r = "user"
                                ELSE u = actor
  /\ IF op = "CreateRole" THEN r = "user" ELSE state[r] = "live"
  /\ op \in {"UpdateRole", "UpdateMembership"} =>
       SeenRevision(op, r, u) < MaxRevision
  /\ req' = [req EXCEPT ![q] =
       [op |-> op, actor |-> actor, role |-> r, user |-> u,
        revision |-> SeenRevision(op, r, u),
        grants |-> IF op \in Edits THEN grants[r] ELSE {}]]
  /\ Goto(q, "member")
  /\ UNCHANGED <<rows, found>>
  /\ Remember({}, FALSE)

Submit(q) ==
  \E op \in Operations, actor \in Users, r \in RoleIds, u \in Users :
    Ask(q, op, actor, r, u)

(* Mutant: the membership may be inactive.                                 *)
MemberOf(u) == member[u].status # "absent"

ActiveMemberOf(u) == Active(u)

(* require, requireTenantPermission: the active membership of the actor.   *)
FindActiveMembership(q) ==
  /\ pc[q] = "member" /\ ActiveMemberOf(req[q].actor)
  /\ found' = [found EXCEPT ![q] = member[req[q].actor].role]
  /\ Goto(q, "permissions")
  /\ UNCHANGED <<rows, req>>
  /\ Remember({}, FALSE)

(* The permissions of that role, in a transaction of its own.              *)
PermissionsForRole(q) ==
  /\ pc[q] = "permissions"
  /\ state[found[q]] = "live" /\ Required[req[q].op] \in grants[found[q]]
  /\ Goto(q, IF req[q].op \in Edits \cup {"CreateInvitation"}
             THEN "target" ELSE "change")
  /\ found' = [found EXCEPT ![q] = NoRole]
  /\ UNCHANGED <<rows, req>>
  /\ Remember({}, FALSE)

(* FindRole, and IsProtected for the changes of roles.                     *)
FindRole(q) ==
  /\ pc[q] = "target" /\ state[req[q].role] = "live"
  /\ req[q].op \in Edits => IsCustom(req[q].role)
  /\ Goto(q, "change")
  /\ UNCHANGED <<rows, req, found>>
  /\ Remember({}, FALSE)

(* An error of a check, or of the database at any step.                    *)
Refuse(q) ==
  /\ pc[q] # "idle"
  /\ End(q)
  /\ UNCHANGED rows
  /\ Remember({}, FALSE)

-----------------------------------------------------------------------------
(* The changes                                                             *)

Change(q, op) ==
  /\ pc[q] = "change" /\ req[q].op = op
  /\ End(q)

CreateRole(q) ==
  /\ Change(q, "CreateRole")
  /\ \E r \in Custom, permissions \in SUBSET Permissions :
       /\ state[r] = "new"
       /\ state' = [state EXCEPT ![r] = "live"]
       /\ grants' = [grants EXCEPT ![r] = permissions]
  /\ UNCHANGED <<revision, member, invited>>
  /\ Remember({}, FALSE)

(* UPDATE tenant_roles ... WHERE revision and kind, then its permissions   *)
(* are replaced.                                                           *)
UpdateRole(q) ==
  /\ Change(q, "UpdateRole")
  /\ LET r == req[q].role IN
     /\ state[r] = "live" /\ RevisionMatches(q) /\ IsCustom(r)
     /\ revision' = [revision EXCEPT ![r] = @ + 1]
     /\ \E permissions \in SUBSET Permissions :
          grants' = [grants EXCEPT ![r] = permissions]
  /\ UNCHANGED <<state, member, invited>>
  /\ Remember({}, TRUE)

(* Mutant: tenant_role_permissions does not cascade.                       *)
DropRoleOnly(r) ==
  /\ state' = [state EXCEPT ![r] = "deleted"]
  /\ UNCHANGED grants

(* ON DELETE CASCADE takes the permissions along.                          *)
DropRole(r) ==
  /\ state' = [state EXCEPT ![r] = "deleted"]
  /\ grants' = [grants EXCEPT ![r] = {}]

(* The foreign keys of memberships and invitations refuse the deletion.    *)
DeleteRole(q) ==
  /\ Change(q, "DeleteRole")
  /\ LET r == req[q].role IN
     /\ state[r] = "live" /\ RevisionMatches(q) /\ IsCustom(r)
     /\ Unreferenced(r)
     /\ DropRole(r)
  /\ UNCHANGED <<revision, member, invited>>
  /\ Remember({}, FALSE)

(* removesAdministrator and protectFinalAdministrator.                     *)
RemovesAdministrator(u, m) ==
  /\ member[u].role = "administrator"
  /\ m.status # "active" \/ m.role # "administrator"

UpdateMembership(q) ==
  /\ Change(q, "UpdateMembership")
  /\ LET u == req[q].user IN
     \E r \in RoleIds, status \in {"active", "inactive"} :
       LET m == [status |-> status, role |-> r, revision |-> member[u].revision + 1]
       IN /\ state[r] = "live"
          /\ RemovesAdministrator(u, m) => \E v \in Users \ {u} : Administrates(v)
          /\ member[u].revision = req[q].revision
          /\ member' = [member EXCEPT ![u] = m]
  /\ UNCHANGED <<roleVars, invited>>
  /\ Remember({req[q].user}, FALSE)

(* The foreign key refuses a role that was deleted since FindRole.         *)
CreateInvitation(q) ==
  /\ Change(q, "CreateInvitation")
  /\ state[req[q].role] = "live"
  /\ invited' = invited \cup {req[q].role}
  /\ UNCHANGED <<roleVars, member>>
  /\ Remember({}, FALSE)

(* createMembership, for a user who has no active membership.              *)
AcceptInvitation(u) ==
  /\ ~Active(u) /\ member[u].revision < MaxRevision
  /\ \E r \in invited :
       member' = [member EXCEPT ![u] =
         [status |-> "active", role |-> r,
          revision |-> IF @.status = "absent" THEN 1 ELSE @.revision + 1]]
  /\ UNCHANGED <<roleVars, invited, pc, req, found>>
  /\ Remember({u}, FALSE)

Next ==
  \/ \E q \in Requests :
       \/ Submit(q) \/ FindActiveMembership(q) \/ PermissionsForRole(q)
       \/ FindRole(q) \/ Refuse(q)
       \/ CreateRole(q) \/ UpdateRole(q) \/ DeleteRole(q)
       \/ UpdateMembership(q) \/ CreateInvitation(q)
  \/ \E u \in Users : AcceptInvitation(u)

Spec == Init /\ [][Next]_vars

-----------------------------------------------------------------------------
(***************************************************************************)
(* Properties                                                              *)
(***************************************************************************)

(* A role that a membership or an invitation names is there, so that an    *)
(* acceptance never gives a role that was deleted after the invitation,    *)
(* and no member is left without permissions to be looked up.              *)
RolesInUse ==
  /\ \A u \in Users : member[u].status # "absent" => state[member[u].role] = "live"
  /\ \A r \in invited : state[r] = "live"

(* Somebody can always manage users and roles: no sequence of changes of   *)
(* roles and of memberships, by any number of requests, locks the tenant   *)
(* out of its own administration.                                          *)
NeverLockedOut ==
  \E u \in Users : \A permission \in Permissions : Permitted(u, permission)

(* The permissions of a role are replaced or deleted only by a caller who  *)
(* saw them as they are.                                                   *)
PermissionsSeen ==
  [][\A r \in RoleIds :
       state[r] = "live" /\ grants'[r] # grants[r] =>
         \E q \in Requests :
           pc[q] = "change" /\ req[q].role = r /\ req[q].grants = grants[r]]_vars

(* What the check before a change establishes.  Its two parts come from    *)
(* different moments: a request goes on for an actor who never held the    *)
(* permission only if both the actor's membership and the permissions of a *)
(* role were changed while it ran.                                         *)
PermissionHasCause ==
  \A q \in Requests :
    pc[q] \in {"target", "change"} =>
      history[q].held \/ (history[q].moved /\ history[q].regranted)
=============================================================================
