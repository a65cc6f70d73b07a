------------------------- MODULE MembershipRegistry -------------------------
(***************************************************************************)
(* What the membership store of one tenant promises, without transactions, *)
(* locks or snapshots: changes happen one at a time, leave the tenant an   *)
(* active administrator, and every membership a role of the tenant.        *)
(***************************************************************************)
EXTENDS Naturals

CONSTANTS Users, Roles, Custom

VARIABLES status, role, revision, tenantRoles

registryVars == <<status, role, revision, tenantRoles>>

ActiveAdministrator(u) == status[u] = "active" /\ role[u] = "administrator"

Set(u, newStatus, newRole) ==
  /\ status' = [status EXCEPT ![u] = newStatus]
  /\ role' = [role EXCEPT ![u] = newRole]
  /\ revision' = [revision EXCEPT ![u] = @ + 1]
  /\ UNCHANGED tenantRoles

Init ==
  /\ status \in [Users -> {"absent", "inactive", "active"}]
  /\ role \in [Users -> Roles]
  /\ revision \in [Users -> Nat]
  /\ tenantRoles = Roles
  /\ \E u \in Users : ActiveAdministrator(u)

(* An administrator edits a membership.                                    *)
Edit(u) ==
  /\ status[u] # "absent"
  /\ \E newStatus \in {"active", "inactive"}, newRole \in tenantRoles :
       /\ \/ newStatus = "active" /\ newRole = "administrator"
          \/ \E v \in Users \ {u} : ActiveAdministrator(v)
          \/ ~ActiveAdministrator(u)
       /\ Set(u, newStatus, newRole)

(* An invited user joins, or comes back.                                   *)
Join(u) ==
  /\ status[u] # "active"
  /\ \E newRole \in tenantRoles : Set(u, "active", newRole)

(* An administrator deletes a custom role that nobody has.                 *)
Delete(c) ==
  /\ \A u \in Users : status[u] # "absent" => role[u] # c
  /\ tenantRoles' = tenantRoles \ {c}
  /\ UNCHANGED <<status, role, revision>>

Next ==
  \/ \E u \in Users : Edit(u) \/ Join(u)
  \/ \E c \in Custom : Delete(c)

Spec == Init /\ [][Next]_registryVars
=============================================================================
