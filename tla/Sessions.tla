------------------------------ MODULE Sessions ------------------------------
(***************************************************************************)
(* The sessions of one user.  A session is a signed token that names the   *)
(* user's session_version and one tenant; nothing about it is stored, and  *)
(* raising users.session_version ends every session at once.  Requests of  *)
(* the user read the version and the memberships in transactions of their  *)
(* own, so that logins, switches, logouts, acceptances of invitations and  *)
(* changes by an administrator come between.                               *)
(***************************************************************************)
EXTENDS Naturals

CONSTANTS
  Tenants,   \* tenants
  Requests,  \* request slots of the API servers
  MaxVersion \* bound: session versions

ASSUME SessionsAssumption == MaxVersion \in Nat

VARIABLES
  sessionVersion, \* users.session_version
  membership,     \* tenant_memberships.status of the user, by tenant
  issued,         \* tokens sent to browsers that have not expired
  pc,             \* where each request is
  req             \* what it works with: the version and the tenant it read

vars == <<sessionVersion, membership, issued, pc, req>>

NoTenant == "none"
NoRequest == [op |-> "none", version |-> 0, tenant |-> NoTenant]

(* SessionClaim, and the operation that issued it (not part of the token). *)
Tokens == [version : Nat, tenant : Tenants, op : {"login", "switch", "accept"}]

TypeOK ==
  /\ sessionVersion \in Nat
  /\ membership \in [Tenants -> {"absent", "inactive", "active"}]
  /\ issued \subseteq Tokens
  /\ pc \in [Requests -> {"idle", "found", "current", "session", "switching", "issuing"}]
  /\ req \in [Requests -> [op : {"none", "login", "logout", "switch", "accept"},
                           version : Nat, tenant : Tenants \cup {NoTenant}]]

Init ==
  /\ sessionVersion = 1
  /\ membership \in [Tenants -> {"absent", "inactive", "active"}]
  /\ issued = {}
  /\ pc = [r \in Requests |-> "idle"]
  /\ req = [r \in Requests |-> NoRequest]

Active(t) == membership[t] = "active"
Goto(r, label) == pc' = [pc EXCEPT ![r] = label]
End(r) == Goto(r, "idle") /\ req' = [req EXCEPT ![r] = NoRequest]
Invalidate == sessionVersion < MaxVersion /\ sessionVersion' = sessionVersion + 1

-----------------------------------------------------------------------------
(* Login and LoginExternal: the user is read first, the memberships then.  *)

FindUser(r) ==
  /\ pc[r] = "idle"
  /\ req' = [req EXCEPT ![r] = [op |-> "login", version |-> sessionVersion,
                                tenant |-> NoTenant]]
  /\ Goto(r, "found")
  /\ UNCHANGED <<sessionVersion, membership, issued>>

(* The first active membership by name; any may be the first.              *)
FirstTenant(r) ==
  /\ pc[r] = "found"
  /\ \E t \in Tenants :
       /\ Active(t)
       /\ req' = [req EXCEPT ![r].tenant = t]
  /\ Goto(r, "issuing")
  /\ UNCHANGED <<sessionVersion, membership, issued>>

(* Mutant: the active tenant is left out of the claim.                     *)
IssueWithoutTenant(r) ==
  /\ pc[r] = "issuing"
  /\ issued' = issued \cup {[version |-> req[r].version, tenant |-> NoTenant,
                             op |-> req[r].op]}
  /\ End(r)
  /\ UNCHANGED <<sessionVersion, membership>>

(* Mutant: the version is read again when the token is signed.             *)
IssueAtCurrentVersion(r) ==
  /\ pc[r] = "issuing"
  /\ issued' = issued \cup {[version |-> sessionVersion, tenant |-> req[r].tenant,
                             op |-> req[r].op]}
  /\ End(r)
  /\ UNCHANGED <<sessionVersion, membership>>

(* The token is signed and, once the audit event of a login is appended,   *)
(* sent as a cookie.                                                       *)
Issue(r) ==
  /\ pc[r] = "issuing"
  /\ issued' = issued \cup {[version |-> req[r].version, tenant |-> req[r].tenant,
                             op |-> req[r].op]}
  /\ End(r)
  /\ UNCHANGED <<sessionVersion, membership>>

-----------------------------------------------------------------------------
(* CurrentSession: the token is verified against the user's version, then  *)
(* its tenant against the memberships.                                     *)

Honoured(token) == token.version = sessionVersion

Authenticate(r, token) ==
  /\ pc[r] = "idle" /\ Honoured(token)
  /\ \E op \in {"logout", "switch"} :
       req' = [req EXCEPT ![r] = [op |-> op, version |-> token.version,
                                  tenant |-> token.tenant]]
  /\ Goto(r, "current")
  /\ UNCHANGED <<sessionVersion, membership, issued>>

SessionForUser(r) ==
  /\ pc[r] = "current" /\ Active(req[r].tenant)
  /\ Goto(r, "session")
  /\ UNCHANGED <<sessionVersion, membership, issued, req>>

(* InvalidateSession raises whatever version it finds.                     *)
Logout(r) ==
  /\ pc[r] = "session" /\ req[r].op = "logout"
  /\ Invalidate
  /\ End(r)
  /\ UNCHANGED <<membership, issued>>

(* SwitchTenant looks up the membership in a transaction of its own.       *)
FindMembership(r) ==
  /\ pc[r] = "session" /\ req[r].op = "switch"
  /\ \E t \in Tenants :
       /\ Active(t)
       /\ req' = [req EXCEPT ![r].tenant = t]
  /\ Goto(r, "switching")
  /\ UNCHANGED <<sessionVersion, membership, issued>>

(* Mutant: the new version is counted from the session's own.              *)
RotateOwnVersion(r) ==
  /\ pc[r] = "switching"
  /\ Invalidate
  /\ req' = [req EXCEPT ![r].version = @ + 1]
  /\ Goto(r, "issuing")
  /\ UNCHANGED <<membership, issued>>

(* RotateTenantSession raises whatever version it finds, and returns it.   *)
Rotate(r) ==
  /\ pc[r] = "switching"
  /\ Invalidate
  /\ req' = [req EXCEPT ![r].version = sessionVersion']
  /\ Goto(r, "issuing")
  /\ UNCHANGED <<membership, issued>>

-----------------------------------------------------------------------------
(* acceptInvitationTx for a user who exists, in one transaction.           *)
AcceptInvitation(r, t) ==
  /\ pc[r] = "idle" /\ ~Active(t)
  /\ Invalidate
  /\ membership' = [membership EXCEPT ![t] = "active"]
  /\ req' = [req EXCEPT ![r] = [op |-> "accept", version |-> sessionVersion',
                                tenant |-> t]]
  /\ Goto(r, "issuing")
  /\ UNCHANGED issued

(* Mutant: a change of the membership leaves the user's sessions alone.    *)
UpdateMembershipOnly(t) ==
  /\ membership[t] # "absent"
  /\ \E s \in {"inactive", "active"} : membership' = [membership EXCEPT ![t] = s]
  /\ UNCHANGED <<sessionVersion, issued, pc, req>>

(* updateMembershipTx, by an administrator of the tenant: the status or    *)
(* the role is changed, and invalidateUserSession runs either way.         *)
UpdateMembership(t) ==
  /\ membership[t] # "absent"
  /\ Invalidate
  /\ \E s \in {"inactive", "active"} : membership' = [membership EXCEPT ![t] = s]
  /\ UNCHANGED <<issued, pc, req>>

(* Refused (no active membership, an outdated version), failed, or its     *)
(* answer lost; what it committed before stays.                            *)
Fail(r) ==
  /\ pc[r] # "idle"
  /\ End(r)
  /\ UNCHANGED <<sessionVersion, membership, issued>>

Expire(token) ==
  /\ issued' = issued \ {token}
  /\ UNCHANGED <<sessionVersion, membership, pc, req>>

Next ==
  \/ \E r \in Requests :
       \/ FindUser(r) \/ FirstTenant(r) \/ Issue(r)
       \/ \E token \in issued : Authenticate(r, token)
       \/ SessionForUser(r) \/ Logout(r) \/ FindMembership(r) \/ Rotate(r)
       \/ \E t \in Tenants : AcceptInvitation(r, t)
       \/ Fail(r)
  \/ \E t \in Tenants : UpdateMembership(t)
  \/ \E token \in issued : Expire(token)

Spec == Init /\ [][Next]_vars
-----------------------------------------------------------------------------
(***************************************************************************)
(* Properties                                                              *)
(***************************************************************************)

(* A login may read the user before a change of a membership and the       *)
(* memberships after it, or the other way round, but a token that is       *)
(* honoured names a tenant of which the user is an active member.  A       *)
(* switch is the exception: it looks up the membership first and the       *)
(* version last, and its token may name a membership just deactivated.     *)
LiveTokensHaveMembership ==
  \A token \in issued :
    Honoured(token) /\ token.op # "switch" => Active(token.tenant)

(* No two switches or acceptances issue tokens of one version, however     *)
(* they overlap: each of them ends the session of the other.               *)
RotationsDistinct ==
  \A a, b \in issued :
    a.op # "login" /\ b.op # "login" /\ a.version = b.version => a = b

(* A token that is refused is refused for good: not only those outdated by *)
(* a logout, a switch or a change of a membership, but also those whose    *)
(* membership is inactive, when that membership is activated again.        *)
Usable(token) == Honoured(token) /\ Active(token.tenant)
RefusedForGood ==
  [][\A token \in issued : Usable(token)' => Usable(token)]_vars

(* The tokens implement ActiveSessions: a change of a membership ends all  *)
(* the user's sessions, in every tenant ("Changing a Membership            *)
(* invalidates the affected User's sessions").                             *)
Live == {token.tenant : token \in {s \in issued : Honoured(s)}}
Promised == INSTANCE ActiveSessions WITH live <- Live
ImplementsActiveSessions == Promised!Spec
=============================================================================
