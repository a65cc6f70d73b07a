------------------------ MODULE InvitationAcceptance ------------------------
(***************************************************************************)
(* The invitations of one e-mail address, and the requests that accept     *)
(* them, with a password or with the Google identity of that address.      *)
(*                                                                         *)
(* A request finds the invitation, then the account, each in a transaction *)
(* of its own, and accepts in a third one.  The account may be created in  *)
(* between, by a registration, by the bootstrap of the super administrator *)
(* or by another acceptance; the invitation may be used or revoked.  In    *)
(* the third transaction the invitation and the user are locked, and a new *)
(* user's row holds off every other one with the same e-mail.              *)
(***************************************************************************)
EXTENDS Naturals

CONSTANTS
  Tenants,  \* tenants
  Copies,   \* invitations into one tenant, numbered
  Requests  \* request slots of the API servers

VARIABLES
  account,     \* the row of users with the e-mail: how it can log in
  linked,      \* is the Google identity linked to the account?
  invitation,  \* status of each invitation
  expired,     \* invitations past expires_at
  membership,  \* status of the account's membership in each tenant
  pc,          \* where each request is
  req,         \* its way of logging in, its invitation, and what it found
  result,      \* answer to the last request of each slot
  activations  \* history: memberships each invitation created or activated

rows == <<account, linked, invitation, expired, membership, activations>>
vars == <<rows, pc, req, result>>

Invitations == Tenants \X Copies
Tenant(i) == i[1]
NoRequest == [op |-> "none"]

TypeOK ==
  /\ account \in {"none", "password", "external", "super"}
  /\ linked \in BOOLEAN
  /\ invitation \in [Invitations -> {"absent", "open", "used", "revoked"}]
  /\ expired \subseteq Invitations
  /\ membership \in [Tenants -> {"absent", "inactive", "active"}]
  /\ pc \in [Requests -> {"idle", "found", "lookedUp", "locked", "identified", "linking"}]
  /\ req \in [Requests -> {NoRequest} \cup
                [op : {"password", "external"}, inv : Invitations, existing : BOOLEAN]]
  /\ result \in [Requests -> {"none", "accepted", "invalid", "unauthorized",
                              "email_taken", "identity_conflict", "conflict",
                              "internal"}]
  /\ activations \in [Invitations -> Nat]

Init ==
  /\ account = "none"
  /\ linked = FALSE
  /\ invitation = [i \in Invitations |-> "absent"]
  /\ expired = {}
  /\ membership = [t \in Tenants |-> "absent"]
  /\ pc = [r \in Requests |-> "idle"]
  /\ req = [r \in Requests |-> NoRequest]
  /\ result = [r \in Requests |-> "none"]
  /\ activations = [i \in Invitations |-> 0]

Goto(r, label) == pc' = [pc EXCEPT ![r] = label]

(* The request is answered; a transaction under way is rolled back.        *)
Answer(r, answer) ==
  /\ Goto(r, "idle")
  /\ req' = [req EXCEPT ![r] = NoRequest]
  /\ result' = [result EXCEPT ![r] = answer]

Refuse(r, answer) == Answer(r, answer) /\ UNCHANGED rows
Proceed(r, label) == Goto(r, label) /\ UNCHANGED <<rows, req, result>>

Open(i) == invitation[i] = "open" /\ i \notin expired

-----------------------------------------------------------------------------
(* Row locks of the third transaction.                                     *)

InTransaction(r) == pc[r] \in {"locked", "identified", "linking"}
InvitationFree(i) == \A r \in Requests : ~(InTransaction(r) /\ req[r].inv = i)

(* The row of the user is locked, or inserted and not yet committed.       *)
HoldsUser(r) == pc[r] \in {"identified", "linking"}
UserFree == \A r \in Requests : ~HoldsUser(r)

-----------------------------------------------------------------------------
(* AcceptInvitation and AcceptExternalInvitation                           *)

(* findInvitation looks at used_at and expires_at, not at revoked_at.      *)
(* Requests it turns away, and those with another e-mail, are left out.    *)
FindInvitation(r, i) ==
  /\ pc[r] = "idle"
  /\ invitation[i] \in {"open", "revoked"} /\ i \notin expired
  /\ \E op \in {"password", "external"} :
       req' = [req EXCEPT ![r] = [op |-> op, inv |-> i, existing |-> FALSE]]
  /\ result' = [result EXCEPT ![r] = "none"]
  /\ Goto(r, "found")
  /\ UNCHANGED rows

(* The password given is that of the account: the others are turned away.  *)
FindByEmail(r) ==
  /\ pc[r] = "found"
  /\ \/ /\ account \in {"none", "password"}
        /\ req' = [req EXCEPT ![r].existing = (account = "password")]
        /\ Goto(r, "lookedUp")
        /\ UNCHANGED <<rows, result>>
     \/ account = "super" /\ Refuse(r, "unauthorized")
     \* Scan finds NULL for the password hash of an account without password.
     \/ account = "external" /\ Refuse(r, "internal")

(* Mutant: the invitation is read without FOR UPDATE.                      *)
ReadInvitation(r) ==
  /\ pc[r] = "lookedUp"
  /\ IF Open(req[r].inv) THEN Proceed(r, "locked") ELSE Refuse(r, "invalid")

lockedInvitation(r) ==
  /\ pc[r] = "lookedUp" /\ InvitationFree(req[r].inv)
  /\ IF Open(req[r].inv) THEN Proceed(r, "locked") ELSE Refuse(r, "invalid")

(* Mutant: the account that turned up meanwhile is taken as the user.      *)
acceptIdentityOnConflict(r) ==
  /\ pc[r] = "locked" /\ UserFree
  /\ Proceed(r, "identified")

(* The user is locked, or inserted: users_email_unique makes the insertion *)
(* wait for another one under way, and fail when there is one.             *)
acceptIdentity(r) ==
  /\ pc[r] = "locked" /\ UserFree
  /\ IF req[r].existing \/ account = "none"
     THEN Proceed(r, "identified")
     ELSE Refuse(r, "email_taken")

linkInvitationIdentity(r) ==
  /\ pc[r] = "identified" /\ req[r].op = "external"
  /\ IF linked THEN Refuse(r, "identity_conflict") ELSE Proceed(r, "linking")

(* The user is known, and so is the Google identity if there is one.       *)
Identified(r) == pc[r] = (IF req[r].op = "external" THEN "linking" ELSE "identified")

(* createMembership for a membership that is active already.               *)
AlreadyMember(r) ==
  /\ Identified(r)
  /\ membership[Tenant(req[r].inv)] = "active"
  /\ Refuse(r, "conflict")

(* createMembership, the rotation of the session, markInvitationUsed, the  *)
(* audit event and the commit.                                             *)
Accept(r) ==
  LET i == req[r].inv IN
  /\ Identified(r) /\ membership[Tenant(i)] # "active"
  /\ account' = IF req[r].existing THEN account ELSE req[r].op
  /\ linked' = (linked \/ req[r].op = "external")
  /\ membership' = [membership EXCEPT ![Tenant(i)] = "active"]
  /\ invitation' = [invitation EXCEPT ![i] = "used"]
  /\ activations' = [activations EXCEPT ![i] = @ + 1]
  /\ Answer(r, "accepted")
  /\ UNCHANGED expired

(* The connection is lost, or the client gives up.                         *)
Fail(r) == pc[r] # "idle" /\ Refuse(r, "none")

-----------------------------------------------------------------------------
(* What happens meanwhile                                                  *)

CreateInvitation(i) ==
  /\ invitation[i] = "absent"
  /\ invitation' = [invitation EXCEPT ![i] = "open"]
  /\ UNCHANGED <<account, linked, expired, membership, activations, pc, req, result>>

RevokeInvitation(i) ==
  /\ invitation[i] = "open" /\ InvitationFree(i)
  /\ invitation' = [invitation EXCEPT ![i] = "revoked"]
  /\ UNCHANGED <<account, linked, expired, membership, activations, pc, req, result>>

Expire(i) ==
  /\ invitation[i] # "absent"
  /\ expired' = expired \cup {i}
  /\ UNCHANGED <<account, linked, invitation, membership, activations, pc, req, result>>

(* CreateTenantOwner inserts the user, in a tenant of its own.             *)
Register ==
  /\ account = "none" /\ UserFree
  /\ account' = "password"
  /\ UNCHANGED <<linked, invitation, expired, membership, activations, pc, req, result>>

(* Mutant: the bootstrap takes the account it finds.                       *)
PromoteSuperAdmin ==
  /\ UserFree
  /\ account' = "super"
  /\ UNCHANGED <<linked, invitation, expired, membership, activations, pc, req, result>>

(* An account it finds that is no super administrator is an error.         *)
EnsureSuperAdmin ==
  /\ account = "none" /\ UserFree
  /\ account' = "super"
  /\ UNCHANGED <<linked, invitation, expired, membership, activations, pc, req, result>>

LinkExternalIdentity ==
  /\ account = "password" /\ ~linked /\ UserFree
  /\ linked' = TRUE
  /\ UNCHANGED <<account, invitation, expired, membership, activations, pc, req, result>>

(* Mutant: the status is not checked.                                      *)
UpdateMembershipUnchecked(t) ==
  /\ membership[t] # "absent"
  /\ \E s \in {"inactive", "active", "deleted"} :
       membership' = [membership EXCEPT ![t] = s]
  /\ UNCHANGED <<account, linked, invitation, expired, activations, pc, req, result>>

UpdateMembership(t) ==
  /\ membership[t] # "absent"
  /\ \E s \in {"inactive", "active"} : membership' = [membership EXCEPT ![t] = s]
  /\ UNCHANGED <<account, linked, invitation, expired, activations, pc, req, result>>

Next ==
  \/ \E r \in Requests :
       \/ \E i \in Invitations : FindInvitation(r, i)
       \/ FindByEmail(r) \/ lockedInvitation(r) \/ acceptIdentity(r)
       \/ linkInvitationIdentity(r) \/ AlreadyMember(r) \/ Accept(r) \/ Fail(r)
  \/ \E i \in Invitations : CreateInvitation(i) \/ RevokeInvitation(i) \/ Expire(i)
  \/ Register \/ EnsureSuperAdmin \/ LinkExternalIdentity
  \/ \E t \in Tenants : UpdateMembership(t)

Spec == Init /\ [][Next]_vars
-----------------------------------------------------------------------------
(***************************************************************************)
(* Properties                                                              *)
(***************************************************************************)

(* "An Invitation creates or activates exactly one Membership once         *)
(* accepted", however many requests, in how many tenants, accept at once;  *)
(* one that is revoked or open has created none.                           *)
ActivatesOnce ==
  \A i \in Invitations : activations[i] = IF invitation[i] = "used" THEN 1 ELSE 0

(* A request that found no account, and so verified no password, never     *)
(* joins one: if the e-mail has got an account meanwhile, it is refused.   *)
NewcomersAreNew ==
  [][\A r \in Requests :
       result[r] # "accepted" /\ result'[r] = "accepted" /\ ~req[r].existing =>
         account = "none"]_vars

(* "Super Administrators stay global and cannot hold Memberships",         *)
(* although the account is looked up before it is written.                 *)
SuperAdministratorIsGlobal ==
  account = "super" => \A t \in Tenants : membership[t] = "absent"

(* Acceptance "creates or resolves the User": no account of an invited     *)
(* e-mail makes a request fail with an internal error.                     *)
UserIsResolved == \A r \in Requests : result[r] # "internal"
=============================================================================
