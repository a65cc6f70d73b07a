-------------------------- MODULE AcceptanceProofs --------------------------
(***************************************************************************)
(* TLAPS proofs about InvitationAcceptance, for any tenants, invitations   *)
(* and number of concurrent requests.                                      *)
(***************************************************************************)
EXTENDS InvitationAcceptance, TLAPS

(* The locks exclude.                                                      *)
InvitationExclusive ==
  \A r, s \in Requests :
    InTransaction(r) /\ InTransaction(s) /\ req[r].inv = req[s].inv => r = s
UserExclusive ==
  \A r, s \in Requests : HoldsUser(r) /\ HoldsUser(s) => r = s

(* What a request has found stays true while it goes on.                   *)
RequestInv(r) ==
  /\ pc[r] # "idle" =>
       req[r] \in [op : {"password", "external"}, inv : Invitations, existing : BOOLEAN]
  /\ pc[r] # "idle" /\ req[r].existing => account = "password"
  /\ InTransaction(r) => invitation[req[r].inv] = "open"
  /\ HoldsUser(r) /\ ~req[r].existing => account = "none"

(* Who has a membership or an identity has an account.                     *)
AccountInv ==
  account \in {"none", "super"} =>
    ~linked /\ \A t \in Tenants : membership[t] = "absent"

(* The inductive invariant.                                                *)
IInv ==
  /\ TypeOK
  /\ InvitationExclusive
  /\ UserExclusive
  /\ \A r \in Requests : RequestInv(r)
  /\ AccountInv
  /\ ActivatesOnce

-----------------------------------------------------------------------------
LEMMA InitIInv == Init => IInv
<1> SUFFICES ASSUME Init PROVE IInv
  OBVIOUS
<1>1. TypeOK
  BY DEF Init, TypeOK
<1>2. InvitationExclusive /\ UserExclusive /\ \A r \in Requests : RequestInv(r)
  BY DEF Init, InvitationExclusive, UserExclusive, RequestInv, InTransaction, HoldsUser
<1>3. AccountInv /\ ActivatesOnce
  BY DEF Init, AccountInv, ActivatesOnce
<1> QED
  BY <1>1, <1>2, <1>3 DEF IInv

(* A request that changes no row.                                          *)
LEMMA QuietKeeps ==
  ASSUME IInv, NEW r \in Requests, UNCHANGED rows, TypeOK',
         \A s \in Requests \ {r} : pc'[s] = pc[s] /\ req'[s] = req[s],
         RequestInv(r)',
         InTransaction(r)' /\ ~InTransaction(r) => InvitationFree(req[r].inv),
         InTransaction(r)' => req'[r].inv = req[r].inv,
         HoldsUser(r)' /\ ~HoldsUser(r) => UserFree
  PROVE  IInv'
<1>1. ASSUME NEW s \in Requests \ {r}
      PROVE  RequestInv(s)' /\ (InTransaction(s)' = InTransaction(s))
                            /\ (HoldsUser(s)' = HoldsUser(s))
  BY DEF IInv, RequestInv, InTransaction, HoldsUser, rows
<1>2. InvitationExclusive'
  BY <1>1 DEF IInv, InvitationExclusive, InvitationFree
<1>3. UserExclusive'
  BY <1>1 DEF IInv, UserExclusive, UserFree
<1>4. AccountInv' /\ ActivatesOnce'
  BY DEF IInv, AccountInv, ActivatesOnce, rows
<1> QED
  BY <1>1, <1>2, <1>3, <1>4 DEF IInv

(* A request is answered without effect.                                   *)
LEMMA RefuseKeeps ==
  ASSUME IInv, NEW r \in Requests,
         NEW a \in {"none", "invalid", "unauthorized", "email_taken",
                    "identity_conflict", "conflict", "internal"},
         Refuse(r, a)
  PROVE  IInv'
<1>1. /\ UNCHANGED rows
      /\ pc' = [pc EXCEPT ![r] = "idle"] /\ req' = [req EXCEPT ![r] = NoRequest]
      /\ result' = [result EXCEPT ![r] = a]
  BY DEF Refuse, Answer, Goto
<1>2. TypeOK'
  BY <1>1 DEF IInv, TypeOK, rows
<1>3. pc'[r] = "idle" /\ \A s \in Requests \ {r} : pc'[s] = pc[s] /\ req'[s] = req[s]
  BY <1>1 DEF IInv, TypeOK
<1>4. RequestInv(r)' /\ ~InTransaction(r)' /\ ~HoldsUser(r)'
  BY <1>3 DEF RequestInv, InTransaction, HoldsUser
<1> QED
  BY <1>1, <1>2, <1>3, <1>4, QuietKeeps

(* A request goes on to its next statement.                                *)
LEMMA ProceedKeeps ==
  ASSUME IInv, NEW r \in Requests, pc[r] # "idle",
         NEW label \in {"locked", "identified", "linking"},
         Proceed(r, label),
         pc[r] = "lookedUp" => InvitationFree(req[r].inv) /\ Open(req[r].inv),
         pc[r] # "lookedUp" => InTransaction(r),
         label \in {"identified", "linking"} =>
           HoldsUser(r) \/ (UserFree /\ (req[r].existing \/ account = "none"))
  PROVE  IInv'
<1>1. /\ UNCHANGED <<rows, req, result>>
      /\ pc' = [pc EXCEPT ![r] = label]
  BY DEF Proceed, Goto
<1>2. TypeOK'
  BY <1>1 DEF IInv, TypeOK, rows
<1>3. pc'[r] = label /\ \A s \in Requests \ {r} : pc'[s] = pc[s] /\ req'[s] = req[s]
  BY <1>1 DEF IInv, TypeOK
<1>4. RequestInv(r)'
  BY <1>1, <1>3 DEF IInv, RequestInv, InTransaction, HoldsUser, Open, rows
<1>5. /\ InTransaction(r)' /\ ~InTransaction(r) => InvitationFree(req[r].inv)
      /\ req'[r].inv = req[r].inv
      /\ HoldsUser(r)' /\ ~HoldsUser(r) => UserFree
  BY <1>1, <1>3 DEF InTransaction, HoldsUser
<1> QED
  BY <1>1, <1>2, <1>3, <1>4, <1>5, QuietKeeps

LEMMA FindInvitationKeeps ==
  ASSUME IInv, NEW r \in Requests, NEW i \in Invitations, FindInvitation(r, i)
  PROVE  IInv'
<1>1. PICK op \in {"password", "external"} :
        req' = [req EXCEPT ![r] = [op |-> op, inv |-> i, existing |-> FALSE]]
  BY DEF FindInvitation
<1>2. UNCHANGED rows /\ pc' = [pc EXCEPT ![r] = "found"]
      /\ result' = [result EXCEPT ![r] = "none"]
  BY DEF FindInvitation, Goto
<1>3. TypeOK'
  BY <1>1, <1>2 DEF IInv, TypeOK, rows
<1>4. /\ pc'[r] = "found"
      /\ req'[r] = [op |-> op, inv |-> i, existing |-> FALSE]
      /\ \A s \in Requests \ {r} : pc'[s] = pc[s] /\ req'[s] = req[s]
  BY <1>1, <1>2 DEF IInv, TypeOK
<1>5. RequestInv(r)' /\ ~InTransaction(r)' /\ ~HoldsUser(r)'
  BY <1>4 DEF RequestInv, InTransaction, HoldsUser
<1> QED
  BY <1>2, <1>3, <1>4, <1>5, QuietKeeps

LEMMA FindByEmailKeeps ==
  ASSUME IInv, NEW r \in Requests, FindByEmail(r)
  PROVE  IInv'
<1>1. CASE Refuse(r, "unauthorized") \/ Refuse(r, "internal")
  BY <1>1, RefuseKeeps
<1>2. CASE /\ pc[r] = "found"
           /\ req' = [req EXCEPT ![r].existing = (account = "password")]
           /\ Goto(r, "lookedUp")
           /\ UNCHANGED <<rows, result>>
  <2>1. /\ UNCHANGED rows /\ pc'[r] = "lookedUp"
        /\ req'[r] = [req[r] EXCEPT !.existing = (account = "password")]
        /\ \A s \in Requests \ {r} : pc'[s] = pc[s] /\ req'[s] = req[s]
    BY <1>2 DEF IInv, TypeOK, Goto
  <2>2. req[r] \in [op : {"password", "external"}, inv : Invitations, existing : BOOLEAN]
    BY <1>2 DEF IInv, RequestInv
  <2>3. (account = "password") \in BOOLEAN
    OBVIOUS
  <2>4. /\ req'[r] \in [op : {"password", "external"}, inv : Invitations, existing : BOOLEAN]
        /\ req'[r].existing => account = "password"
    BY <2>1, <2>2, <2>3
  <2>5. TypeOK'
    <3>1. req' \in [Requests -> {NoRequest} \cup
                     [op : {"password", "external"}, inv : Invitations, existing : BOOLEAN]]
      BY <1>2, <2>1, <2>4 DEF IInv, TypeOK
    <3> QED
      BY <1>2, <3>1 DEF IInv, TypeOK, Goto, rows
  <2>6. RequestInv(r)' /\ ~InTransaction(r)' /\ ~HoldsUser(r)'
    BY <2>1, <2>4 DEF RequestInv, InTransaction, HoldsUser, rows
  <2> QED
    BY <2>1, <2>5, <2>6, QuietKeeps
<1> QED
  BY <1>1, <1>2 DEF FindByEmail

LEMMA StatementKeeps ==
  ASSUME IInv, NEW r \in Requests,
         \/ lockedInvitation(r) \/ acceptIdentity(r) \/ linkInvitationIdentity(r)
         \/ AlreadyMember(r) \/ Fail(r)
  PROVE  IInv'
<1>1. CASE lockedInvitation(r)
  BY <1>1, ProceedKeeps, RefuseKeeps DEF lockedInvitation
<1>2. CASE acceptIdentity(r)
  BY <1>2, ProceedKeeps, RefuseKeeps DEF acceptIdentity, InTransaction
<1>3. CASE linkInvitationIdentity(r)
  BY <1>3, ProceedKeeps, RefuseKeeps DEF linkInvitationIdentity, InTransaction, HoldsUser
<1>4. CASE AlreadyMember(r) \/ Fail(r)
  BY <1>4, RefuseKeeps DEF AlreadyMember, Fail
<1> QED
  BY <1>1, <1>2, <1>3, <1>4

(* An acceptance is committed.                                             *)
LEMMA AcceptKeeps ==
  ASSUME IInv, NEW r \in Requests, Accept(r)
  PROVE  IInv'
<1> DEFINE i == req[r].inv
<1>1. /\ pc' = [pc EXCEPT ![r] = "idle"] /\ req' = [req EXCEPT ![r] = NoRequest]
      /\ result' = [result EXCEPT ![r] = "accepted"]
      /\ account' = IF req[r].existing THEN account ELSE req[r].op
      /\ linked' = (linked \/ req[r].op = "external")
      /\ membership' = [membership EXCEPT ![Tenant(i)] = "active"]
      /\ invitation' = [invitation EXCEPT ![i] = "used"]
      /\ activations' = [activations EXCEPT ![i] = @ + 1]
      /\ UNCHANGED expired
  BY DEF Accept, Answer, Goto
<1>2. /\ HoldsUser(r) /\ InTransaction(r) /\ pc[r] # "idle"
      /\ req[r].op = "external" => pc[r] = "linking"
  BY DEF Accept, Identified, HoldsUser, InTransaction
<1>3. /\ i \in Invitations /\ Tenant(i) \in Tenants /\ invitation[i] = "open"
      /\ req[r].op \in {"password", "external"} /\ req[r].existing \in BOOLEAN
      /\ req[r].existing => account = "password"
      /\ ~req[r].existing => account = "none"
  BY <1>2 DEF IInv, RequestInv, Invitations, Tenant
<1>4. TypeOK'
  BY <1>1, <1>3 DEF IInv, TypeOK
<1>5. /\ pc'[r] = "idle" /\ ~InTransaction(r)' /\ ~HoldsUser(r)'
      /\ \A s \in Requests \ {r} : pc'[s] = pc[s] /\ req'[s] = req[s]
  BY <1>1 DEF IInv, TypeOK, InTransaction, HoldsUser
<1>6. ASSUME NEW s \in Requests \ {r}
      PROVE  /\ ~HoldsUser(s)
             /\ InTransaction(s)' = InTransaction(s) /\ HoldsUser(s)' = HoldsUser(s)
             /\ InTransaction(s) => req[s].inv # i
  BY <1>2, <1>5 DEF IInv, UserExclusive, InvitationExclusive, InTransaction, HoldsUser
<1>7. InvitationExclusive' /\ UserExclusive'
  BY <1>5, <1>6 DEF IInv, InvitationExclusive, UserExclusive
<1>8. ASSUME NEW s \in Requests
      PROVE  RequestInv(s)'
  <2>1. CASE s = r
    BY <2>1, <1>5 DEF RequestInv
  <2>2. CASE s # r
    <3>1. pc[s] # "idle" => req[s].inv \in Invitations
      BY DEF IInv, RequestInv
    <3>2. InTransaction(s) => invitation'[req[s].inv] = invitation[req[s].inv]
      BY <1>1, <1>6, <2>2, <3>1 DEF IInv, TypeOK, InTransaction
    <3>3. pc[s] # "idle" /\ req[s].existing => account' = "password"
      BY <1>1, <1>3, <2>2 DEF IInv, RequestInv
    <3> QED
      BY <1>5, <1>6, <2>2, <3>2, <3>3 DEF IInv, RequestInv
  <2> QED
    BY <2>1, <2>2
<1>9. AccountInv'
  BY <1>1, <1>3 DEF AccountInv
<1>10. ActivatesOnce'
  BY <1>1, <1>3 DEF IInv, TypeOK, ActivatesOnce
<1> QED
  BY <1>4, <1>7, <1>8, <1>9, <1>10 DEF IInv

(* Invitations are created, revoked, or expire.                            *)
LEMMA InvitationStepKeeps ==
  ASSUME IInv, NEW i \in Invitations,
         CreateInvitation(i) \/ RevokeInvitation(i) \/ Expire(i)
  PROVE  IInv'
<1>1. UNCHANGED <<account, linked, membership, activations, pc, req, result>>
  BY DEF CreateInvitation, RevokeInvitation, Expire
<1>2. TypeOK'
  BY <1>1 DEF IInv, TypeOK, CreateInvitation, RevokeInvitation, Expire
<1>3. InvitationExclusive' /\ UserExclusive' /\ AccountInv'
  BY <1>1 DEF IInv, InvitationExclusive, UserExclusive, AccountInv, InTransaction, HoldsUser
<1>4. \A j \in Invitations : invitation'[j] = "used" <=> invitation[j] = "used"
  BY DEF IInv, TypeOK, CreateInvitation, RevokeInvitation, Expire
<1>5. ActivatesOnce'
  BY <1>1, <1>4 DEF IInv, ActivatesOnce
<1>6. ASSUME NEW s \in Requests
      PROVE  RequestInv(s)'
  <2>1. InTransaction(s) => invitation'[req[s].inv] = "open"
    BY DEF IInv, TypeOK, RequestInv, CreateInvitation, RevokeInvitation, Expire,
           InvitationFree, InTransaction
  <2> QED
    BY <1>1, <2>1 DEF IInv, RequestInv, InTransaction, HoldsUser
<1> QED
  BY <1>2, <1>3, <1>5, <1>6 DEF IInv

(* The account comes about otherwise, or its memberships change.           *)
LEMMA AccountStepKeeps ==
  ASSUME IInv,
         \/ Register \/ EnsureSuperAdmin \/ LinkExternalIdentity
         \/ \E t \in Tenants : UpdateMembership(t)
  PROVE  IInv'
<1>1. UNCHANGED <<invitation, expired, activations, pc, req, result>>
  BY DEF Register, EnsureSuperAdmin, LinkExternalIdentity, UpdateMembership
<1>2. TypeOK'
  <2>1. account' \in {"none", "password", "external", "super"} /\ linked' \in BOOLEAN
    BY DEF IInv, TypeOK, Register, EnsureSuperAdmin, LinkExternalIdentity,
           UpdateMembership
  <2>2. membership' \in [Tenants -> {"absent", "inactive", "active"}]
    <3>1. CASE UNCHANGED membership
      BY <3>1 DEF IInv, TypeOK
    <3>2. ASSUME NEW t \in Tenants, NEW s \in {"inactive", "active"},
                 membership' = [membership EXCEPT ![t] = s]
          PROVE  membership' \in [Tenants -> {"absent", "inactive", "active"}]
      BY <3>2 DEF IInv, TypeOK
    <3> QED
      BY <3>1, <3>2 DEF Register, EnsureSuperAdmin, LinkExternalIdentity, UpdateMembership
  <2> QED
    BY <1>1, <2>1, <2>2 DEF IInv, TypeOK
<1>3. InvitationExclusive' /\ UserExclusive' /\ ActivatesOnce'
  BY <1>1 DEF IInv, InvitationExclusive, UserExclusive, ActivatesOnce, InTransaction,
         HoldsUser
<1>4. AccountInv'
  BY DEF IInv, TypeOK, AccountInv, Register, EnsureSuperAdmin, LinkExternalIdentity,
         UpdateMembership
<1>5. account' = account \/ (account = "none" /\ UserFree)
  BY DEF Register, EnsureSuperAdmin, LinkExternalIdentity, UpdateMembership
<1>6. ASSUME NEW s \in Requests
      PROVE  RequestInv(s)'
  BY <1>1, <1>5 DEF IInv, RequestInv, InTransaction, HoldsUser, UserFree
<1> QED
  BY <1>2, <1>3, <1>4, <1>6 DEF IInv

LEMMA NextIInv == IInv /\ [Next]_vars => IInv'
<1> SUFFICES ASSUME IInv, [Next]_vars PROVE IInv'
  OBVIOUS
<1>1. CASE Next
  BY <1>1, FindInvitationKeeps, FindByEmailKeeps, StatementKeeps, AcceptKeeps,
     InvitationStepKeeps, AccountStepKeeps DEF Next
<1>2. CASE UNCHANGED vars
  BY <1>2 DEF IInv, vars, rows, TypeOK, InvitationExclusive, UserExclusive, RequestInv,
         AccountInv, ActivatesOnce, InTransaction, HoldsUser
<1> QED
  BY <1>1, <1>2

LEMMA Inductive == Spec => []IInv
BY InitIInv, NextIInv, PTL DEF Spec

-----------------------------------------------------------------------------
(***************************************************************************)
(* Theorems                                                                *)
(***************************************************************************)

(* The variables keep their types.                                         *)
THEOREM TypeCorrect == Spec => []TypeOK
BY Inductive, PTL DEF IInv

(* An invitation activates one membership if it is used, and none if not.  *)
THEOREM Activates == Spec => []ActivatesOnce
BY Inductive, PTL DEF IInv

(* A super administrator has no membership.                                *)
THEOREM SuperAdministrator == Spec => []SuperAdministratorIsGlobal
<1>1. IInv => SuperAdministratorIsGlobal
  BY DEF IInv, AccountInv, SuperAdministratorIsGlobal
<1> QED
  BY <1>1, Inductive, PTL

(* Who is accepted without a verified password had no account.             *)
THEOREM Newcomers == Spec => NewcomersAreNew
<1>1. ASSUME IInv, [Next]_vars, NEW r \in Requests,
             result[r] # "accepted", result'[r] = "accepted", ~req[r].existing
      PROVE  account = "none"
  <2>1. PICK s \in Requests : Accept(s)
    BY <1>1 DEF IInv, TypeOK, Next, vars, FindInvitation, FindByEmail, lockedInvitation,
           acceptIdentity, linkInvitationIdentity, AlreadyMember, Fail, Refuse,
           Proceed, Answer, Goto, CreateInvitation, RevokeInvitation, Expire, Register,
           EnsureSuperAdmin, LinkExternalIdentity, UpdateMembership
  <2>2. s = r
    BY <1>1, <2>1 DEF IInv, TypeOK, Accept, Answer
  <2>3. HoldsUser(r)
    BY <2>1, <2>2 DEF Accept, Identified, HoldsUser
  <2> QED
    BY <1>1, <2>3 DEF IInv, RequestInv
<1>2. IInv /\ [Next]_vars =>
        [\A r \in Requests :
           result[r] # "accepted" /\ result'[r] = "accepted" /\ ~req[r].existing =>
             account = "none"]_vars
  BY <1>1
<1> QED
  BY <1>2, Inductive, PTL DEF Spec, NewcomersAreNew

-----------------------------------------------------------------------------
(* Accounts, and what becomes of one without a password.                   *)

(* The row of a user is written once: acceptances, registrations and the   *)
(* bootstrap neither replace an account nor give it another way to log in, *)
(* and no identity is unlinked.                                            *)
AccountStays == [][(account # "none" => account' = account) /\ (linked => linked')]_vars

(* FindByEmail fails internally for an account without a password only.    *)
InternalHasCause == \A r \in Requests : result[r] = "internal" => account = "external"

(* Such an account never accepts an invitation: finding it fails, and who  *)
(* did not find it cannot insert it.                                       *)
ExternalNeverAccepts ==
  [][account = "external" =>
       \A r \in Requests : result'[r] = "accepted" => result[r] = "accepted"]_vars

LEMMA AccountSteps ==
  ASSUME IInv, [Next]_vars
  PROVE  (account # "none" => account' = account) /\ (linked => linked')
<1>1. ASSUME NEW r \in Requests, Accept(r)
      PROVE  (account # "none" => account' = account) /\ (linked => linked')
  <2>1. HoldsUser(r)
    BY <1>1 DEF Accept, Identified, HoldsUser
  <2>2. ~req[r].existing => account = "none"
    BY <2>1 DEF IInv, RequestInv
  <2> QED
    BY <1>1, <2>2 DEF Accept
<1>2. CASE Register \/ EnsureSuperAdmin \/ LinkExternalIdentity
  BY <1>2 DEF Register, EnsureSuperAdmin, LinkExternalIdentity
<1>3. CASE \E r \in Requests :
             \/ \E i \in Invitations : FindInvitation(r, i)
             \/ FindByEmail(r) \/ lockedInvitation(r) \/ acceptIdentity(r)
             \/ linkInvitationIdentity(r) \/ AlreadyMember(r) \/ Fail(r)
  <2>1. UNCHANGED rows
    BY <1>3 DEF FindInvitation, FindByEmail, lockedInvitation, acceptIdentity,
           linkInvitationIdentity, AlreadyMember, Fail, Refuse, Proceed
  <2> QED
    BY <2>1 DEF rows
<1>4. CASE \/ \E i \in Invitations :
                CreateInvitation(i) \/ RevokeInvitation(i) \/ Expire(i)
           \/ \E t \in Tenants : UpdateMembership(t)
           \/ UNCHANGED vars
  <2>1. account' = account /\ linked' = linked
    BY <1>4 DEF CreateInvitation, RevokeInvitation, Expire, UpdateMembership, vars, rows
  <2> QED
    BY <2>1
<1> QED
  BY <1>1, <1>2, <1>3, <1>4 DEF Next

LEMMA Results ==
  ASSUME IInv, [Next]_vars, NEW r \in Requests, result'[r] # result[r]
  PROVE  /\ result'[r] = "internal" => account = "external"
         /\ result'[r] = "accepted" => account # "external"
<1>1. PICK s \in Requests :
        \/ \E i \in Invitations : FindInvitation(s, i)
        \/ FindByEmail(s) \/ lockedInvitation(s) \/ acceptIdentity(s)
        \/ linkInvitationIdentity(s) \/ AlreadyMember(s) \/ Accept(s) \/ Fail(s)
  BY DEF Next, vars, CreateInvitation, RevokeInvitation, Expire, Register,
         EnsureSuperAdmin, LinkExternalIdentity, UpdateMembership
<1>2. CASE Accept(s)
  <2>1. s = r /\ result'[r] = "accepted"
    BY <1>2 DEF IInv, TypeOK, Accept, Answer
  <2>2. HoldsUser(r) /\ pc[r] # "idle"
    BY <1>2, <2>1 DEF Accept, Identified, HoldsUser
  <2>3. account = "password" \/ account = "none"
    BY <2>2 DEF IInv, RequestInv
  <2> QED
    BY <2>1, <2>3
<1>3. CASE FindByEmail(s)
  <2>1. result'[r] = "internal" => account = "external"
    BY <1>3 DEF IInv, TypeOK, FindByEmail, Refuse, Answer
  <2>2. result'[r] # "accepted"
    BY <1>3 DEF IInv, TypeOK, FindByEmail, Refuse, Answer
  <2> QED
    BY <2>1, <2>2
<1>4. CASE \E i \in Invitations : FindInvitation(s, i)
  BY <1>4 DEF IInv, TypeOK, FindInvitation
<1>5. CASE \/ lockedInvitation(s) \/ acceptIdentity(s) \/ linkInvitationIdentity(s)
           \/ AlreadyMember(s) \/ Fail(s)
  <2>1. \E a \in {"none", "invalid", "email_taken", "identity_conflict", "conflict"} :
          result' = [result EXCEPT ![s] = a] \/ result' = result
    BY <1>5 DEF lockedInvitation, acceptIdentity, linkInvitationIdentity, AlreadyMember,
           Fail, Refuse, Answer, Proceed
  <2> QED
    BY <2>1 DEF IInv, TypeOK
<1> QED
  BY <1>1, <1>2, <1>3, <1>4, <1>5

(* acceptIdentity, CreateTenantOwner and EnsureSuperAdmin only insert.     *)
THEOREM AccountKept == Spec => AccountStays
<1>1. IInv /\ [Next]_vars =>
        [(account # "none" => account' = account) /\ (linked => linked')]_vars
  BY AccountSteps
<1> QED
  BY <1>1, Inductive, PTL DEF Spec, AccountStays

(* A failed scan of the password hash is the only internal error of an     *)
(* acceptance, and the account it failed for keeps failing.                *)
THEOREM InternalErrors == Spec => []InternalHasCause
<1>1. Init => InternalHasCause
  BY DEF Init, InternalHasCause
<1>2. IInv /\ InternalHasCause /\ [Next]_vars => InternalHasCause'
  BY AccountSteps, Results DEF InternalHasCause
<1> QED
  BY <1>1, <1>2, Inductive, PTL DEF Spec

(* No acceptance, by password or by Google, of an account that was created *)
(* with Google ever succeeds.                                              *)
THEOREM ExternalStuck == Spec => ExternalNeverAccepts
<1>1. IInv /\ [Next]_vars =>
        [account = "external" =>
           \A r \in Requests : result'[r] = "accepted" => result[r] = "accepted"]_vars
  BY Results
<1> QED
  BY <1>1, Inductive, PTL DEF Spec, ExternalNeverAccepts
=============================================================================
