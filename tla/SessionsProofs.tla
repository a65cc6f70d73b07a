--------------------------- MODULE SessionsProofs ---------------------------
(***************************************************************************)
(* TLAPS proofs about Sessions, for any tenants, number of concurrent      *)
(* requests and number of versions.                                        *)
(***************************************************************************)
EXTENDS Sessions, TLAPS

(* Nobody knows a version that the user has not reached.                   *)
NotAhead ==
  /\ \A token \in issued : token.version <= sessionVersion
  /\ \A r \in Requests : req[r].version <= sessionVersion

(* What a request has found out.                                           *)
RequestInv(r) ==
  /\ pc[r] = "found" => req[r].op = "login"
  /\ pc[r] = "switching" => req[r].op = "switch"
  /\ pc[r] \in {"switching", "issuing"} =>
       req[r].tenant \in Tenants /\ membership[req[r].tenant] # "absent"
  /\ pc[r] = "issuing" => req[r].op \in {"login", "switch", "accept"}
  /\ pc[r] = "issuing" /\ req[r].op # "switch" /\ req[r].version = sessionVersion =>
       Active(req[r].tenant)

(* A rotation whose token is not yet sent has a version of its own.        *)
Rotating(r) == pc[r] = "issuing" /\ req[r].op # "login"
RotatingApart ==
  /\ \A r, s \in Requests :
       Rotating(r) /\ Rotating(s) /\ req[r].version = req[s].version => r = s
  /\ \A r \in Requests, token \in issued :
       Rotating(r) /\ token.op # "login" => token.version # req[r].version

(* The inductive invariant.                                                *)
IInv ==
  /\ TypeOK
  /\ NotAhead
  /\ \A r \in Requests : RequestInv(r)
  /\ LiveTokensHaveMembership
  /\ RotatingApart
  /\ RotationsDistinct

-----------------------------------------------------------------------------
(* The steps by what they change: a request's own state, the tokens, or    *)
(* the version.                                                            *)

LocalStep(r) ==
  \/ FindUser(r) \/ FirstTenant(r)
  \/ \E token \in issued : Authenticate(r, token)
  \/ SessionForUser(r) \/ FindMembership(r) \/ Fail(r)

Raise(r) == Logout(r) \/ Rotate(r) \/ \E t \in Tenants : AcceptInvitation(r, t)

LEMMA InitIInv == Init => IInv
BY DEF Init, IInv, TypeOK, NotAhead, RequestInv, LiveTokensHaveMembership,
       RotatingApart, Rotating, RotationsDistinct, NoRequest, NoTenant

(* A request reads, is authenticated, or ends.                             *)
LEMMA LocalStepKeeps ==
  ASSUME IInv, NEW r \in Requests, LocalStep(r)
  PROVE  IInv'
<1>1. UNCHANGED <<sessionVersion, membership, issued>>
  BY DEF LocalStep, FindUser, FirstTenant, Authenticate, SessionForUser,
         FindMembership, Fail
<1>2. \A s \in Requests \ {r} : pc'[s] = pc[s] /\ req'[s] = req[s]
  BY DEF IInv, TypeOK, LocalStep, FindUser, FirstTenant, Authenticate,
         SessionForUser, FindMembership, Fail, Goto, End
<1>3. TypeOK' /\ req'[r].version <= sessionVersion
  <2>1. CASE FindUser(r) \/ FirstTenant(r) \/ FindMembership(r) \/ SessionForUser(r)
    BY <2>1, <1>1 DEF IInv, TypeOK, NotAhead, FindUser, FirstTenant, FindMembership,
           SessionForUser, Goto
  <2>2. ASSUME NEW token \in issued, Authenticate(r, token)
        PROVE  TypeOK' /\ req'[r].version <= sessionVersion
    BY <2>2, <1>1 DEF IInv, TypeOK, NotAhead, Authenticate, Goto, Tokens
  <2>3. CASE Fail(r)
    BY <2>3, <1>1 DEF IInv, TypeOK, Fail, End, Goto, NoRequest, NoTenant
  <2> QED
    BY <2>1, <2>2, <2>3 DEF LocalStep
<1>4. NotAhead'
  BY <1>1, <1>2, <1>3 DEF IInv, NotAhead
<1>5. RequestInv(r)' /\ (Rotating(r)' => req'[r].op = "login")
  BY <1>1 DEF IInv, TypeOK, NotAhead, RequestInv, Rotating, LocalStep, FindUser,
         FirstTenant, Authenticate, SessionForUser, FindMembership, Fail, Goto,
         End, Active, NoRequest
<1>6. ASSUME NEW s \in Requests \ {r}
      PROVE  RequestInv(s)' /\ (Rotating(s)' <=> Rotating(s))
  BY <1>1, <1>2 DEF IInv, RequestInv, Active, Rotating
<1>7. LiveTokensHaveMembership' /\ RotationsDistinct'
  BY <1>1 DEF IInv, LiveTokensHaveMembership, RotationsDistinct, Honoured, Active
<1>8. RotatingApart'
  BY <1>1, <1>2, <1>5, <1>6 DEF IInv, RotatingApart, Rotating
<1> QED
  BY <1>3, <1>4, <1>5, <1>6, <1>7, <1>8 DEF IInv

(* A token is sent.                                                        *)
LEMMA IssueKeeps ==
  ASSUME IInv, NEW r \in Requests, Issue(r)
  PROVE  IInv'
<1> DEFINE token == [version |-> req[r].version, tenant |-> req[r].tenant,
                     op |-> req[r].op]
<1>1. /\ UNCHANGED <<sessionVersion, membership>>
      /\ issued' = issued \cup {token}
      /\ pc[r] = "issuing" /\ pc'[r] = "idle" /\ req'[r] = NoRequest
      /\ \A s \in Requests \ {r} : pc'[s] = pc[s] /\ req'[s] = req[s]
  BY DEF IInv, TypeOK, Issue, End, Goto
<1>2. token \in Tokens /\ token.version <= sessionVersion
  BY <1>1 DEF IInv, TypeOK, NotAhead, RequestInv, Tokens
<1>3. TypeOK'
  BY <1>1, <1>2 DEF IInv, TypeOK, Issue, End, Goto, NoRequest, NoTenant
<1>4. NotAhead'
  BY <1>1, <1>2 DEF IInv, TypeOK, NotAhead, NoRequest
<1>5. \A s \in Requests : RequestInv(s)'
  BY <1>1 DEF IInv, RequestInv, Active
<1>6. LiveTokensHaveMembership'
  BY <1>1 DEF IInv, LiveTokensHaveMembership, RequestInv, Honoured, Active
<1>7. \A s \in Requests : Rotating(s)' => Rotating(s) /\ s # r /\ req'[s] = req[s]
  BY <1>1 DEF Rotating
<1>8. RotatingApart' /\ RotationsDistinct'
  BY <1>1, <1>7 DEF IInv, RotatingApart, RotationsDistinct, Rotating
<1> QED
  BY <1>3, <1>4, <1>5, <1>6, <1>8 DEF IInv

(* The version is raised, by a request of the user's.                      *)
LEMMA RaiseKeeps ==
  ASSUME IInv, NEW r \in Requests, Raise(r)
  PROVE  IInv'
<1>1. /\ sessionVersion' = sessionVersion + 1
      /\ UNCHANGED issued
      /\ \A s \in Requests \ {r} : pc'[s] = pc[s] /\ req'[s] = req[s]
      /\ membership' \in [Tenants -> {"absent", "inactive", "active"}]
      /\ \A t \in Tenants : membership[t] # "absent" => membership'[t] # "absent"
  BY DEF IInv, TypeOK, Raise, Logout, Rotate, AcceptInvitation, Invalidate, End, Goto
<1>2. /\ req'[r].version <= sessionVersion'
      /\ Rotating(r)' => req'[r].version = sessionVersion'
  BY <1>1 DEF IInv, TypeOK, NotAhead, Raise, Logout, Rotate, AcceptInvitation, End,
         Goto, Rotating, NoRequest
<1>3. TypeOK'
  BY <1>1 DEF IInv, TypeOK, Raise, Logout, Rotate, AcceptInvitation, End, Goto,
         NoRequest, NoTenant
<1>4. NotAhead'
  BY <1>1, <1>2 DEF IInv, TypeOK, NotAhead, Tokens
<1>5. RequestInv(r)'
  BY <1>1 DEF IInv, TypeOK, RequestInv, Raise, Logout, Rotate, AcceptInvitation, End,
         Goto, Active, NoRequest
<1>6. ASSUME NEW s \in Requests \ {r}
      PROVE  RequestInv(s)'
  BY <1>1 DEF IInv, TypeOK, NotAhead, RequestInv
<1>7. LiveTokensHaveMembership' /\ RotationsDistinct'
  BY <1>1 DEF IInv, TypeOK, NotAhead, LiveTokensHaveMembership, RotationsDistinct,
         Honoured, Tokens
<1>8. RotatingApart'
  BY <1>1, <1>2 DEF IInv, TypeOK, NotAhead, RotatingApart, Rotating, Tokens
<1> QED
  BY <1>3, <1>4, <1>5, <1>6, <1>7, <1>8 DEF IInv

(* The version is raised, by an administrator.                             *)
LEMMA UpdateKeeps ==
  ASSUME IInv, NEW t \in Tenants, UpdateMembership(t)
  PROVE  IInv'
<1>1. /\ sessionVersion' = sessionVersion + 1
      /\ UNCHANGED <<issued, pc, req>>
      /\ membership' \in [Tenants -> {"absent", "inactive", "active"}]
      /\ \A u \in Tenants : membership[u] # "absent" => membership'[u] # "absent"
  BY DEF IInv, TypeOK, UpdateMembership, Invalidate
<1>2. TypeOK' /\ NotAhead'
  BY <1>1 DEF IInv, TypeOK, NotAhead, Tokens
<1>3. ASSUME NEW s \in Requests
      PROVE  RequestInv(s)'
  BY <1>1 DEF IInv, TypeOK, NotAhead, RequestInv
<1>4. LiveTokensHaveMembership' /\ RotationsDistinct' /\ RotatingApart'
  BY <1>1 DEF IInv, TypeOK, NotAhead, LiveTokensHaveMembership, RotationsDistinct,
         RotatingApart, Rotating, Honoured, Tokens
<1> QED
  BY <1>2, <1>3, <1>4 DEF IInv

(* A token expires.                                                        *)
LEMMA ExpireKeeps ==
  ASSUME IInv, NEW token \in issued, Expire(token)
  PROVE  IInv'
<1>1. issued' \subseteq issued /\ UNCHANGED <<sessionVersion, membership, pc, req>>
  BY DEF Expire
<1>2. TypeOK' /\ NotAhead' /\ RotatingApart'
  BY <1>1 DEF IInv, TypeOK, NotAhead, RotatingApart, Rotating
<1>3. (\A r \in Requests : RequestInv(r)') /\ LiveTokensHaveMembership' /\ RotationsDistinct'
  BY <1>1 DEF IInv, RequestInv, LiveTokensHaveMembership, RotationsDistinct, Honoured,
         Active
<1> QED
  BY <1>2, <1>3 DEF IInv

LEMMA NextIInv == IInv /\ [Next]_vars => IInv'
<1> SUFFICES ASSUME IInv, [Next]_vars PROVE IInv'
  OBVIOUS
<1>1. ASSUME NEW r \in Requests, LocalStep(r) PROVE IInv'
  BY <1>1, LocalStepKeeps
<1>2. ASSUME NEW r \in Requests, Issue(r) PROVE IInv'
  BY <1>2, IssueKeeps
<1>3. ASSUME NEW r \in Requests, Raise(r) PROVE IInv'
  BY <1>3, RaiseKeeps
<1>4. ASSUME NEW t \in Tenants, UpdateMembership(t) PROVE IInv'
  BY <1>4, UpdateKeeps
<1>5. ASSUME NEW token \in issued, Expire(token) PROVE IInv'
  BY <1>5, ExpireKeeps
<1>6. CASE UNCHANGED vars
  BY <1>6 DEF IInv, vars, TypeOK, NotAhead, RequestInv, LiveTokensHaveMembership,
         RotatingApart, Rotating, RotationsDistinct, Honoured, Active
<1> QED
  BY <1>1, <1>2, <1>3, <1>4, <1>5, <1>6 DEF Next, LocalStep, Raise

LEMMA Inductive == Spec => []IInv
BY InitIInv, NextIInv, PTL DEF Spec
-----------------------------------------------------------------------------
(***************************************************************************)
(* Theorems                                                                *)
(***************************************************************************)

(* The variables keep their types.                                         *)
THEOREM TypeCorrect == Spec => []TypeOK
BY Inductive, PTL DEF IInv

(* A login's or an acceptance's token that is honoured names a tenant of   *)
(* which the user is an active member, although login reads the user and   *)
(* the memberships in different transactions.                              *)
THEOREM LiveTokens == Spec => []LiveTokensHaveMembership
BY Inductive, PTL DEF IInv

(* Concurrent switches and acceptances issue tokens of different versions. *)
THEOREM Rotations == Spec => []RotationsDistinct
BY Inductive, PTL DEF IInv

(* A step that changes the version or a membership leaves no old token     *)
(* honoured.                                                               *)
LEMMA RaiseEndsAll ==
  ASSUME IInv, sessionVersion' = sessionVersion + 1
  PROVE  \A token \in issued : ~Honoured(token)'
BY DEF IInv, TypeOK, NotAhead, Honoured, Tokens

(* A token that CurrentSession refuses is refused for good.                *)
THEOREM Refused == Spec => RefusedForGood
<1>1. ASSUME IInv, [Next]_vars, NEW token \in issued, Usable(token)'
      PROVE  Usable(token)
  <2>1. CASE UNCHANGED <<sessionVersion, membership>>
    BY <1>1, <2>1 DEF Usable, Honoured, Active
  <2>2. CASE sessionVersion' = sessionVersion + 1
    BY <1>1, <2>2, RaiseEndsAll DEF Usable
  <2> QED
    BY <1>1, <2>1, <2>2 DEF Next, vars, FindUser, FirstTenant, Issue, Authenticate,
           SessionForUser, Logout, FindMembership, Rotate, AcceptInvitation, Fail,
           UpdateMembership, Expire, Invalidate
<1>2. IInv /\ [Next]_vars => [\A token \in issued : Usable(token)' => Usable(token)]_vars
  BY <1>1
<1> QED
  BY <1>2, Inductive, PTL DEF Spec, RefusedForGood

(* Every step is a step of ActiveSessions or leaves its state alone.       *)
THEOREM Implements == Spec => ImplementsActiveSessions
<1>1. Init => Promised!Init
  BY DEF Init, Promised!Init, Live
<1>2. ASSUME IInv, [Next]_vars
      PROVE  [Promised!Next]_<<membership, Live>>
  <2>1. ASSUME NEW r \in Requests, LocalStep(r)
        PROVE  UNCHANGED <<membership, Live>>
    BY <2>1 DEF LocalStep, FindUser, FirstTenant, Authenticate, SessionForUser,
           FindMembership, Fail, Live, Honoured
  <2>2. ASSUME NEW r \in Requests, Issue(r)
        PROVE  [Promised!Next]_<<membership, Live>>
    <3>1. /\ UNCHANGED membership
          /\ req[r].tenant \in Tenants /\ membership[req[r].tenant] # "absent"
      BY <1>2, <2>2 DEF IInv, RequestInv, Issue
    <3>2. CASE req[r].version = sessionVersion
      <4>1. Live' = Live \cup {req[r].tenant}
        <5> DEFINE token == [version |-> req[r].version, tenant |-> req[r].tenant,
                             op |-> req[r].op]
        <5>1. issued' = issued \cup {token} /\ sessionVersion' = sessionVersion
          BY <2>2 DEF Issue
        <5>2. token.version = sessionVersion /\ token.tenant = req[r].tenant
          BY <3>2
        <5>3. {s \in issued' : s.version = sessionVersion'}
                = {s \in issued : s.version = sessionVersion} \cup {token}
          BY <5>1, <5>2
        <5> HIDE DEF token
        <5> QED
          BY <5>2, <5>3 DEF Live, Honoured
      <4> QED
        BY <3>1, <4>1 DEF Promised!Next, Promised!Begin
    <3>3. CASE req[r].version # sessionVersion
      BY <2>2, <3>1, <3>3 DEF Issue, Live, Honoured
    <3> QED
      BY <3>2, <3>3
  <2>3. ASSUME sessionVersion' = sessionVersion + 1, UNCHANGED issued
        PROVE  Live' = {}
    BY <1>2, <2>3, RaiseEndsAll DEF Live
  <2>4. ASSUME NEW r \in Requests, Raise(r)
        PROVE  [Promised!Next]_<<membership, Live>>
    BY <2>3, <2>4 DEF Raise, Logout, Rotate, AcceptInvitation, Invalidate,
           Promised!Next, Promised!EndAll, Promised!ChangeMembership
  <2>5. ASSUME NEW t \in Tenants, UpdateMembership(t)
        PROVE  [Promised!Next]_<<membership, Live>>
    BY <2>3, <2>5 DEF UpdateMembership, Invalidate, Promised!Next,
           Promised!ChangeMembership
  <2>6. ASSUME NEW token \in issued, Expire(token)
        PROVE  [Promised!Next]_<<membership, Live>>
    <3>1. token.tenant \in Tenants /\ UNCHANGED membership
      BY <1>2, <2>6 DEF IInv, TypeOK, Tokens, Expire
    <3>2. Live' = Live \/ Live' = Live \ {token.tenant}
      BY <2>6 DEF Expire, Live, Honoured
    <3> QED
      BY <3>1, <3>2 DEF Promised!Next, Promised!Lapse
  <2>7. CASE UNCHANGED vars
    BY <2>7 DEF vars, Live, Honoured
  <2> QED
    BY <1>2, <2>1, <2>2, <2>4, <2>5, <2>6, <2>7 DEF Next, LocalStep, Raise
<1> QED
  BY <1>1, <1>2, Inductive, PTL DEF Spec, ImplementsActiveSessions, Promised!Spec
=============================================================================
