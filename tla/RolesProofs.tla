----------------------------- MODULE RolesProofs -----------------------------
(***************************************************************************)
(* TLAPS proofs about Roles, for any users, roles and number of requests.  *)
(***************************************************************************)
EXTENDS Roles, TLAPS

(* The roles a tenant is created with stay, and somebody administrates.    *)
Standing ==
  /\ \A r \in Protected : state[r] = "live"
  /\ grants["administrator"] = Permissions
  /\ \E u \in Users : Administrates(u)

(* What a request saw is so still, or has another revision.                *)
SeenInv(q) ==
  /\ pc[q] # "idle" /\ req[q].op = "UpdateMembership" =>
       member[req[q].user].status # "absent"
  /\ pc[q] # "idle" /\ req[q].op \in Edits =>
       LET r == req[q].role IN
       /\ state[r] # "new" /\ req[q].revision <= revision[r]
       /\ state[r] = "live" /\ RevisionMatches(q) => req[q].grants = grants[r]

(* Between the two parts of the check: while neither the membership of the *)
(* actor nor the permissions of a role change, what was found is so still. *)
CheckInv(q) ==
  /\ pc[q] = "permissions" =>
       /\ found[q] \in RoleIds /\ state[found[q]] # "new"
       /\ \/ history[q].held \/ history[q].regranted
          \/ Required[req[q].op] \notin grants[found[q]]
       /\ \/ history[q].held \/ history[q].moved
          \/ Active(req[q].actor) /\ member[req[q].actor].role = found[q]
  /\ pc[q] \in {"target", "change"} =>
       history[q].held \/ (history[q].moved /\ history[q].regranted)

(* The inductive invariant.                                                *)
IInv ==
  /\ TypeOK
  /\ RolesInUse
  /\ Standing
  /\ \A q \in Requests : SeenInv(q) /\ CheckInv(q)

-----------------------------------------------------------------------------
(* What a step may do to the rows, given whose memberships it changes and  *)
(* whether it replaces permissions.                                        *)
Forward(moved, regranted) ==
  /\ \A r \in RoleIds : state[r] # "new" =>
       /\ state'[r] # "new"
       /\ revision'[r] >= revision[r]
       /\ state'[r] = "live" =>
            state[r] = "live" /\ (revision'[r] = revision[r] => grants'[r] = grants[r])
       /\ ~regranted => grants'[r] \subseteq grants[r]
  /\ \A u \in Users :
       /\ u \notin moved => member'[u] = member[u]
       /\ member[u].status # "absent" => member'[u].status # "absent"

(* Of the protected roles and the operations.                              *)
LEMMA Constants ==
  /\ Protected \subseteq RoleIds /\ "administrator" \in RoleIds /\ "user" \in RoleIds
  /\ \A op \in Operations : Required[op] \in Permissions
  BY RolesAssumption DEF RoleIds, Protected, Permissions, Required

(* A step that leaves the rows alone.                                      *)
LEMMA RowsKept ==
  ASSUME IInv, UNCHANGED rows
  PROVE  RolesInUse' /\ Standing' /\ Forward({}, FALSE)
<1>1. RolesInUse' /\ Standing'
  BY DEF IInv, RolesInUse, Standing, Administrates, Active, rows, roleVars
<1>2. Forward({}, FALSE)
  BY DEF IInv, TypeOK, Forward, rows, roleVars
<1> QED
  BY <1>1, <1>2

(* The history keeps its type.                                             *)
LEMMA HistoryTyped ==
  ASSUME TypeOK, NEW moved, NEW regranted \in BOOLEAN, Remember(moved, regranted)
  PROVE  history' \in [Requests ->
                         [held : BOOLEAN, moved : BOOLEAN, regranted : BOOLEAN]]
<1>1. ASSUME NEW q \in Requests
      PROVE  history'[q] \in [held : BOOLEAN, moved : BOOLEAN, regranted : BOOLEAN]
  BY DEF TypeOK, Remember, NoHistory, Permits
<1>2. history' = [q \in Requests |-> history'[q]]
  BY DEF Remember
<1> QED
  BY <1>1, <1>2

(* A request that does not take the step.                                  *)
LEMMA OthersUndisturbed ==
  ASSUME IInv, TypeOK', NEW moved, NEW regranted \in BOOLEAN,
         Forward(moved, regranted), Remember(moved, regranted),
         NEW q \in Requests,
         pc'[q] = pc[q], req'[q] = req[q], found'[q] = found[q]
  PROVE  (SeenInv(q) /\ CheckInv(q))'
<1> SUFFICES ASSUME pc[q] # "idle"
             PROVE  (SeenInv(q) /\ CheckInv(q))'
  BY DEF SeenInv, CheckInv
<1>1. req[q] \in Submissions
  BY DEF IInv, TypeOK
<1>2. req[q].actor \in Users /\ req[q].user \in Users /\ req[q].role \in RoleIds
      /\ req[q].revision \in Nat
  BY <1>1 DEF Submissions
<1>3. SeenInv(q)'
  <2>1. SeenInv(q)
    BY DEF IInv
  <2>2. revision[req[q].role] \in Nat /\ revision'[req[q].role] \in Nat
    BY <1>2 DEF IInv, TypeOK
  <2> QED
    BY <1>2, <2>1, <2>2 DEF SeenInv, Forward, RevisionMatches
<1>4. \/ history'[q].held
      \/ /\ ~history[q].held
         /\ history[q].moved \/ req[q].actor \in moved => history'[q].moved
         /\ history[q].regranted \/ regranted => history'[q].regranted
  BY DEF Remember, IInv, TypeOK
<1>5. CheckInv(q)'
  <2>1. CheckInv(q)
    BY DEF IInv
  <2>2. CASE pc[q] = "permissions"
    BY <1>2, <1>4, <2>1, <2>2 DEF CheckInv, Forward, Active
  <2>3. CASE pc[q] # "permissions"
    BY <1>4, <2>1, <2>3 DEF CheckInv
  <2> QED
    BY <2>2, <2>3
<1> QED
  BY <1>3, <1>5
-----------------------------------------------------------------------------
(* The initial states                                                      *)
LEMMA InitHolds == Init => IInv
<1> SUFFICES ASSUME Init
             PROVE  IInv
  OBVIOUS
<1>1. TypeOK
  <2>1. member \in [Users -> Memberships]
    <3>1. [status : {"absent", "active"}, role : Protected, revision : {1}]
            \subseteq Memberships
      BY Constants DEF Memberships
    <3> QED
      BY <3>1 DEF Init
  <2>2. history \in [Requests ->
                        [held : BOOLEAN, moved : BOOLEAN, regranted : BOOLEAN]]
    BY DEF Init, NoHistory
  <2>3. /\ state \in [RoleIds -> {"new", "live", "deleted"}]
        /\ grants \in [RoleIds -> SUBSET Permissions]
        /\ revision \in [RoleIds -> Nat]
        /\ \A r \in RoleIds : state[r] # "live" => grants[r] = {}
        /\ invited \subseteq RoleIds
    BY Constants DEF Init, Protected
  <2> QED
    BY <2>1, <2>2, <2>3 DEF Init, TypeOK
<1>2. \A u \in Users : member[u].role \in Protected
  BY DEF Init
<1>3. RolesInUse
  BY <1>2, Constants DEF Init, RolesInUse
<1>4. Standing
  BY Constants DEF Init, Standing
<1>5. ASSUME NEW q \in Requests
      PROVE  SeenInv(q) /\ CheckInv(q)
  BY DEF Init, SeenInv, CheckInv
<1> QED
  BY <1>1, <1>3, <1>4, <1>5 DEF IInv

(* A step of request q, given what it does to the rows and to q.           *)
LEMMA RequestStep ==
  ASSUME IInv, NEW q \in Requests, NEW moved, NEW regranted \in BOOLEAN,
         TypeOK', RolesInUse', Standing', (SeenInv(q) /\ CheckInv(q))',
         Forward(moved, regranted), Remember(moved, regranted),
         \A p \in Requests \ {q} :
           pc'[p] = pc[p] /\ req'[p] = req[p] /\ found'[p] = found[p]
  PROVE  IInv'
<1>1. ASSUME NEW p \in Requests
      PROVE  (SeenInv(p) /\ CheckInv(p))'
  BY OthersUndisturbed
<1> QED
  BY <1>1 DEF IInv

(* The step of a request that changes no row.                              *)
LEMMA QuietStep ==
  ASSUME IInv, NEW q \in Requests, UNCHANGED rows, Remember({}, FALSE),
         pc' \in [Requests -> {"idle", "member", "permissions", "target", "change"}],
         req' \in [Requests -> Submissions \cup {NoRequest}],
         pc'[q] # "idle" => req'[q] \in Submissions,
         found' \in [Requests -> RoleIds \cup {NoRole}],
         (SeenInv(q) /\ CheckInv(q))',
         \A p \in Requests \ {q} :
           pc'[p] = pc[p] /\ req'[p] = req[p] /\ found'[p] = found[p]
  PROVE  IInv'
<1>1. TypeOK'
  <2>1. TypeOK
    BY DEF IInv
  <2>2. history' \in [Requests ->
                        [held : BOOLEAN, moved : BOOLEAN, regranted : BOOLEAN]]
    BY <2>1, HistoryTyped
  <2>3. \A p \in Requests : pc'[p] # "idle" => req'[p] \in Submissions
    BY <2>1 DEF TypeOK
  <2> QED
    BY <2>1, <2>2, <2>3 DEF TypeOK, rows, roleVars
<1> QED
  BY <1>1, RowsKept, RequestStep

LEMMA SubmitKeeps ==
  ASSUME IInv, NEW q \in Requests, Submit(q)
  PROVE  IInv'
<1> USE DEF Goto
<1>1. TypeOK
  BY DEF IInv
<1>2. PICK op \in Operations, actor \in Users, r \in RoleIds, u \in Users :
        Ask(q, op, actor, r, u)
  BY DEF Submit
<1>3. /\ SeenRevision(op, r, u) \in Nat
      /\ op \in Edits => SeenRevision(op, r, u) = revision[r]
  <2>1. member[u].revision \in Nat /\ revision[r] \in Nat
    BY <1>1 DEF TypeOK, Memberships
  <2>2. CASE op = "UpdateMembership"
    BY <2>1, <2>2 DEF SeenRevision, Edits
  <2>3. CASE op \in Edits
    BY <2>1, <2>3 DEF SeenRevision, Edits
  <2>4. CASE op \notin {"UpdateMembership"} \cup Edits
    BY <2>4 DEF SeenRevision, Edits
  <2> QED
    BY <2>2, <2>3, <2>4
<1>4. req'[q] \in Submissions
  BY <1>1, <1>2, <1>3 DEF Ask, TypeOK, Submissions
<1>5. UNCHANGED <<rows, found>> /\ pc' = [pc EXCEPT ![q] = "member"]
      /\ Remember({}, FALSE)
  BY <1>2 DEF Ask
<1>6. SeenInv(q)'
  <2>1. req'[q].op = op /\ req'[q].user = u /\ req'[q].role = r
        /\ req'[q].revision = SeenRevision(op, r, u)
        /\ req'[q].grants = IF op \in Edits THEN grants[r] ELSE {}
    BY <1>1, <1>2 DEF Ask, TypeOK
  <2>2. op = "UpdateMembership" => member[u].status # "absent"
    BY <1>2 DEF Ask
  <2>3. op \in Edits => state[r] = "live" /\ revision[r] \in Nat
    BY <1>1, <1>2 DEF Ask, Edits, TypeOK
  <2> QED
    BY <1>3, <1>5, <2>1, <2>2, <2>3 DEF SeenInv, RevisionMatches, rows, roleVars
<1>7. CheckInv(q)'
  BY <1>1, <1>5 DEF CheckInv, TypeOK
<1> QED
  BY <1>1, <1>2, <1>4, <1>5, <1>6, <1>7, QuietStep DEF TypeOK, Ask

LEMMA FindActiveMembershipKeeps ==
  ASSUME IInv, NEW q \in Requests, FindActiveMembership(q)
  PROVE  IInv'
<1> USE DEF FindActiveMembership, Goto
<1>1. TypeOK /\ RolesInUse /\ SeenInv(q)
  BY DEF IInv
<1>2. req[q] \in Submissions /\ req[q].actor \in Users
  BY <1>1 DEF TypeOK, Submissions
<1>3. /\ Active(req[q].actor) /\ found'[q] = member[req[q].actor].role
      /\ found'[q] \in RoleIds /\ state[found'[q]] = "live"
  BY <1>1, <1>2 DEF TypeOK, RolesInUse, ActiveMemberOf, Active, Memberships
<1>4. SeenInv(q)'
  BY <1>1 DEF SeenInv, TypeOK, RevisionMatches, rows, roleVars
<1>5. history'[q].held \/ Required[req'[q].op] \notin grants'[found'[q]]
  BY <1>1, <1>3 DEF Remember, Permits, Active, TypeOK, rows, roleVars
<1>6. CheckInv(q)'
  BY <1>1, <1>3, <1>5 DEF CheckInv, TypeOK, Active, rows, roleVars
<1> QED
  BY <1>1, <1>2, <1>3, <1>4, <1>6, QuietStep DEF TypeOK

LEMMA PermissionsForRoleKeeps ==
  ASSUME IInv, NEW q \in Requests, PermissionsForRole(q)
  PROVE  IInv'
<1> USE DEF PermissionsForRole, Goto
<1>1. TypeOK /\ SeenInv(q) /\ CheckInv(q)
  BY DEF IInv
<1>2. req[q] \in Submissions
  BY <1>1 DEF TypeOK
<1>3. SeenInv(q)'
  BY <1>1 DEF SeenInv, TypeOK, RevisionMatches, rows, roleVars
<1>4. \/ history'[q].held
      \/ /\ ~history[q].held
         /\ history[q].moved => history'[q].moved
         /\ history[q].regranted => history'[q].regranted
  BY <1>1 DEF Remember, TypeOK
<1>5. Permitted(req[q].actor, Required[req[q].op]) => history'[q].held
  BY <1>1 DEF Remember, Permitted, TypeOK, rows, roleVars
<1>6. history'[q].held \/ (history'[q].moved /\ history'[q].regranted)
  BY <1>1, <1>4, <1>5 DEF CheckInv, Permitted, Permits, Active
<1>7. CheckInv(q)'
  BY <1>1, <1>6 DEF CheckInv, TypeOK
<1> QED
  BY <1>1, <1>2, <1>3, <1>7, QuietStep DEF TypeOK

LEMMA FindRoleKeeps ==
  ASSUME IInv, NEW q \in Requests, FindRole(q)
  PROVE  IInv'
<1> USE DEF FindRole, Goto
<1>1. TypeOK /\ SeenInv(q) /\ CheckInv(q)
  BY DEF IInv
<1>2. SeenInv(q)'
  BY <1>1 DEF SeenInv, TypeOK, RevisionMatches, rows, roleVars
<1>3. CheckInv(q)'
  BY <1>1 DEF CheckInv, Remember, TypeOK
<1> QED
  BY <1>1, <1>2, <1>3, QuietStep DEF TypeOK

LEMMA RefuseKeeps ==
  ASSUME IInv, NEW q \in Requests, Refuse(q)
  PROVE  IInv'
<1> USE DEF Refuse, End, Goto
<1>1. TypeOK
  BY DEF IInv
<1>2. (SeenInv(q) /\ CheckInv(q))'
  BY <1>1 DEF SeenInv, CheckInv, TypeOK
<1> QED
  BY <1>1, <1>2, QuietStep DEF TypeOK

-----------------------------------------------------------------------------
(* The changes                                                             *)

(* The types of the rows.                                                  *)
RowsTyped ==
  /\ state \in [RoleIds -> {"new", "live", "deleted"}]
  /\ grants \in [RoleIds -> SUBSET Permissions]
  /\ revision \in [RoleIds -> Nat]
  /\ \A r \in RoleIds : state[r] # "live" => grants[r] = {}
  /\ member \in [Users -> Memberships]
  /\ invited \subseteq RoleIds

(* The last step of a request.                                             *)
LEMMA EndStep ==
  ASSUME IInv, NEW q \in Requests, End(q),
         NEW moved, NEW regranted \in BOOLEAN, Remember(moved, regranted),
         Forward(moved, regranted), RowsTyped', RolesInUse', Standing'
  PROVE  IInv'
<1>1. TypeOK
  BY DEF IInv
<1>2. TypeOK'
  <2>1. history' \in [Requests ->
                        [held : BOOLEAN, moved : BOOLEAN, regranted : BOOLEAN]]
    BY <1>1, HistoryTyped
  <2> QED
    BY <1>1, <2>1 DEF TypeOK, RowsTyped, End, Goto
<1>3. (SeenInv(q) /\ CheckInv(q))'
  BY <1>1 DEF SeenInv, CheckInv, TypeOK, End, Goto
<1>4. \A p \in Requests \ {q} :
        pc'[p] = pc[p] /\ req'[p] = req[p] /\ found'[p] = found[p]
  BY <1>1 DEF TypeOK, End, Goto
<1> QED
  BY <1>2, <1>3, <1>4, RequestStep

LEMMA CreateRoleKeeps ==
  ASSUME IInv, NEW q \in Requests, CreateRole(q)
  PROVE  IInv'
<1>1. TypeOK /\ RolesInUse /\ Standing
  BY DEF IInv
<1>2. PICK r \in Custom, permissions \in SUBSET Permissions :
        /\ state[r] = "new"
        /\ state' = [state EXCEPT ![r] = "live"]
        /\ grants' = [grants EXCEPT ![r] = permissions]
  BY DEF CreateRole
<1>3. UNCHANGED <<revision, member, invited>> /\ End(q) /\ Remember({}, FALSE)
  BY DEF CreateRole, Change
<1>4. r \in RoleIds /\ r \notin Protected
  BY RolesAssumption DEF RoleIds
<1>5. RowsTyped'
  BY <1>1, <1>2, <1>3, <1>4 DEF TypeOK, RowsTyped
<1>6. RolesInUse'
  BY <1>1, <1>2, <1>3, <1>4 DEF TypeOK, RolesInUse, Memberships
<1>7. Standing'
  BY <1>1, <1>2, <1>3, <1>4, Constants
  DEF TypeOK, Standing, Administrates, Active, Protected
<1>8. Forward({}, FALSE)
  BY <1>1, <1>2, <1>3, <1>4 DEF TypeOK, Forward
<1> QED
  BY <1>3, <1>5, <1>6, <1>7, <1>8, EndStep

LEMMA UpdateRoleKeeps ==
  ASSUME IInv, NEW q \in Requests, UpdateRole(q)
  PROVE  IInv'
<1>1. TypeOK /\ RolesInUse /\ Standing
  BY DEF IInv
<1> DEFINE r == req[q].role
<1>2. PICK permissions \in SUBSET Permissions :
        grants' = [grants EXCEPT ![r] = permissions]
  BY DEF UpdateRole
<1>3. /\ state[r] = "live" /\ r \notin Protected
      /\ revision' = [revision EXCEPT ![r] = @ + 1]
      /\ UNCHANGED <<state, member, invited>> /\ End(q) /\ Remember({}, TRUE)
  BY DEF UpdateRole, Change, IsCustom
<1>4. r \in RoleIds
  BY <1>1 DEF UpdateRole, Change, TypeOK, Submissions
<1> HIDE DEF r
<1>5. RowsTyped'
  BY <1>1, <1>2, <1>3, <1>4 DEF TypeOK, RowsTyped
<1>6. RolesInUse'
  BY <1>1, <1>3 DEF RolesInUse
<1>7. Standing'
  BY <1>1, <1>2, <1>3, <1>4, Constants
  DEF TypeOK, Standing, Administrates, Active, Protected
<1>8. Forward({}, TRUE)
  BY <1>1, <1>2, <1>3, <1>4 DEF TypeOK, Forward
<1> QED
  BY <1>3, <1>5, <1>6, <1>7, <1>8, EndStep

LEMMA DeleteRoleKeeps ==
  ASSUME IInv, NEW q \in Requests, DeleteRole(q)
  PROVE  IInv'
<1>1. TypeOK /\ RolesInUse /\ Standing
  BY DEF IInv
<1> DEFINE r == req[q].role
<1>2. /\ state[r] = "live" /\ r \notin Protected /\ Unreferenced(r)
      /\ state' = [state EXCEPT ![r] = "deleted"]
      /\ grants' = [grants EXCEPT ![r] = {}]
      /\ UNCHANGED <<revision, member, invited>> /\ End(q) /\ Remember({}, FALSE)
  BY DEF DeleteRole, Change, IsCustom, DropRole
<1>3. r \in RoleIds
  BY <1>1 DEF DeleteRole, Change, TypeOK, Submissions
<1> HIDE DEF r
<1>4. RowsTyped'
  BY <1>1, <1>2, <1>3 DEF TypeOK, RowsTyped
<1>5. RolesInUse'
  BY <1>1, <1>2, <1>3 DEF TypeOK, RolesInUse, Unreferenced, Memberships
<1>6. Standing'
  BY <1>1, <1>2, <1>3, Constants
  DEF TypeOK, Standing, Administrates, Active, Protected
<1>7. Forward({}, FALSE)
  BY <1>1, <1>2, <1>3 DEF TypeOK, Forward
<1> QED
  BY <1>2, <1>4, <1>5, <1>6, <1>7, EndStep

LEMMA UpdateMembershipKeeps ==
  ASSUME IInv, NEW q \in Requests, UpdateMembership(q)
  PROVE  IInv'
<1>1. TypeOK /\ RolesInUse /\ Standing
  BY DEF IInv
<1> DEFINE u == req[q].user
<1>2. PICK r \in RoleIds, status \in {"active", "inactive"} :
        LET m == [status |-> status, role |-> r, revision |-> member[u].revision + 1]
        IN /\ state[r] = "live"
           /\ RemovesAdministrator(u, m) => \E v \in Users \ {u} : Administrates(v)
           /\ member' = [member EXCEPT ![u] = m]
  BY DEF UpdateMembership
<1>3. UNCHANGED <<roleVars, invited>> /\ End(q) /\ Remember({u}, FALSE)
  BY DEF UpdateMembership, Change
<1>4. u \in Users
  BY <1>1 DEF UpdateMembership, Change, TypeOK, Submissions
<1> HIDE DEF u
<1> DEFINE m == [status |-> status, role |-> r, revision |-> member[u].revision + 1]
<1>5. m \in Memberships /\ member[u] \in Memberships
  BY <1>1, <1>4 DEF TypeOK, Memberships
<1>6. RowsTyped'
  BY <1>1, <1>2, <1>3, <1>4, <1>5 DEF TypeOK, RowsTyped, roleVars
<1>7. RolesInUse'
  BY <1>1, <1>2, <1>3, <1>4 DEF TypeOK, RolesInUse, roleVars
<1>8. \E v \in Users : Administrates(v)'
  <2>1. CASE RemovesAdministrator(u, m)
    BY <1>1, <1>2, <1>4, <2>1 DEF TypeOK, Administrates, Active
  <2>2. CASE ~RemovesAdministrator(u, m)
    BY <1>1, <1>2, <1>4, <2>2
    DEF TypeOK, Standing, RemovesAdministrator, Administrates, Active
  <2> QED
    BY <2>1, <2>2
<1>9. Standing'
  BY <1>1, <1>3, <1>8 DEF Standing, roleVars
<1>10. Forward({u}, FALSE)
  BY <1>1, <1>2, <1>3, <1>4 DEF TypeOK, Forward, roleVars
<1> QED
  BY <1>3, <1>6, <1>7, <1>9, <1>10, EndStep

LEMMA CreateInvitationKeeps ==
  ASSUME IInv, NEW q \in Requests, CreateInvitation(q)
  PROVE  IInv'
<1>1. TypeOK /\ RolesInUse /\ Standing
  BY DEF IInv
<1>2. /\ state[req[q].role] = "live" /\ invited' = invited \cup {req[q].role}
      /\ UNCHANGED <<roleVars, member>> /\ End(q) /\ Remember({}, FALSE)
  BY DEF CreateInvitation, Change
<1>3. req[q].role \in RoleIds
  BY <1>1 DEF CreateInvitation, Change, TypeOK, Submissions
<1>4. RowsTyped'
  BY <1>1, <1>2, <1>3 DEF TypeOK, RowsTyped, roleVars
<1>5. RolesInUse' /\ Standing'
  BY <1>1, <1>2 DEF RolesInUse, Standing, Administrates, Active, roleVars
<1>6. Forward({}, FALSE)
  BY <1>1, <1>2 DEF TypeOK, Forward, roleVars
<1> QED
  BY <1>2, <1>4, <1>5, <1>6, EndStep

LEMMA AcceptInvitationKeeps ==
  ASSUME IInv, NEW u \in Users, AcceptInvitation(u)
  PROVE  IInv'
<1>1. TypeOK /\ RolesInUse /\ Standing
  BY DEF IInv
<1>2. PICK r \in invited :
        member' = [member EXCEPT ![u] =
          [status |-> "active", role |-> r,
           revision |-> IF @.status = "absent" THEN 1 ELSE @.revision + 1]]
  BY DEF AcceptInvitation
<1>3. /\ ~Active(u) /\ UNCHANGED <<roleVars, invited, pc, req, found>>
      /\ Remember({u}, FALSE)
  BY DEF AcceptInvitation
<1>4. member' \in [Users -> Memberships]
  BY <1>1, <1>2 DEF TypeOK, Memberships
<1>5. TypeOK'
  <2>1. history' \in [Requests ->
                        [held : BOOLEAN, moved : BOOLEAN, regranted : BOOLEAN]]
    BY <1>1, <1>3, HistoryTyped
  <2> QED
    BY <1>1, <1>3, <1>4, <2>1 DEF TypeOK, roleVars
<1>6. RolesInUse'
  BY <1>1, <1>2, <1>3 DEF TypeOK, RolesInUse, roleVars
<1>7. Standing'
  BY <1>1, <1>2, <1>3 DEF TypeOK, Standing, Administrates, Active, roleVars
<1>8. Forward({u}, FALSE)
  BY <1>1, <1>2, <1>3 DEF TypeOK, Forward, roleVars
<1>9. ASSUME NEW q \in Requests
      PROVE  (SeenInv(q) /\ CheckInv(q))'
  BY <1>3, <1>5, <1>8, OthersUndisturbed
<1> QED
  BY <1>5, <1>6, <1>7, <1>9 DEF IInv

-----------------------------------------------------------------------------
LEMMA StutterKeeps ==
  ASSUME IInv, UNCHANGED vars
  PROVE  IInv'
<1>1. TypeOK' /\ RolesInUse' /\ Standing'
  BY DEF IInv, TypeOK, RolesInUse, Standing, Administrates, Active,
         vars, rows, roleVars
<1>2. ASSUME NEW q \in Requests
      PROVE  (SeenInv(q) /\ CheckInv(q))'
  BY DEF IInv, SeenInv, CheckInv, RevisionMatches, Active, vars, rows, roleVars
<1> QED
  BY <1>1, <1>2 DEF IInv

THEOREM Invariant == Spec => []IInv
<1>1. Init => IInv
  BY InitHolds
<1>2. IInv /\ [Next]_vars => IInv'
  <2> SUFFICES ASSUME IInv, [Next]_vars
               PROVE  IInv'
    OBVIOUS
  <2>1. ASSUME NEW q \in Requests,
               \/ Submit(q) \/ FindActiveMembership(q) \/ PermissionsForRole(q)
               \/ FindRole(q) \/ Refuse(q)
        PROVE  IInv'
    BY <2>1, SubmitKeeps, FindActiveMembershipKeeps, PermissionsForRoleKeeps,
       FindRoleKeeps, RefuseKeeps
  <2>2. ASSUME NEW q \in Requests,
               \/ CreateRole(q) \/ UpdateRole(q) \/ DeleteRole(q)
               \/ UpdateMembership(q) \/ CreateInvitation(q)
        PROVE  IInv'
    BY <2>2, CreateRoleKeeps, UpdateRoleKeeps, DeleteRoleKeeps,
       UpdateMembershipKeeps, CreateInvitationKeeps
  <2>3. ASSUME NEW u \in Users, AcceptInvitation(u)
        PROVE  IInv'
    BY <2>3, AcceptInvitationKeeps
  <2>4. CASE UNCHANGED vars
    BY <2>4, StutterKeeps
  <2> QED
    BY <2>1, <2>2, <2>3, <2>4 DEF Next
<1> QED
  BY <1>1, <1>2, PTL DEF Spec

(* Roles, memberships, invitations and requests keep their types, and a    *)
(* role that is not there grants nothing.                                  *)
THEOREM TypeCorrect == Spec => []TypeOK
<1>1. IInv => TypeOK
  BY DEF IInv
<1> QED
  BY <1>1, Invariant, PTL

(* A role that is in use is never deleted.                                 *)
THEOREM InUse == Spec => []RolesInUse
<1>1. IInv => RolesInUse
  BY DEF IInv
<1> QED
  BY <1>1, Invariant, PTL

(* The tenant is never locked out of its own administration.               *)
THEOREM NotLockedOut == Spec => []NeverLockedOut
<1>1. IInv => NeverLockedOut
  BY DEF IInv, Standing, NeverLockedOut, Permitted, Permits, Administrates, Active
<1> QED
  BY <1>1, Invariant, PTL

(* What the two parts of the permission check establish together.          *)
THEOREM Caused == Spec => []PermissionHasCause
<1>1. IInv => PermissionHasCause
  BY DEF IInv, CheckInv, PermissionHasCause
<1> QED
  BY <1>1, Invariant, PTL

(* Permissions are replaced only by a caller who saw them.                 *)
THEOREM Seen == Spec => PermissionsSeen
<1> DEFINE Sees ==
      \A r \in RoleIds :
        state[r] = "live" /\ grants'[r] # grants[r] =>
          \E q \in Requests :
            pc[q] = "change" /\ req[q].role = r /\ req[q].grants = grants[r]
<1>1. IInv /\ [Next]_vars => [Sees]_vars
  <2> SUFFICES ASSUME IInv, Next, NEW r \in RoleIds,
                      state[r] = "live", grants'[r] # grants[r]
               PROVE  \E q \in Requests :
                        pc[q] = "change" /\ req[q].role = r
                        /\ req[q].grants = grants[r]
    OBVIOUS
  <2>1. PICK q \in Requests : CreateRole(q) \/ UpdateRole(q) \/ DeleteRole(q)
    <3>1. ~ \E u \in Users : AcceptInvitation(u)
      BY DEF AcceptInvitation, roleVars
    <3>2. PICK q \in Requests :
            \/ Submit(q) \/ FindActiveMembership(q) \/ PermissionsForRole(q)
            \/ FindRole(q) \/ Refuse(q)
            \/ CreateRole(q) \/ UpdateRole(q) \/ DeleteRole(q)
            \/ UpdateMembership(q) \/ CreateInvitation(q)
      BY <3>1 DEF Next
    <3>3. ~Submit(q)
      BY DEF Submit, Ask, rows, roleVars
    <3>4. ~(\/ FindActiveMembership(q) \/ PermissionsForRole(q)
            \/ FindRole(q) \/ Refuse(q))
      BY DEF FindActiveMembership, PermissionsForRole, FindRole, Refuse, rows, roleVars
    <3>5. ~(UpdateMembership(q) \/ CreateInvitation(q))
      BY DEF UpdateMembership, CreateInvitation, roleVars
    <3> QED
      BY <3>2, <3>3, <3>4, <3>5
  <2>2. ~CreateRole(q)
    BY DEF CreateRole, IInv, TypeOK
  <2>3. UpdateRole(q) \/ DeleteRole(q)
    BY <2>1, <2>2
  <2>4. /\ pc[q] = "change" /\ req[q].op \in Edits /\ req[q].role = r
        /\ RevisionMatches(q)
    BY <2>3 DEF UpdateRole, DeleteRole, DropRole, Change, Edits, IInv, TypeOK
  <2>5. SeenInv(q)
    BY DEF IInv
  <2> QED
    BY <2>4, <2>5 DEF SeenInv
<1> QED
  BY <1>1, Invariant, PTL DEF Spec, PermissionsSeen
=============================================================================
