--------------------------- MODULE ActiveSessions ---------------------------
(***************************************************************************)
(* What the sessions of one user promise: which tenants the user can work  *)
(* in with a session that is still honoured.  Sessions begin one at a      *)
(* time, in a tenant of which the user is or was a member; every change of *)
(* a membership ends them all.                                             *)
(***************************************************************************)
CONSTANT Tenants

VARIABLES
  membership, \* status of the user's membership in each tenant
  live        \* tenants of the sessions that are honoured

Init ==
  /\ membership \in [Tenants -> {"absent", "inactive", "active"}]
  /\ live = {}

Begin(t) ==
  /\ membership[t] # "absent"
  /\ live' = live \cup {t}
  /\ UNCHANGED membership

(* A logout, a switch of the tenant (before the new session begins).       *)
EndAll ==
  /\ live' = {}
  /\ UNCHANGED membership

ChangeMembership(t) ==
  /\ \E s \in {"inactive", "active"} : membership' = [membership EXCEPT ![t] = s]
  /\ live' = {}

Lapse(t) ==
  /\ live' = live \ {t}
  /\ UNCHANGED membership

Next ==
  \/ EndAll
  \/ \E t \in Tenants : Begin(t) \/ ChangeMembership(t) \/ Lapse(t)

Spec == Init /\ [][Next]_<<membership, live>>
=============================================================================
