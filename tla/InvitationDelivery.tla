------------------------- MODULE InvitationDelivery -------------------------
(***************************************************************************)
(* What the invitation outbox promises, without jobs, leases or workers:   *)
(* an invitation is mailed at least once, by attempts of which each hands  *)
(* over at most one copy, until its delivery is settled one way, for good. *)
(***************************************************************************)
EXTENDS Integers

CONSTANTS
  Invitations,  \* the invitations to mail
  MaxAttempts   \* attempts after which a delivery may be given up

VARIABLES
  outcome,  \* "none" until requested, "open", then how it ended
  tries,    \* attempts begun
  copies    \* the attempts whose copy the mail server took

deliveryVars == <<outcome, tries, copies>>

Init ==
  /\ outcome = [i \in Invitations |-> "none"]
  /\ tries = [i \in Invitations |-> 0]
  /\ copies = [i \in Invitations |-> {}]

Request(i) ==
  /\ outcome[i] = "none"
  /\ outcome' = [outcome EXCEPT ![i] = "open"]
  /\ UNCHANGED <<tries, copies>>

Try(i) ==
  /\ outcome[i] = "open"
  /\ tries' = [tries EXCEPT ![i] = @ + 1]
  /\ UNCHANGED <<outcome, copies>>

(* A straggling attempt may still deliver after the delivery is settled.   *)
Deliver(i) ==
  /\ \E n \in (1 .. tries[i]) \ copies[i] :
       copies' = [copies EXCEPT ![i] = @ \cup {n}]
  /\ UNCHANGED <<outcome, tries>>

Settle(i) ==
  /\ outcome[i] = "open"
  /\ \/ copies[i] # {} /\ outcome' = [outcome EXCEPT ![i] = "delivered"]
     \/ tries[i] >= MaxAttempts /\ outcome' = [outcome EXCEPT ![i] = "failed"]
     \/ outcome' = [outcome EXCEPT ![i] = "cancelled"]
  /\ UNCHANGED <<tries, copies>>

Next == \E i \in Invitations : Request(i) \/ Try(i) \/ Deliver(i) \/ Settle(i)

Spec == Init /\ [][Next]_deliveryVars

(* Every requested delivery is settled in the end.                         *)
Settles == \A i \in Invitations : (outcome[i] = "open") ~> (outcome[i] # "open")
=============================================================================
