----------------------- MODULE MCInvitationAcceptance -----------------------
(* Instance of InvitationAcceptance for TLC.                               *)
EXTENDS InvitationAcceptance, TLC

(* Tenants, the invitations into one and request slots are interchangeable. *)
Symmetry ==
  Permutations(Tenants) \cup Permutations(Copies) \cup Permutations(Requests)
=============================================================================
