--------------------------- MODULE MCMemberships ---------------------------
(* The instance of Memberships for TLC: model values for users and request *)
(* slots, no symmetry, as the run checks liveness too.                     *)
EXTENDS Memberships
=============================================================================
