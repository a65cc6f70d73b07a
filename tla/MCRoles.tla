------------------------------ MODULE MCRoles --------------------------------
(* Instance of Roles for TLC.                                              *)
EXTENDS Roles, TLC

(* Users and request slots are interchangeable.                            *)
MCSymmetry == Permutations(Users) \cup Permutations(Requests)
=============================================================================
