------------------------------ MODULE MCSignIn ------------------------------
(* Instance of SignIn for TLC.                                             *)
EXTENDS SignIn, TLC

(* Tabs are interchangeable.                                               *)
Symmetry == Permutations(Tabs)
=============================================================================
