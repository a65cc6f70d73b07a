----------------------------- MODULE MCSessions -----------------------------
(* Instance of Sessions for TLC.                                           *)
EXTENDS Sessions, TLC

(* Tenants and request slots are interchangeable.                          *)
Symmetry == Permutations(Tenants) \cup Permutations(Requests)
=============================================================================
