--------------------------- MODULE MCLocalization ---------------------------
(* Instance of Localization for TLC: the default locale, whose product     *)
(* text a scope overrides, and one without texts of its own.  One of two    *)
(* keys is edited.                                                         *)
EXTENDS Localization, TLC

MCProduct ==
  [slot \in Slots |->
     CASE slot = <<"de", Shared, "internal">> -> 1
       [] slot = <<"de", "admin", "internal">> -> 2
       [] slot = <<"de", Shared, "title">> -> 3
       [] OTHER -> NoText]

MCEdited == {slot \in Slots : slot[3] = "internal"}

(* Editors are interchangeable.                                            *)
Symmetry == Permutations(Editors)
=============================================================================
