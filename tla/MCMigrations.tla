---------------------------- MODULE MCMigrations ----------------------------
(* Instance of Migrations for TLC: three files, and the builds of a        *)
(* release, its successors on two branches, and one with an edited file.   *)
EXTENDS Migrations

First == <<"a", Absent, Absent>>
Second == <<"a", "a", Absent>>
Merged == <<"a", "a", "a">>
Skipping == <<"a", Absent, "a">>
Edited == <<"b", "a", Absent>>

MCBuilds == {First, Second, Merged, Skipping, Edited}
=============================================================================
