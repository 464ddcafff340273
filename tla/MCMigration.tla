------------------------------ MODULE MCMigration ------------------------------
(***************************************************************************)
(* The two files of src/migrations, 002 cut down to three of its columns.  *)
(***************************************************************************)
EXTENDS Migration

TwoFiles == <<3, 3>>
=============================================================================
