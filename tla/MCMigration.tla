----------------------------- MODULE MCMigration -----------------------------
(* Instances of Migration for TLC; the configurations give the constants. *)
EXTENDS Migration
=============================================================================
