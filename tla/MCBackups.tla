----------------------------- MODULE MCBackups -----------------------------
(* Instances of Backups for TLC; the configurations give the constants. *)
EXTENDS Backups
=============================================================================
