---------------------------- MODULE MCSchedule -----------------------------
(* Instances of Schedule for TLC; the bounds are in the configurations.    *)
EXTENDS Schedule
=============================================================================
