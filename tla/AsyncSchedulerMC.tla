--------------------------- MODULE AsyncSchedulerMC ---------------------------
(* AsyncScheduler for TLC: the constants are numbers, given in the .cfg. *)
EXTENDS AsyncScheduler
=============================================================================
