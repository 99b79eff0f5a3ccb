---------------------------- MODULE MC_TaskServer ----------------------------
(* Instances of TaskServer for TLC: names for the devices and the work.     *)
EXTENDS TaskServer

CONSTANTS d1, d2, now, later
=============================================================================
