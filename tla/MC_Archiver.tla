---------------------------- MODULE MC_Archiver ----------------------------
(* Instances of Archiver for TLC: the constants are in the configurations. *)
EXTENDS Archiver
=============================================================================
