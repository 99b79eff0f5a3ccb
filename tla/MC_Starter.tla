---------------------------- MODULE MC_Starter ----------------------------
\* An instance of Starter: a server of each of two levels.
EXTENDS Starter, TLC

CONSTANTS ds, dm

TwoPlaces == (ds :> 1) @@ (dm :> 2)
TwoLevels  == (ds :> 1) @@ (dm :> 2)
=============================================================================
