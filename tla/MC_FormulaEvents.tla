-------------------------- MODULE MC_FormulaEvents --------------------------
\* An instance of FormulaEvents: the progress of a sub-element.
EXTENDS FormulaEvents, TLC

CONSTANTS ds, progress

ProgressVars == progress :> {ds}
=============================================================================
