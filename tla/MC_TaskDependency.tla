-------------------------- MODULE MC_TaskDependency --------------------------
(* Instances of TaskDependency for TLC.                                     *)
EXTENDS TaskDependency

\* Every row of at most two entries, repetitions included.
ShortRows == UNION {[1..n -> Index] : n \in 0..2}

\* Immediate and delayed, short and long, important and less so.
MixedSpecs ==
    {[act |-> 0, dur |-> 1, prio |-> 1], [act |-> 0, dur |-> 3, prio |-> 2],
     [act |-> 3, dur |-> 1, prio |-> 2], [act |-> 4, dur |-> 2, prio |-> 1]}
=============================================================================
