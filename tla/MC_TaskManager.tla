--------------------------- MODULE MC_TaskManager ---------------------------
(***************************************************************************)
(* Instances of TaskManager for TLC.  The tasks below stand for what        *)
(* DishManager submits: asynchronous commands to sub-elements, a synchro-   *)
(* nous command that depends on one of them, a command with a delayed start.*)
(***************************************************************************)
EXTENDS TaskManager, TLC

CONSTANTS t1, t2, t3, t4, s1, s2, attrA, attrB

Described(s, index, deps, act, startMax, exp, key, name, attr) ==
    [seq |-> s, index |-> index, deps |-> deps, act |-> act,
     startMax |-> startMax, exp |-> exp, prio |-> 1, key |-> key,
     name |-> name, attr |-> attr]

\* spfGoOperational: an asynchronous task and one that depends on it.  Next
\* to it, in another sequence of the same name, a synchronous task with a
\* delayed start and one whose progress attribute the device lacks, so that
\* the sequence is refused half way.
DependentInfo ==
    (t1 :> Described(s1, 0, {}, NoTime, 0, 2, 1, "SetSPFOperateModeTask", attrA)) @@
    (t2 :> Described(s1, 1, {0}, NoTime, 2, 3, 2, "SetSPFLnaPowerOnTask", NoAttr)) @@
    (t3 :> Described(s2, 0, {}, 2, 0, 4, 3, "SetRxStandbyLPModeTask", NoAttr)) @@
    (t4 :> Described(s2, 1, {}, NoTime, 0, 3, 4, "SetDSStandbyLPModeTask", attrB))

\* Power cut: a delayed synchronous task and one that depends on it and has
\* a delay of its own; and a synchronous task that may start at once.
SynchronousInfo ==
    (t1 :> Described(s1, 0, {}, 2, 0, 3, 1, "SetRxStandbyLPModeTask", NoAttr)) @@
    (t2 :> Described(s1, 1, {0}, 3, 3, 4, 2, "PowerOffRXPUTask", NoAttr)) @@
    (t3 :> Described(s2, 0, {}, NoTime, 0, 2, 3, "SetRxStandbyLPModeTask", NoAttr))

\* set_standby_lpmode and the power cut sequence: both ask the SPF for
\* standby and watch spfSetStandbyLPModeProgress, and ShutdownSPFC depends on
\* that task of the power cut sequence.
SharedInfo ==
    (t1 :> Described(s1, 0, {}, NoTime, 0, 2, 1, "SetSPFStandbyLPModeTask", attrA)) @@
    (t2 :> Described(s2, 0, {}, NoTime, 0, 3, 2, "SetSPFStandbyLPModeTask", attrA)) @@
    (t3 :> Described(s2, 1, {0}, NoTime, 3, 4, 3, "ShutdownSPFCTask", NoAttr))

DistinctNames == (s1 :> "first") @@ (s2 :> "second")
SameName      == (s1 :> "both") @@ (s2 :> "both")
=============================================================================
