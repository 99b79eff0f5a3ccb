------------------------- MODULE DishManager_proofs -------------------------
(***************************************************************************)
(* Theorems about DishManager: which power orders may be pending, that no  *)
(* controller loses its power with its system up, and that the guards let  *)
(* one sequence per command be queued; for any number of sequences, in     *)
(* every scenario.                                                         *)
(***************************************************************************)
EXTENDS DishManager, TLAPS

LEMMA StatusComputed == \A S : ComputeStatus(S) \in Status
  BY DEF ComputeStatus, Status

LEMMA TaskNames ==
  ASSUME NEW k \in Kind
  PROVE  /\ Tasks[k] \subseteq Name
         /\ k # "StartupOnPowerRestore" => Tasks[k] \cap PowerUp = {}
         /\ k # "ShutdownOnPowerCut" => Tasks[k] \cap PowerDown = {}
<1>1. Tasks[k] \subseteq Name
  BY DEF Name
<1>2. k # "StartupOnPowerRestore" => Tasks[k] \cap PowerUp = {}
  BY DEF Kind, Tasks, PowerUp, SetStandbyLPMode, SetStandbyFPMode, SetOperateMode,
         SetMaintenanceMode, SetStowMode, ConfigureBand, SetStandbyFPModeOnBandError,
         HandleESTOPEvent, ShutdownOnPowerCut, StartupOnPowerRestore
<1>3. k # "ShutdownOnPowerCut" => Tasks[k] \cap PowerDown = {}
  BY DEF Kind, Tasks, PowerDown, SetStandbyLPMode, SetStandbyFPMode, SetOperateMode,
         SetMaintenanceMode, SetStowMode, ConfigureBand, SetStandbyFPModeOnBandError,
         HandleESTOPEvent, ShutdownOnPowerCut, StartupOnPowerRestore
<1> QED BY <1>1, <1>2, <1>3

LEMMA KindNames ==
  /\ HandlerKind \subseteq Kind /\ ModeKinds \subseteq Kind
  /\ "SetStandbyLPMode" \in Kind
  BY DEF Kind, Tasks, HandlerKind, ModeKinds

-----------------------------------------------------------------------------
(* Types *)

LEMMA InitType == Init => TypeOK
<1> SUFFICES ASSUME Init PROVE TypeOK
  OBVIOUS
<1>1. seCtrlPowerStatus \in {"ON", "OFF", "CHANGING"}
  BY DEF Init, PowerStatus
<1>2. \A i \in Number : i <= submitted <=> kind[i] \in Kind
  BY ConstantAssumption DEF Init, Number
<1>3. submitted \in 0..MaxSequences
  BY ConstantAssumption DEF Init
<1>4. mains \in BOOLEAN
  BY DEF Init
<1>5. powered \subseteq Unit /\ halted \subseteq Unit
  BY DEF Init, Unit
<1> QED
  BY <1>1, <1>2, <1>3, <1>4, <1>5 DEF Init, TypeOK, Status, PC, Dev, NoReading

\* What SetStatus does to the tasks, and that it keeps the types.
LEMMA SetStatusLemma ==
  ASSUME TypeOK, NEW S, NEW st \in Status, SetStatus(S, st)
  PROVE  /\ status' \in [Number -> [Name -> Status]]
         /\ seqStatus' \in [Number -> Status]
         /\ \A i \in Number, n \in Name :
               \/ status'[i][n] = status[i][n]
               \/ <<i, n>> \in S /\ status'[i][n] = st
<1> DEFINE new(i) == [n \in Name |-> IF <<i, n>> \in S THEN st ELSE status[i][n]]
           touched == {i \in collection : \E n \in Tasks[kind[i]] : <<i, n>> \in S}
<1>1. /\ status' = [i \in Number |-> IF i \in touched THEN new(i) ELSE status[i]]
      /\ seqStatus' = [i \in Number |-> IF i \in touched THEN Recomputed(i, new(i))
                                                      ELSE seqStatus[i]]
  BY DEF SetStatus
<1>2. \A i \in Number : new(i) \in [Name -> Status]
  BY DEF TypeOK
<1>3. \A i \in Number : Recomputed(i, new(i)) \in Status
  BY StatusComputed DEF Recomputed
<1> HIDE DEF touched
<1> QED BY <1>1, <1>2, <1>3 DEF TypeOK

\* What a new sequence looks like, and that nothing else changes.
LEMMA AddLemma ==
  ASSUME TypeOK, NEW k \in Kind, AddTaskSequence(k)
  PROVE  /\ submitted' = submitted + 1 /\ submitted' \in 0..MaxSequences
         /\ kind' \in [Number -> Kind \cup {NoKind}]
         /\ kind'[submitted'] = k
         /\ \A i \in 1..submitted : kind'[i] = kind[i] /\ status'[i] = status[i]
         /\ \A n \in Name : status'[submitted'][n] \in {"IDLE", "INIT"}
         /\ \A i \in Number : i <= submitted' <=> kind'[i] \in Kind
         /\ status' \in [Number -> [Name -> Status]]
         /\ collection' \subseteq 1..submitted'
         /\ queue' = queue \cup {<<submitted', n>> : n \in Tasks[k]}
         /\ queue' \subseteq (1..submitted') \X Name
         /\ UNCHANGED <<seqStatus, handlers>>
<1>1. submitted \in Nat /\ submitted + 1 \in Number /\ submitted + 1 \in 0..MaxSequences
  BY ConstantAssumption DEF AddTaskSequence, TypeOK, Number
<1>2. /\ submitted' = submitted + 1
      /\ kind' = [kind EXCEPT ![submitted + 1] = k]
      /\ status' = [status EXCEPT ![submitted + 1] =
                      [n \in Name |-> IF n \in Tasks[k] THEN "IDLE" ELSE "INIT"]]
      /\ collection' = collection \cup {submitted + 1}
      /\ queue' = queue \cup {<<submitted + 1, n>> : n \in Tasks[k]}
      /\ UNCHANGED <<seqStatus, handlers>>
  BY DEF AddTaskSequence
<1>3. 1..submitted \subseteq Number /\ 1..submitted \subseteq 1..submitted'
      /\ submitted + 1 \in 1..submitted' /\ submitted + 1 \notin 1..submitted
  BY <1>1, <1>2, ConstantAssumption DEF Number
<1>4. [n \in Name |-> IF n \in Tasks[k] THEN "IDLE" ELSE "INIT"] \in [Name -> Status]
  BY DEF Status
<1>5. status' \in [Number -> [Name -> Status]]
  BY <1>1, <1>2, <1>4 DEF TypeOK
<1>6. \A n \in Name : status'[submitted'][n] \in {"IDLE", "INIT"}
  BY <1>1, <1>2 DEF TypeOK
<1>7. kind' \in [Number -> Kind \cup {NoKind}] /\ kind'[submitted'] = k
  BY <1>1, <1>2 DEF TypeOK
<1>8. \A i \in 1..submitted : kind'[i] = kind[i] /\ status'[i] = status[i]
  BY <1>1, <1>2, <1>3 DEF TypeOK
<1>9. \A i \in Number : i <= submitted' <=> kind'[i] \in Kind
  BY <1>1, <1>2 DEF TypeOK, Number
<1>10. queue' \subseteq (1..submitted') \X Name
  BY <1>2, <1>3, TaskNames DEF TypeOK
<1>11. collection' \subseteq 1..submitted'
  BY <1>2, <1>3 DEF TypeOK
<1> QED BY <1>1, <1>2, <1>5, <1>6, <1>7, <1>8, <1>9, <1>10, <1>11

\* The types of the scheduler's state, and of the rest.
SchedulerOK ==
    /\ submitted \in 0..MaxSequences
    /\ kind \in [Number -> Kind \cup {NoKind}]
    /\ status \in [Number -> [Name -> Status]]
    /\ seqStatus \in [Number -> Status]
    /\ collection \subseteq 1..submitted
    /\ queue \subseteq (1..submitted) \X Name
    /\ handlers \subseteq HandlerKind
    /\ \A i \in Number : i <= submitted <=> kind[i] \in Kind

UnitsOK ==
    /\ working \subseteq Asynch
    /\ powered \subseteq Unit /\ halted \subseteq Unit
    /\ seCtrlPowerStatus \in {"ON", "OFF", "CHANGING"}
    /\ mains \in BOOLEAN
    /\ scenario \in Scenarios

ThreadOK ==
    /\ pc \in PC
    /\ current \in (IF pc = "run" THEN (1..submitted) \X Name ELSE {NoTask})

DevOK ==
    /\ progress \in [Kind -> Status]
    /\ dev \in Dev
    /\ reading \in [of : Kind \cup {NoKind}, status : Status]
    /\ dev = "update" => reading.of \in Kind

LEMMA TypeParts == TypeOK <=> SchedulerOK /\ UnitsOK /\ ThreadOK /\ DevOK
  BY DEF TypeOK, SchedulerOK, UnitsOK, ThreadOK, DevOK

LEMMA FlushType ==
  ASSUME TypeOK, FlushQueue
  PROVE  SchedulerOK' /\ submitted' = submitted
  BY DEF TypeOK, SchedulerOK, FlushQueue

LEMMA AddType ==
  ASSUME TypeOK, NEW k \in Kind, AddTaskSequence(k)
  PROVE  SchedulerOK' /\ submitted' = submitted + 1
  BY AddLemma DEF TypeOK, SchedulerOK

LEMMA StatusType ==
  ASSUME TypeOK, NEW S, NEW st \in Status, SetStatus(S, st),
         queue' \subseteq queue, UNCHANGED <<submitted, kind, collection, handlers>>
  PROVE  SchedulerOK'
<1>1. /\ status' \in [Number -> [Name -> Status]]
      /\ seqStatus' \in [Number -> Status]
  BY SetStatusLemma
<1> QED BY <1>1 DEF TypeOK, SchedulerOK

LEMMA RevokeType ==
  ASSUME TypeOK, NEW N, RevokeTasks(N)
  PROVE  SchedulerOK' /\ submitted' = submitted
<1>1. "CANCELED" \in Status
  BY DEF Status
<1> QED BY <1>1, StatusType DEF RevokeTasks

\* Commands that leave the thread alone, and handlers that leave the task alone.
LEMMA ThreadType ==
  ASSUME TypeOK, submitted' \in {submitted, submitted + 1}, UNCHANGED <<pc, current>>
  PROVE  ThreadOK'
<1>1. 1..submitted \subseteq 1..submitted'
  BY DEF TypeOK
<1> QED BY <1>1 DEF TypeOK, ThreadOK

LEMMA HandlerType ==
  ASSUME TypeOK, pc # "run", pc' \in PC \ {"run"}, handlerUnchanged
  PROVE  ThreadOK' /\ UnitsOK'
  BY DEF TypeOK, ThreadOK, UnitsOK, handlerUnchanged, unitVars

LEMMA ProgressType ==
  ASSUME TypeOK, UNCHANGED <<dev, reading>>, progress' \in [Kind -> Status]
  PROVE  DevOK'
  BY DEF TypeOK, DevOK

\* The task thread at work on a task.
LEMMA TaskStepType ==
  ASSUME TypeOK,
         \/ \E t \in queue : PopTask(t[1], t[2]) \/ TaskExpires(t[1], t[2])
         \/ TaskReturns \/ TaskFails
  PROVE  TypeOK'
<1>1. ASSUME NEW t \in queue, PopTask(t[1], t[2])
      PROVE  TypeOK'
  <2>1. SchedulerOK'
    BY <1>1 DEF PopTask, TypeOK, SchedulerOK
  <2>2. UnitsOK' /\ DevOK'
    BY <1>1 DEF PopTask, TypeOK, UnitsOK, DevOK, unitVars, devVars
  <2>3. ThreadOK'
    BY <1>1 DEF PopTask, TypeOK, ThreadOK, PC
  <2> QED BY <2>1, <2>2, <2>3, TypeParts DEF TypeOK, SchedulerOK, UnitsOK, ThreadOK, DevOK
<1>2. ASSUME NEW t \in queue, TaskExpires(t[1], t[2])
      PROVE  TypeOK'
  <2>1. SchedulerOK'
    BY <1>2 DEF TaskExpires, TypeOK, SchedulerOK, Status
  <2>2. UnitsOK' /\ DevOK'
    BY <1>2 DEF TaskExpires, TypeOK, UnitsOK, DevOK, unitVars, devVars
  <2>3. ThreadOK'
    BY <1>2, ThreadType DEF TaskExpires
  <2> QED BY <2>1, <2>2, <2>3 DEF TypeOK, SchedulerOK, UnitsOK, ThreadOK, DevOK
<1>3. CASE TaskReturns
  <2>1. SchedulerOK'
    <3>1. "RUNNING" \in Status /\ "COMPLETED" \in Status
      BY DEF Status
    <3> QED BY <1>3, <3>1, StatusType DEF TaskReturns
  <2>2. powered' \subseteq Unit /\ halted' \subseteq Unit
    BY <1>3 DEF TaskReturns, PowerOrder, TypeOK, Unit
  <2>3. working' \subseteq Asynch
    BY <1>3 DEF TaskReturns, TypeOK
  <2>4. ThreadOK' /\ DevOK'
    BY <1>3 DEF TaskReturns, TypeOK, ThreadOK, DevOK, PC, devVars
  <2>5. UnitsOK'
    BY <1>3, <2>2, <2>3 DEF TaskReturns, TypeOK, UnitsOK
  <2> QED BY <2>1, <2>4, <2>5 DEF TypeOK, SchedulerOK, UnitsOK, ThreadOK, DevOK
<1>4. CASE TaskFails
  <2>1. SchedulerOK'
    <3>1. "FAILED" \in Status
      BY DEF Status
    <3> QED BY <1>4, <3>1, StatusType DEF TaskFails
  <2>2. UnitsOK' /\ DevOK' /\ ThreadOK'
    BY <1>4 DEF TaskFails, TypeOK, UnitsOK, DevOK, ThreadOK, PC, unitVars, devVars
  <2> QED BY <2>1, <2>2 DEF TypeOK, SchedulerOK, UnitsOK, ThreadOK, DevOK
<1> QED BY <1>1, <1>2, <1>3, <1>4

\* Sub-elements, power events and the mains.
LEMMA OutsideType ==
  ASSUME TypeOK,
         \/ \E n \in Asynch, report \in {"RUNNING", "COMPLETED", "FAILED"} :
               ReportProgress(n, report)
         \/ \E h \in HandlerKind : PushHandler(h)
         \/ PowerStatusEvent \/ MainsChange
  PROVE  TypeOK'
<1>1. ASSUME NEW n \in Asynch, NEW report \in {"RUNNING", "COMPLETED", "FAILED"},
             ReportProgress(n, report)
      PROVE  TypeOK'
  <2>1. SchedulerOK'
    <3>1. report \in Status
      BY DEF Status
    <3> QED BY <1>1, <3>1, StatusType DEF ReportProgress
  <2>2. UnitsOK' /\ DevOK'
    BY <1>1 DEF ReportProgress, TypeOK, UnitsOK, DevOK, devVars
  <2>3. ThreadOK'
    BY <1>1, ThreadType DEF ReportProgress
  <2> QED BY <2>1, <2>2, <2>3 DEF TypeOK, SchedulerOK, UnitsOK, ThreadOK, DevOK
<1>2. ASSUME NEW h \in HandlerKind, PushHandler(h)
      PROVE  TypeOK'
  BY <1>2 DEF PushHandler, TypeOK, unitVars, devVars
<1>3. CASE PowerStatusEvent
  <2>1. PowerStatus(powered) \in {"ON", "OFF", "CHANGING"}
    BY DEF PowerStatus
  <2> QED BY <1>3, <2>1 DEF PowerStatusEvent, TypeOK, schedVars, devVars
<1>4. CASE MainsChange
  BY <1>4 DEF MainsChange, TypeOK, schedVars, devVars
<1> QED BY <1>1, <1>2, <1>3, <1>4

\* Commands and polls.
LEMMA DevType ==
  ASSUME TypeOK, DevStep
  PROVE  TypeOK'
<1>0. TypeOK /\ devOnly /\ UNCHANGED working => UnitsOK'
  BY DEF devOnly, TypeOK, UnitsOK
<1>1. ASSUME NEW k \in Kind, NEW mode, ModeCommand(k, mode)
      PROVE  TypeOK'
  <2>1. SchedulerOK' /\ submitted' \in {submitted, submitted + 1}
    <3>1. CASE IsTargetMode(k, mode)
      BY <1>1, <3>1 DEF ModeCommand, SubmitMode, TypeOK, SchedulerOK, schedVars
    <3>2. CASE ~IsTargetMode(k, mode)
      BY <1>1, <3>2, AddType DEF ModeCommand, SubmitMode
    <3> QED BY <3>1, <3>2
  <2>2. progress' \in [Kind -> Status]
    BY <1>1 DEF ModeCommand, SubmitMode, TypeOK, Status
  <2>3. DevOK'
    BY <1>1, <2>2, ProgressType DEF ModeCommand
  <2>4. ThreadOK'
    BY <1>1, <2>1, ThreadType DEF ModeCommand, devOnly
  <2>5. UnitsOK'
    BY <1>0, <1>1 DEF ModeCommand
  <2> QED BY <2>1, <2>3, <2>4, <2>5 DEF TypeOK, SchedulerOK, UnitsOK, ThreadOK, DevOK
<1>2. CASE FlushCommandQueue
  <2>1. SchedulerOK' /\ submitted' = submitted
    BY <1>2, FlushType DEF FlushCommandQueue
  <2>2. DevOK' /\ UnitsOK' /\ ThreadOK'
    BY <1>0, <1>2, <2>1, ThreadType DEF FlushCommandQueue, TypeOK, DevOK, devVars, devOnly
  <2> QED BY <2>1, <2>2 DEF TypeOK, SchedulerOK, UnitsOK, ThreadOK, DevOK
<1>3. ASSUME NEW next \in {"resetTasks", "resetMode", "tmLoss"}, ResetFlush(next)
      PROVE  TypeOK'
  <2>1. SchedulerOK' /\ submitted' = submitted
    BY <1>3, FlushType DEF ResetFlush
  <2>2. UnitsOK' /\ ThreadOK'
    BY <1>0, <1>3, <2>1, ThreadType DEF ResetFlush, devOnly
  <2>3. DevOK'
    BY <1>3 DEF ResetFlush, TypeOK, DevOK, Dev
  <2> QED BY <2>1, <2>2, <2>3 DEF TypeOK, SchedulerOK, UnitsOK, ThreadOK, DevOK
<1>4. \A K : ResetOf(K) \in [Kind -> Status]
  BY DEF ResetOf, TypeOK, Status
<1>5. CASE ResetDishTasks \/ HandleTMCommLoss
  <2>1. SchedulerOK' /\ submitted' = submitted
    BY <1>5 DEF ResetDishTasks, HandleTMCommLoss, TypeOK, SchedulerOK, schedVars
  <2>2. working' \subseteq Asynch
    BY <1>5 DEF ResetDishTasks, HandleTMCommLoss, TypeOK, Asynch
  <2>3. UnitsOK'
    BY <1>5, <2>2 DEF ResetDishTasks, HandleTMCommLoss, TypeOK, UnitsOK, devOnly
  <2>4. ThreadOK'
    BY <1>5, <2>1, ThreadType DEF ResetDishTasks, HandleTMCommLoss, devOnly
  <2>5. DevOK'
    BY <1>4, <1>5 DEF ResetDishTasks, HandleTMCommLoss, TypeOK, DevOK, Dev
  <2> QED BY <2>1, <2>3, <2>4, <2>5 DEF TypeOK, SchedulerOK, UnitsOK, ThreadOK, DevOK
<1>6. ASSUME NEW mode, ResetDishMode(mode)
      PROVE  TypeOK'
  <2>1. SchedulerOK' /\ submitted' \in {submitted, submitted + 1}
    <3>1. CASE IsTargetMode("SetStandbyLPMode", mode)
      BY <1>6, <3>1 DEF ResetDishMode, TypeOK, SchedulerOK, schedVars
    <3>2. CASE ~IsTargetMode("SetStandbyLPMode", mode)
      BY <1>6, <3>2, AddType, KindNames DEF ResetDishMode
    <3> QED BY <3>1, <3>2
  <2>2. DevOK'
    BY <1>4, <1>6 DEF ResetDishMode, TypeOK, DevOK, Dev, Status
  <2>3. UnitsOK' /\ ThreadOK'
    BY <1>0, <1>6, <2>1, ThreadType DEF ResetDishMode, devOnly
  <2> QED BY <2>1, <2>2, <2>3 DEF TypeOK, SchedulerOK, UnitsOK, ThreadOK, DevOK
<1>7. ASSUME NEW k \in Kind, ReadSequenceStatus(k)
      PROVE  TypeOK'
  <2>1. SchedulerOK' /\ submitted' = submitted
    BY <1>7 DEF ReadSequenceStatus, TypeOK, SchedulerOK, schedVars
  <2>2. UnitsOK' /\ ThreadOK'
    BY <1>0, <1>7, <2>1, ThreadType DEF ReadSequenceStatus, devOnly
  <2>3. reading' \in [of : Kind, status : Status]
    <3>1. PICK i \in collection : reading' = [of |-> k, status |-> seqStatus[i]]
      BY <1>7 DEF ReadSequenceStatus, OfKind
    <3>2. i \in Number
      BY ConstantAssumption DEF TypeOK, Number
    <3> QED BY <3>1, <3>2 DEF TypeOK
  <2>4. DevOK'
    BY <1>7, <2>3 DEF ReadSequenceStatus, TypeOK, DevOK, Dev
  <2> QED BY <2>1, <2>2, <2>4 DEF TypeOK, SchedulerOK, UnitsOK, ThreadOK, DevOK
<1>8. CASE WriteStatusAttr
  <2>1. SchedulerOK' /\ submitted' = submitted
    BY <1>8 DEF WriteStatusAttr, TypeOK, SchedulerOK, schedVars
  <2>2. UnitsOK' /\ ThreadOK'
    BY <1>0, <1>8, <2>1, ThreadType DEF WriteStatusAttr, devOnly
  <2>3. DevOK'
    BY <1>8 DEF WriteStatusAttr, TypeOK, DevOK, Dev, NoReading, Status
  <2> QED BY <2>1, <2>2, <2>3 DEF TypeOK, SchedulerOK, UnitsOK, ThreadOK, DevOK
<1>9. ASSUME NEW old \in SUBSET collection, ClearTasks(old)
      PROVE  TypeOK'
  BY <1>9 DEF ClearTasks, TypeOK, unitVars, devVars
<1> QED BY <1>1, <1>2, <1>3, <1>5, <1>6, <1>7, <1>8, <1>9 DEF DevStep

\* The event handlers.
LEMMA HandlerStepType ==
  ASSUME TypeOK, HandlerStep
  PROVE  TypeOK'
<1>0. "INIT" \in Status /\ "IDLE" \in Status
      /\ "ShutdownOnPowerCut" \in Kind /\ "StartupOnPowerRestore" \in Kind
      /\ "HandleESTOPEvent" \in Kind
  BY KindNames DEF Status, HandlerKind
<1>1. \A h, next : TakeHandler(h, next) => SchedulerOK' /\ pc # "run"
  BY DEF TakeHandler, TypeOK, SchedulerOK
<1>2. \A here, k : HandlerDone(here, k) => SchedulerOK' /\ progress' \in [Kind -> Status]
  <2>1. \A here, k : HandlerDone(here, k) => SchedulerOK'
    BY DEF HandlerDone, TypeOK, SchedulerOK, schedVars
  <2>2. \A here, k : HandlerDone(here, k) => progress' \in [Kind -> Status]
    BY <1>0 DEF HandlerDone, TypeOK
  <2> QED BY <2>1, <2>2
<1>3. SchedulerOK' /\ progress' \in [Kind -> Status]
      /\ pc # "run" /\ pc' \in PC \ {"run"} /\ handlerUnchanged
  <2>0. progress \in [Kind -> Status]
    BY DEF TypeOK
  <2>1. CASE PowerCutIgnored \/ PowerRestoreIgnored \/ EStopIgnored
    BY <1>1, <2>0, <2>1 DEF PowerCutIgnored, PowerRestoreIgnored, EStopIgnored, TakeHandler, PC
  <2>2. CASE PowerCutAccepted \/ PowerRestoreAccepted \/ EStopAccepted
    BY <1>0, <1>1, <2>0, <2>2
       DEF PowerCutAccepted, PowerRestoreAccepted, EStopAccepted, TakeHandler, PC
  <2>3. CASE PowerCutFlush \/ EStopFlush
    BY <2>0, <2>3, FlushType DEF PowerCutFlush, EStopFlush, HandlerAt, PC
  <2>4. CASE PowerRestoreRevoke
    BY <2>0, <2>4, RevokeType DEF PowerRestoreRevoke, HandlerAt, PC
  <2>5. CASE PowerCutAdd \/ PowerRestoreAdd \/ EStopAdd
    BY <1>0, <2>0, <2>5, AddType DEF PowerCutAdd, PowerRestoreAdd, EStopAdd, HandlerAt, PC
  <2>6. CASE PowerCutDone \/ PowerRestoreDone \/ EStopDone
    BY <1>2, <2>6 DEF PowerCutDone, PowerRestoreDone, EStopDone, HandlerDone, HandlerAt, PC
  <2> QED BY <2>1, <2>2, <2>3, <2>4, <2>5, <2>6 DEF HandlerStep
<1>4. ThreadOK' /\ UnitsOK'
  BY <1>3, HandlerType
<1>5. DevOK'
  BY <1>3, ProgressType DEF handlerUnchanged
<1> QED BY <1>3, <1>4, <1>5 DEF TypeOK, SchedulerOK, UnitsOK, ThreadOK, DevOK

\* Every step keeps the types.
LEMMA NextType ==
  ASSUME TypeOK, [Next]_vars
  PROVE  TypeOK'
<1>1. CASE ThreadStep
  BY <1>1, TaskStepType, HandlerStepType DEF ThreadStep
<1>2. CASE DevStep
  BY <1>2, DevType
<1>3. CASE UNCHANGED vars
  BY <1>3 DEF TypeOK, vars, schedVars, unitVars, devVars
<1> QED BY <1>1, <1>2, <1>3, OutsideType DEF Next

\* Every reachable state is well-typed.
THEOREM DishTypeCorrect == Spec => []TypeOK
<1> QED BY InitType, NextType, PTL DEF Spec

-----------------------------------------------------------------------------
(* Power orders *)

OrdersInv == PowerOrdersCurrent /\ HandlerPrepared /\ OrdersKnown

LEMMA OrdersTyped ==
  ASSUME TypeOK
  PROVE  Orders \subseteq (1..submitted) \X Name
  BY DEF TypeOK, Orders

\* Steps that order nothing new: most of them.
LEMMA NothingOrdered ==
  ASSUME TypeOK, OrdersInv, Orders' \subseteq Orders, queue' \subseteq queue,
         UNCHANGED <<submitted, kind>>,
         pc' = pc \/ pc' \notin {"cutAdd", "restoreAdd"}
  PROVE  OrdersInv'
<1>1. PowerOrdersCurrent' /\ OrdersKnown'
  BY DEF OrdersInv, PowerOrdersCurrent, OrdersKnown
<1>2. HandlerPrepared'
  BY DEF OrdersInv, HandlerPrepared
<1> QED BY <1>1, <1>2 DEF OrdersInv

\* A new sequence comes when the orders of the opposite kind are gone.
LEMMA SequenceOrdered ==
  ASSUME TypeOK, OrdersInv, NEW k \in Kind, AddTaskSequence(k), UNCHANGED current,
         k = "ShutdownOnPowerCut" => \A t \in Orders : t[2] \notin PowerUp,
         k = "StartupOnPowerRestore" => \A t \in Orders : t[2] \notin PowerDown,
         \/ pc' = pc /\ k \notin HandlerKind
         \/ pc' \notin {"cutAdd", "restoreAdd"}
  PROVE  OrdersInv'
<1> DEFINE new == {<<submitted + 1, n>> : n \in Tasks[k]}
<1>1. /\ submitted' = submitted + 1 /\ submitted \in Nat
      /\ queue' = queue \cup new
      /\ kind'[submitted + 1] = k
      /\ \A i \in 1..submitted : kind'[i] = kind[i]
  BY AddLemma DEF TypeOK
<1>2. Orders' = Orders \cup new
  BY <1>1 DEF Orders
<1>3. \A t \in Orders : t[1] \in 1..submitted
  BY OrdersTyped
<1>4. \A t \in new : t[1] = submitted + 1 /\ t[2] \in Tasks[k]
  OBVIOUS
<1>5. \A j \in 1..submitted' : j \in 1..submitted \/ j = submitted + 1
  BY <1>1
<1> HIDE DEF new
<1>6. PowerOrdersCurrent'
  <2> SUFFICES ASSUME NEW t \in Orders', NEW j \in 1..submitted', t[1] < j
               PROVE  /\ t[2] \in PowerDown => kind'[j] # "StartupOnPowerRestore"
                      /\ t[2] \in PowerUp   => kind'[j] # "ShutdownOnPowerCut"
    BY DEF PowerOrdersCurrent
  <2>1. t \in Orders
    BY <1>1, <1>2, <1>4, <1>5
  <2>2. CASE j \in 1..submitted
    BY <1>1, <2>1, <2>2 DEF OrdersInv, PowerOrdersCurrent
  <2>3. CASE j = submitted + 1
    BY <1>1, <2>1, <2>3
  <2> QED BY <1>5, <2>2, <2>3
<1>7. OrdersKnown'
  BY <1>1, <1>2, <1>3, <1>4 DEF OrdersInv, OrdersKnown
<1>8. HandlerPrepared'
  <2>1. k \notin HandlerKind => \A t \in new : t[2] \notin PowerUp /\ t[2] \notin PowerDown
    BY <1>4, TaskNames DEF HandlerKind
  <2> QED BY <1>1, <2>1 DEF OrdersInv, HandlerPrepared
<1> QED BY <1>6, <1>7, <1>8 DEF OrdersInv

LEMMA DevOrders ==
  ASSUME TypeOK, OrdersInv, DevStep
  PROVE  OrdersInv'
<1>0. UNCHANGED <<schedVars, pc, current>> => OrdersInv'
  BY NothingOrdered DEF schedVars, Orders
<1>1. FlushQueue /\ UNCHANGED <<pc, current>> => OrdersInv'
  BY NothingOrdered DEF FlushQueue, Orders
<1>2. ASSUME NEW k \in Kind \ HandlerKind, NEW mode, ModeCommand(k, mode)
      PROVE  OrdersInv'
  <2>1. CASE IsTargetMode(k, mode)
    BY <1>0, <1>2, <2>1 DEF ModeCommand, SubmitMode, devOnly
  <2>2. CASE ~IsTargetMode(k, mode)
    BY <1>2, <2>2, SequenceOrdered DEF ModeCommand, SubmitMode, devOnly, HandlerKind
  <2> QED BY <2>1, <2>2
<1>3. CASE FlushCommandQueue
  BY <1>1, <1>3 DEF FlushCommandQueue, devOnly
<1>4. ASSUME NEW next, ResetFlush(next)
      PROVE  OrdersInv'
  BY <1>1, <1>4 DEF ResetFlush, devOnly
<1>5. CASE ResetDishTasks \/ HandleTMCommLoss
  BY <1>0, <1>5 DEF ResetDishTasks, HandleTMCommLoss, devOnly
<1>6. ASSUME NEW mode, ResetDishMode(mode)
      PROVE  OrdersInv'
  <2>1. CASE IsTargetMode("SetStandbyLPMode", mode)
    BY <1>0, <1>6, <2>1 DEF ResetDishMode, devOnly
  <2>2. CASE ~IsTargetMode("SetStandbyLPMode", mode)
    BY <1>6, <2>2, SequenceOrdered, KindNames DEF ResetDishMode, devOnly, HandlerKind
  <2> QED BY <2>1, <2>2
<1>7. ASSUME NEW k, ReadSequenceStatus(k)
      PROVE  OrdersInv'
  BY <1>0, <1>7 DEF ReadSequenceStatus, devOnly
<1>8. CASE WriteStatusAttr
  BY <1>0, <1>8 DEF WriteStatusAttr, devOnly
<1>9. ASSUME NEW old, ClearTasks(old)
      PROVE  OrdersInv'
  BY <1>9, NothingOrdered DEF ClearTasks, Orders
<1> QED BY <1>2, <1>3, <1>4, <1>5, <1>6, <1>7, <1>8, <1>9 DEF DevStep

LEMMA HandlerOrders ==
  ASSUME TypeOK, OrdersInv, HandlerStep
  PROVE  OrdersInv'
<1>0. current' = current
  BY DEF HandlerStep, handlerUnchanged, PowerCutIgnored, PowerCutAccepted, PowerCutFlush,
         PowerCutAdd, PowerCutDone, PowerRestoreIgnored, PowerRestoreAccepted,
         PowerRestoreRevoke, PowerRestoreAdd, PowerRestoreDone, EStopIgnored,
         EStopAccepted, EStopFlush, EStopAdd, EStopDone, HandlerDone
<1>1. \A h, next : TakeHandler(h, next) /\ next \notin {"cutAdd", "restoreAdd"} => OrdersInv'
  BY <1>0, NothingOrdered DEF TakeHandler, Orders
<1>2. \A here, k : HandlerDone(here, k) => OrdersInv'
  BY <1>0, NothingOrdered DEF HandlerDone, HandlerAt, schedVars, Orders
<1>3. CASE PowerCutIgnored \/ PowerRestoreIgnored \/ EStopIgnored
  BY <1>1, <1>3 DEF PowerCutIgnored, PowerRestoreIgnored, EStopIgnored
<1>4. CASE PowerCutAccepted \/ PowerRestoreAccepted \/ EStopAccepted
  BY <1>1, <1>4 DEF PowerCutAccepted, PowerRestoreAccepted, EStopAccepted
<1>5. CASE PowerCutFlush
  <2>1. queue' = {} /\ UNCHANGED <<submitted, kind>> /\ pc' = "cutAdd"
    BY <1>5 DEF PowerCutFlush, FlushQueue, HandlerAt
  <2>2. PowerOrdersCurrent' /\ OrdersKnown'
    BY <1>0, <2>1 DEF OrdersInv, PowerOrdersCurrent, OrdersKnown, Orders
  <2>3. HandlerPrepared'
    BY <2>1 DEF HandlerPrepared
  <2> QED BY <2>2, <2>3 DEF OrdersInv
<1>6. CASE EStopFlush
  BY <1>0, <1>6, NothingOrdered DEF EStopFlush, FlushQueue, HandlerAt, Orders
<1>7. CASE PowerRestoreRevoke
  <2>1. queue' = {t \in queue : t[2] \notin PowerDown} /\ UNCHANGED <<submitted, kind>>
        /\ pc' = "restoreAdd"
    BY <1>7 DEF PowerRestoreRevoke, RevokeTasks, HandlerAt
  <2>2. Orders' \subseteq Orders
    BY <1>0, <2>1 DEF Orders
  <2>3. PowerOrdersCurrent' /\ OrdersKnown'
    BY <2>1, <2>2 DEF OrdersInv, PowerOrdersCurrent, OrdersKnown
  <2>4. HandlerPrepared'
    BY <2>1 DEF HandlerPrepared
  <2> QED BY <2>3, <2>4 DEF OrdersInv
<1>8. pc # "run" => Orders = queue
  BY DEF TypeOK, Orders
<1>9. CASE PowerCutAdd
  <2>1. \A t \in Orders : t[2] \notin PowerUp
    BY <1>8, <1>9 DEF PowerCutAdd, HandlerAt, OrdersInv, HandlerPrepared
  <2> QED BY <1>0, <1>9, <2>1, SequenceOrdered, KindNames
          DEF PowerCutAdd, HandlerAt, HandlerKind
<1>10. CASE PowerRestoreAdd
  <2>1. \A t \in Orders : t[2] \notin PowerDown
    BY <1>8, <1>10 DEF PowerRestoreAdd, HandlerAt, OrdersInv, HandlerPrepared
  <2> QED BY <1>0, <1>10, <2>1, SequenceOrdered, KindNames
          DEF PowerRestoreAdd, HandlerAt, HandlerKind
<1>11. CASE EStopAdd
  BY <1>0, <1>11, SequenceOrdered, KindNames DEF EStopAdd, HandlerAt, HandlerKind
<1>12. CASE PowerCutDone \/ PowerRestoreDone \/ EStopDone
  BY <1>2, <1>12 DEF PowerCutDone, PowerRestoreDone, EStopDone
<1> QED BY <1>3, <1>4, <1>5, <1>6, <1>7, <1>9, <1>10, <1>11, <1>12 DEF HandlerStep

\* Every step keeps the invariant of the power orders.
LEMMA NextOrders ==
  ASSUME TypeOK, OrdersInv, [Next]_vars
  PROVE  OrdersInv'
<1>1. ASSUME NEW t \in queue, PopTask(t[1], t[2])
      PROVE  OrdersInv'
  <2>1. t = <<t[1], t[2]>>
    BY DEF TypeOK
  <2>2. Orders' \subseteq Orders
    BY <1>1, <2>1 DEF PopTask, Orders
  <2> QED BY <1>1, <2>2, NothingOrdered DEF PopTask
<1>2. ASSUME NEW t \in queue, TaskExpires(t[1], t[2])
      PROVE  OrdersInv'
  BY <1>2, NothingOrdered DEF TaskExpires, Orders
<1>3. CASE TaskReturns \/ TaskFails
  BY <1>3, NothingOrdered DEF TaskReturns, TaskFails, Orders
<1>4. CASE ThreadStep
  BY <1>1, <1>2, <1>3, <1>4, HandlerOrders DEF ThreadStep
<1>5. ASSUME NEW n, NEW report, ReportProgress(n, report)
      PROVE  OrdersInv'
  BY <1>5, NothingOrdered DEF ReportProgress, Orders
<1>6. ASSUME NEW h, PushHandler(h)
      PROVE  OrdersInv'
  BY <1>6, NothingOrdered DEF PushHandler, Orders
<1>7. CASE PowerStatusEvent \/ MainsChange \/ UNCHANGED vars
  BY <1>7, NothingOrdered DEF PowerStatusEvent, MainsChange, vars, schedVars, Orders
<1> QED BY <1>4, <1>5, <1>6, <1>7, DevOrders DEF Next

\* handle_power_cut_event and handle_power_restore_event: no order of either
\* outlives the other handler, in whatever order they, dish commands, resets and
\* the tasks themselves come.
THEOREM PowerOrdersTheorem == Spec => []PowerOrdersCurrent
<1>1. Init => OrdersInv
  BY DEF Init, OrdersInv, PowerOrdersCurrent, HandlerPrepared, OrdersKnown, Orders
<1>2. OrdersInv => PowerOrdersCurrent
  BY DEF OrdersInv
<1> QED BY <1>1, <1>2, NextOrders, DishTypeCorrect, PTL DEF Spec

-----------------------------------------------------------------------------
(* Power goes off after a shutdown only *)

PowerInv == NeverCutOff /\ SwitchOffPrepared

LEMMA SwitchNames ==
  ASSUME NEW u \in Unit
  PROVE  /\ Shutdown(u) \in Name \cap PowerDown /\ PowerOff(u) \in Name \cap PowerDown
         /\ Shutdown(u) \notin Asynch /\ PowerOff(u) \notin Asynch
         /\ Needs("ShutdownOnPowerCut", PowerOff(u)) = {Shutdown(u)}
<1>1. Shutdown(u) \in PowerDown /\ PowerOff(u) \in PowerDown
  BY DEF Unit, Shutdown, PowerOff, PowerDown
<1>2. PowerDown \subseteq Name
  <2>1. "ShutdownOnPowerCut" \in Kind /\ Tasks["ShutdownOnPowerCut"] = ShutdownOnPowerCut
    BY DEF Kind, Tasks
  <2> QED BY <2>1 DEF Name, PowerDown, ShutdownOnPowerCut
<1>3. Shutdown(u) \notin Asynch /\ PowerOff(u) \notin Asynch
  BY DEF Unit, Shutdown, PowerOff, Asynch
<1>4. Needs("ShutdownOnPowerCut", PowerOff(u)) = {Shutdown(u)}
  BY DEF Unit, Shutdown, PowerOff, Needs
<1> QED BY <1>1, <1>2, <1>3, <1>4

\* A step that switches nothing, orders no switching off and completes no shutdown.
LEMMA NothingSwitched ==
  ASSUME TypeOK, PowerInv, UNCHANGED <<powered, halted>>,
         \A u \in Unit, i \in 1..submitted' : <<i, PowerOff(u)>> \in Orders' =>
            /\ i \in 1..submitted /\ <<i, PowerOff(u)>> \in Orders
            /\ status'[i][Shutdown(u)] = "COMPLETED"
                  => status[i][Shutdown(u)] = "COMPLETED"
            /\ current' = <<i, PowerOff(u)>> =>
                  /\ current' = current
                  /\ status'[i][Shutdown(u)] = status[i][Shutdown(u)]
  PROVE  PowerInv'
<1>1. NeverCutOff'
  BY DEF PowerInv, NeverCutOff
<1>2. SwitchOffPrepared'
  BY DEF PowerInv, SwitchOffPrepared
<1> QED BY <1>1, <1>2 DEF PowerInv

\* Steps that leave the statuses alone.
LEMMA StatusLeft ==
  ASSUME TypeOK, PowerInv, UNCHANGED <<powered, halted, submitted, status>>,
         Orders' \subseteq Orders, current' = current \/ current' = NoTask
  PROVE  PowerInv'
<1>1. \A u \in Unit, i \in 1..submitted : <<i, PowerOff(u)>> # NoTask
  <2>1. 1..submitted \subseteq 1..MaxSequences
    BY ConstantAssumption DEF TypeOK
  <2> QED BY <2>1, SwitchNames, ConstantAssumption
<1> QED BY <1>1, NothingSwitched

LEMMA SequencePower ==
  ASSUME TypeOK, PowerInv, NEW k \in Kind, AddTaskSequence(k),
         UNCHANGED <<powered, halted, current>>,
         pc = "run" => k \notin HandlerKind
  PROVE  PowerInv'
<1>1. /\ submitted' = submitted + 1 /\ submitted \in Nat
      /\ queue' = queue \cup {<<submitted + 1, n>> : n \in Tasks[k]}
      /\ \A i \in 1..submitted : status'[i] = status[i]
      /\ \A n \in Name : status'[submitted + 1][n] \in {"IDLE", "INIT"}
  BY AddLemma DEF TypeOK
<1>2. \A i \in 1..submitted' : i \in 1..submitted \/ i = submitted + 1
  BY <1>1
<1>3. NeverCutOff'
  BY DEF PowerInv, NeverCutOff
<1>4. SwitchOffPrepared'
  <2> SUFFICES ASSUME NEW u \in Unit, NEW i \in 1..submitted',
                      <<i, PowerOff(u)>> \in Orders'
               PROVE  /\ status'[i][Shutdown(u)] = "COMPLETED" => u \in halted'
                      /\ current' = <<i, PowerOff(u)>> => status'[i][Shutdown(u)] = "COMPLETED"
    BY DEF SwitchOffPrepared
  <2>1. CASE i \in 1..submitted
    <3>1. <<i, PowerOff(u)>> \in Orders
      BY <1>1, <2>1 DEF Orders
    <3> QED BY <1>1, <2>1, <3>1 DEF PowerInv, SwitchOffPrepared
  <2>2. CASE i = submitted + 1
    <3>1. status'[i][Shutdown(u)] # "COMPLETED"
      BY <1>1, <2>2, SwitchNames
    <3>2. current' # <<i, PowerOff(u)>>
      <4>1. CASE pc = "run"
        BY <1>1, <2>2, <4>1 DEF TypeOK
      <4>2. CASE pc # "run"
        <5>1. i \in 1..MaxSequences
          BY <1>1, <2>2, AddLemma
        <5> QED BY <4>2, <5>1, SwitchNames, ConstantAssumption DEF TypeOK
      <4> QED BY <4>1, <4>2
    <3> QED BY <3>1, <3>2
  <2> QED BY <1>2, <2>1, <2>2
<1> QED BY <1>3, <1>4 DEF PowerInv

LEMMA DevPower ==
  ASSUME TypeOK, PowerInv, DevStep
  PROVE  PowerInv'
<1>0. UNCHANGED schedVars /\ devOnly => PowerInv'
  BY StatusLeft DEF schedVars, devOnly, Orders
<1>1. FlushQueue /\ devOnly => PowerInv'
  BY StatusLeft DEF FlushQueue, devOnly, Orders
<1>2. ASSUME NEW k \in Kind \ HandlerKind, NEW mode, ModeCommand(k, mode)
      PROVE  PowerInv'
  BY <1>0, <1>2, SequencePower DEF ModeCommand, SubmitMode, devOnly
<1>3. CASE FlushCommandQueue
  BY <1>1, <1>3 DEF FlushCommandQueue
<1>4. ASSUME NEW next, ResetFlush(next)
      PROVE  PowerInv'
  BY <1>1, <1>4 DEF ResetFlush
<1>5. CASE ResetDishTasks \/ HandleTMCommLoss
  BY <1>0, <1>5 DEF ResetDishTasks, HandleTMCommLoss
<1>6. ASSUME NEW mode, ResetDishMode(mode)
      PROVE  PowerInv'
  BY <1>0, <1>6, SequencePower, KindNames DEF ResetDishMode, devOnly, HandlerKind
<1>7. ASSUME NEW k, ReadSequenceStatus(k)
      PROVE  PowerInv'
  BY <1>0, <1>7 DEF ReadSequenceStatus
<1>8. CASE WriteStatusAttr
  BY <1>0, <1>8 DEF WriteStatusAttr
<1>9. ASSUME NEW old, ClearTasks(old)
      PROVE  PowerInv'
  BY <1>9, StatusLeft DEF ClearTasks, unitVars, Orders
<1> QED BY <1>2, <1>3, <1>4, <1>5, <1>6, <1>7, <1>8, <1>9 DEF DevStep

LEMMA HandlerPower ==
  ASSUME TypeOK, PowerInv, HandlerStep
  PROVE  PowerInv'
<1>0. UNCHANGED <<current, powered, halted>> /\ pc # "run"
  BY DEF HandlerStep, handlerUnchanged, unitVars, PowerCutIgnored, PowerCutAccepted,
         PowerCutFlush, PowerCutAdd, PowerCutDone, PowerRestoreIgnored, PowerRestoreAccepted,
         PowerRestoreRevoke, PowerRestoreAdd, PowerRestoreDone, EStopIgnored, EStopAccepted,
         EStopFlush, EStopAdd, EStopDone, HandlerDone, HandlerAt, TakeHandler
<1>1. \A h, next : TakeHandler(h, next) => PowerInv'
  BY <1>0, StatusLeft DEF TakeHandler, Orders
<1>2. \A here, k : HandlerDone(here, k) => PowerInv'
  BY <1>0, StatusLeft DEF HandlerDone, schedVars, Orders
<1>3. CASE \/ PowerCutIgnored \/ PowerRestoreIgnored \/ EStopIgnored
           \/ PowerCutAccepted \/ PowerRestoreAccepted \/ EStopAccepted
  BY <1>1, <1>3 DEF PowerCutIgnored, PowerRestoreIgnored, EStopIgnored, PowerCutAccepted,
                    PowerRestoreAccepted, EStopAccepted
<1>4. CASE PowerCutFlush \/ EStopFlush
  BY <1>0, <1>4, StatusLeft DEF PowerCutFlush, EStopFlush, FlushQueue, Orders
<1>5. CASE PowerRestoreRevoke
  <2> DEFINE revoked == {t \in Number \X PowerDown : status[t[1]][t[2]] = "IDLE"}
  <2>1. /\ queue' = {t \in queue : t[2] \notin PowerDown}
        /\ SetStatus(revoked, "CANCELED") /\ submitted' = submitted
    BY <1>5 DEF PowerRestoreRevoke, RevokeTasks
  <2>2. Orders = queue /\ Orders' = queue'
    BY <1>0 DEF TypeOK, Orders
  <2>3. \A u \in Unit, i \in 1..submitted' : <<i, PowerOff(u)>> \notin Orders'
    BY <2>1, <2>2, SwitchNames
  <2> QED BY <1>0, <2>3, NothingSwitched
<1>6. CASE PowerCutAdd \/ PowerRestoreAdd \/ EStopAdd
  BY <1>0, <1>6, SequencePower, KindNames
     DEF PowerCutAdd, PowerRestoreAdd, EStopAdd, HandlerKind
<1>7. CASE PowerCutDone \/ PowerRestoreDone \/ EStopDone
  BY <1>2, <1>7 DEF PowerCutDone, PowerRestoreDone, EStopDone
<1> QED BY <1>3, <1>4, <1>5, <1>6, <1>7 DEF HandlerStep

\* A switch-off is taken from the queue when the shutdown it needs is complete.
LEMMA PopPower ==
  ASSUME TypeOK, OrdersInv, PowerInv, NEW t \in queue, PopTask(t[1], t[2])
  PROVE  PowerInv'
<1>1. t \in (1..submitted) \X Name /\ t = <<t[1], t[2]>>
  BY DEF TypeOK
<1>2. /\ UNCHANGED <<submitted, status, powered, halted>>
      /\ current' = t /\ queue' \subseteq queue /\ CanRun(t[1], t[2])
  BY <1>1 DEF PopTask, unitVars
<1>3. Orders' \subseteq Orders
  BY <1>2 DEF Orders
<1>4. ASSUME NEW u \in Unit, t[2] = PowerOff(u)
      PROVE  status[t[1]][Shutdown(u)] = "COMPLETED"
  <2>1. kind[t[1]] \in Kind
    <3>1. t[1] \in Number /\ t[1] <= submitted
      BY <1>1, ConstantAssumption DEF TypeOK, Number
    <3> QED BY <3>1 DEF TypeOK
  <2>2. t[2] \in Tasks[kind[t[1]]]
    BY DEF OrdersInv, OrdersKnown, Orders
  <2>3. t[2] \in PowerDown
    BY <1>4, SwitchNames
  <2>4. kind[t[1]] = "ShutdownOnPowerCut"
    BY <2>1, <2>2, <2>3, TaskNames
  <2> QED BY <1>2, <1>4, <2>4, SwitchNames DEF CanRun
<1>5. NeverCutOff'
  BY <1>2 DEF PowerInv, NeverCutOff
<1>6. SwitchOffPrepared'
  BY <1>1, <1>2, <1>3, <1>4 DEF PowerInv, SwitchOffPrepared
<1> QED BY <1>5, <1>6 DEF PowerInv

\* What the end of a task does to power, shutdowns and the statuses of others.
LEMMA ReturnPower ==
  ASSUME TypeOK, OrdersInv, PowerInv, TaskReturns
  PROVE  PowerInv'
<1>1. current \in (1..submitted) \X Name /\ current = <<current[1], current[2]>>
  BY DEF TaskReturns, TypeOK
<1> DEFINE c == current[1]
           n == current[2]
<1>2. /\ PowerOrder(n) /\ current' = NoTask
      /\ UNCHANGED <<submitted, kind, queue>>
      /\ \E st \in {"RUNNING", "COMPLETED"} : SetStatus({current}, st)
  BY DEF TaskReturns
<1>3. \A i \in Number, m \in Name : status'[i][m] = status[i][m] \/ <<i, m>> = current
  <2>1. PICK st \in {"RUNNING", "COMPLETED"} : SetStatus({current}, st)
    BY <1>2
  <2>2. st \in Status
    BY DEF Status
  <2>3. \A i \in Number, m \in Name :
            status'[i][m] = status[i][m] \/ <<i, m>> \in {current}
    BY <2>1, <2>2, SetStatusLemma
  <2> QED BY <2>3
<1>4. Orders' = queue /\ current \in Orders /\ queue \subseteq Orders
  BY <1>1, <1>2, ConstantAssumption DEF Orders, TypeOK
<1>5. n \in Tasks[kind[c]] /\ kind[c] \in Kind
  <2>1. c \in Number /\ c <= submitted
    BY <1>1, ConstantAssumption DEF TypeOK, Number
  <2> QED BY <1>1, <1>4, <2>1 DEF OrdersInv, OrdersKnown, TypeOK
<1>6. 1..submitted \subseteq Number
  BY ConstantAssumption DEF TypeOK, Number
<1>7. \A u \in Unit : n = PowerOff(u) => u \in halted
  BY <1>1, <1>4 DEF PowerInv, SwitchOffPrepared
<1>8. NeverCutOff'
  <2>1. \A u \in Unit : n = PowerOff(u) => powered' = powered \ {u} /\ halted' = halted
    BY <1>2 DEF Unit, PowerOff, PowerOrder
  <2>2. CASE \E u \in Unit : n = PowerOff(u)
    BY <1>7, <2>1, <2>2 DEF PowerInv, NeverCutOff
  <2>3. CASE \A u \in Unit : n # PowerOff(u)
    BY <1>2, <2>3 DEF PowerInv, NeverCutOff, Unit, PowerOff, PowerOrder
  <2> QED BY <2>2, <2>3
<1>9. ASSUME NEW u \in Unit, NEW i \in 1..submitted, <<i, PowerOff(u)>> \in queue,
             status'[i][Shutdown(u)] = "COMPLETED"
      PROVE  u \in halted'
  <2>1. CASE n = Shutdown(u)
    BY <1>2, <2>1 DEF Unit, Shutdown, PowerOrder
  <2>2. CASE n # Shutdown(u)
    <3>1. status[i][Shutdown(u)] = "COMPLETED"
      BY <1>1, <1>3, <1>6, <1>9, <2>2, SwitchNames
    <3>2. u \in halted
      BY <1>4, <1>9, <3>1 DEF PowerInv, SwitchOffPrepared
    <3>3. n \notin PowerUp
      <4> SUFFICES ASSUME n \in PowerUp PROVE FALSE
        OBVIOUS
      <4>1. kind[c] = "StartupOnPowerRestore"
        BY <1>5, TaskNames
      <4>2. i \in Number /\ i <= submitted /\ PowerOff(u) \in Tasks[kind[i]]
        BY <1>4, <1>6, <1>9 DEF OrdersInv, OrdersKnown, TypeOK
      <4>3. kind[i] = "ShutdownOnPowerCut"
        BY <4>2, TaskNames, SwitchNames DEF TypeOK
      <4>4. i < c \/ c < i
        <5>1. i # c
          BY <4>1, <4>3
        <5>2. i \in Int /\ c \in Int
          BY <1>1, <1>9
        <5> HIDE DEF c
        <5> QED BY <5>1, <5>2
      <4>5. ~ (i < c)
        BY <1>1, <1>4, <1>9, <4>1, SwitchNames DEF OrdersInv, PowerOrdersCurrent
      <4>6. ~ (c < i)
        BY <1>1, <1>4, <1>9, <4>3 DEF OrdersInv, PowerOrdersCurrent
      <4> QED BY <4>4, <4>5, <4>6
    <3>4. halted \subseteq halted'
      BY <1>2, <3>3 DEF PowerOrder, PowerUp, StartupOnPowerRestore
    <3> QED BY <3>2, <3>4
  <2> QED BY <2>1, <2>2
<1>10. SwitchOffPrepared'
  <2>1. \A u \in Unit, i \in 1..submitted : <<i, PowerOff(u)>> # NoTask
    BY <1>6, SwitchNames, ConstantAssumption DEF Number
  <2> QED BY <1>2, <1>4, <1>9, <2>1 DEF SwitchOffPrepared
<1> QED BY <1>8, <1>10 DEF PowerInv

\* Every step keeps the power of a system that is up.
LEMMA NextPower ==
  ASSUME TypeOK, OrdersInv, PowerInv, [Next]_vars
  PROVE  PowerInv'
<1>0. 1..submitted \subseteq Number
  BY ConstantAssumption DEF TypeOK, Number
<1>1. ASSUME NEW t \in queue, TaskExpires(t[1], t[2])
      PROVE  PowerInv'
  <2>1. /\ UNCHANGED <<submitted, current, powered, halted>>
        /\ Orders' \subseteq Orders
        /\ status' = [status EXCEPT ![t[1]][t[2]] = "EXPIRED"]
    BY <1>1 DEF TaskExpires, unitVars, Orders
  <2>2. current = NoTask
    BY <1>1 DEF TaskExpires, TypeOK
  <2>3. \A u \in Unit, i \in 1..submitted : <<i, PowerOff(u)>> # NoTask
    BY <1>0, SwitchNames, ConstantAssumption DEF Number
  <2>4. \A i \in 1..submitted, m \in Name :
            status'[i][m] = "COMPLETED" => status[i][m] = "COMPLETED"
    BY <1>0, <2>1 DEF TypeOK
  <2> QED BY <2>1, <2>2, <2>3, <2>4, NothingSwitched, SwitchNames
<1>2. CASE TaskFails
  <2>1. /\ UNCHANGED <<submitted, powered, halted>> /\ current' = NoTask
        /\ Orders' \subseteq Orders /\ SetStatus({current}, "FAILED")
    BY <1>2 DEF TaskFails, unitVars, Orders
  <2>2. \A i \in 1..submitted, m \in Name :
            status'[i][m] = "COMPLETED" => status[i][m] = "COMPLETED"
    <3>1. "FAILED" \in Status
      BY DEF Status
    <3> QED BY <1>0, <2>1, <3>1, SetStatusLemma
  <2>3. \A u \in Unit, i \in 1..submitted : <<i, PowerOff(u)>> # NoTask
    BY <1>0, SwitchNames, ConstantAssumption DEF Number
  <2> QED BY <2>1, <2>2, <2>3, NothingSwitched, SwitchNames
<1>3. CASE ThreadStep
  BY <1>1, <1>2, <1>3, PopPower, ReturnPower, HandlerPower DEF ThreadStep
<1>4. ASSUME NEW n \in Asynch, NEW report \in {"RUNNING", "COMPLETED", "FAILED"},
             ReportProgress(n, report)
      PROVE  PowerInv'
  <2>1. /\ UNCHANGED <<submitted, powered, halted, current, queue>>
        /\ SetStatus(Number \X {n}, report) /\ report \in Status
    BY <1>4 DEF ReportProgress, Status
  <2>2. \A u \in Unit, i \in 1..submitted : status'[i][Shutdown(u)] = status[i][Shutdown(u)]
    <3>1. \A i \in Number, m \in Name :
              status'[i][m] = status[i][m] \/ <<i, m>> \in Number \X {n}
      BY <2>1, SetStatusLemma
    <3>2. \A u \in Unit : Shutdown(u) \in Name /\ Shutdown(u) # n
      BY <1>4, SwitchNames
    <3> QED BY <1>0, <3>1, <3>2
  <2> QED BY <2>1, <2>2, NothingSwitched DEF Orders
<1>5. ASSUME NEW h, PushHandler(h)
      PROVE  PowerInv'
  BY <1>5, StatusLeft DEF PushHandler, unitVars, Orders
<1>6. CASE PowerStatusEvent \/ MainsChange \/ UNCHANGED vars
  BY <1>6, StatusLeft DEF PowerStatusEvent, MainsChange, vars, schedVars, unitVars, Orders
<1> QED BY <1>3, <1>4, <1>5, <1>6, DevPower DEF Next

\* A controller never loses its power with its system up, although a restore of
\* the power may revoke, and a cut flush, any part of the work of the other.
THEOREM NeverCutOffTheorem == Spec => []NeverCutOff
<1>1. Init => OrdersInv
  BY DEF Init, OrdersInv, PowerOrdersCurrent, HandlerPrepared, OrdersKnown, Orders
<1>2. Init => PowerInv
  BY DEF Init, PowerInv, NeverCutOff, SwitchOffPrepared, Orders
<1>3. PowerInv => NeverCutOff
  BY DEF PowerInv
<1> QED BY <1>1, <1>2, <1>3, NextOrders, NextPower, DishTypeCorrect, PTL DEF Spec

-----------------------------------------------------------------------------
(* One sequence per command *)

\* Nothing fails and nothing expires in this behaviour.
Calm == scenario \cap {"fail", "expire"} = {}

Going == {"INIT", "IDLE", "RUNNING"}

\* The tasks of dish commands that are still to be run.
ModeWaiting ==
    {t \in queue : kind[t[1]] \in ModeKinds /\ status[t[1]][t[2]] = "IDLE"}

\* Why there is one sequence per command: as long as one of its tasks waits, its
\* sequence is the one that is polled and has a status that keeps the progress
\* attribute, also across a poll under way, from letting the command in again;
\* resets have flushed the queue before they write the attributes.
Unsubmitted == \A i \in Number : i > submitted => seqStatus[i] = "INIT"

ModeStatuses ==
    \A i \in 1..submitted : kind[i] \in ModeKinds =>
        \A n \in Tasks[kind[i]] : status[i][n] \in {"IDLE", "RUNNING", "COMPLETED"}

Guarded(t) ==
    LET k == kind[t[1]]
    IN  /\ t[1] \in collection /\ \A j \in collection : kind[j] = k => j <= t[1]
        /\ seqStatus[t[1]] \in Going
        /\ progress[k] \in Going
        /\ dev = "update" /\ reading.of = k => reading.status \in Going
        /\ dev \in {"free", "update"}

OneInv == Unsubmitted /\ ModeStatuses /\ \A t \in ModeWaiting : Guarded(t)

LEMMA ModeNames ==
  ASSUME NEW k \in ModeKinds
  PROVE  k \in Kind \ HandlerKind /\ Tasks[k] \cap PowerDown = {}
<1>1. k \in Kind \ HandlerKind
  BY KindNames DEF ModeKinds, HandlerKind
<1> QED BY <1>1, TaskNames DEF HandlerKind

\* A sequence with a task that waits and none that failed is still going.
LEMMA ComputeGoing ==
  ASSUME NEW S \in SUBSET {"IDLE", "RUNNING", "COMPLETED"}, "IDLE" \in S
  PROVE  ComputeStatus(S) \in Going
<1>1. CASE "RUNNING" \in S \/ "COMPLETED" \in S
  BY <1>1 DEF ComputeStatus, Going
<1>2. CASE S = {"IDLE"}
  BY <1>2 DEF ComputeStatus, Going
<1> QED BY <1>1, <1>2

LEMMA WaitingTyped ==
  ASSUME TypeOK, OrdersInv, NEW t \in ModeWaiting
  PROVE  /\ t[1] \in 1..submitted /\ t[1] \in Number /\ t[2] \in Name
         /\ t = <<t[1], t[2]>> /\ kind[t[1]] \in ModeKinds
         /\ t[2] \in Tasks[kind[t[1]]]
<1>1. t \in queue /\ kind[t[1]] \in ModeKinds
  BY DEF ModeWaiting
<1>2. t[1] \in 1..submitted /\ t[2] \in Name /\ t = <<t[1], t[2]>>
  BY <1>1 DEF TypeOK
<1>3. t[1] \in Number
  BY <1>2, ConstantAssumption DEF TypeOK, Number
<1>4. t[2] \in Tasks[kind[t[1]]]
  BY <1>1 DEF OrdersInv, OrdersKnown, Orders
<1> QED BY <1>1, <1>2, <1>3, <1>4

\* Steps that set no status and submit nothing keep the invariant when what
\* they write to attributes does: most of them.
LEMMA NothingSubmitted ==
  ASSUME TypeOK, OneInv, UNCHANGED <<submitted, kind, status, seqStatus>>,
         queue' \subseteq queue, collection' \subseteq collection,
         \A t \in queue' : t[1] \in collection => t[1] \in collection',
         \A t \in ModeWaiting : t \in queue' =>
            LET k == kind[t[1]]
            IN  /\ progress'[k] \in Going
                /\ dev' = "update" /\ reading'.of = k => reading'.status \in Going
                /\ dev' \in {"free", "update"}
  PROVE  OneInv'
<1>1. Unsubmitted' /\ ModeStatuses'
  BY DEF OneInv, Unsubmitted, ModeStatuses
<1>2. \A t \in ModeWaiting' : t \in ModeWaiting /\ t \in queue'
  BY DEF ModeWaiting
<1>3. \A t \in ModeWaiting' : Guarded(t)'
  BY <1>2 DEF OneInv, Guarded
<1> QED BY <1>1, <1>3 DEF OneInv

LEMMA AttributesLeft ==
  ASSUME TypeOK, OneInv, UNCHANGED <<submitted, kind, status, seqStatus, collection>>,
         queue' \subseteq queue, UNCHANGED <<dev, reading>>,
         \A k \in ModeKinds : progress'[k] = progress[k]
  PROVE  OneInv'
<1>1. \A t \in ModeWaiting : kind[t[1]] \in ModeKinds /\ Guarded(t)
  BY DEF ModeWaiting, OneInv
<1> QED BY <1>1, NothingSubmitted DEF Guarded

\* Outcomes, reports and revocations: of a dish command's tasks they only tell
\* that they run or are complete.
LEMMA StatusOne ==
  ASSUME TypeOK, OrdersInv, OneInv, NEW S, NEW st \in {"RUNNING", "COMPLETED", "CANCELED"},
         SetStatus(S, st),
         st = "CANCELED" => \A i \in Number, n \in Name : <<i, n>> \in S => n \in PowerDown,
         queue' \subseteq queue,
         UNCHANGED <<submitted, kind, collection, progress, dev, reading>>
  PROVE  OneInv'
<1> DEFINE new(i) == [n \in Name |-> IF <<i, n>> \in S THEN st ELSE status[i][n]]
           touched == {i \in collection : \E n \in Tasks[kind[i]] : <<i, n>> \in S}
<1>1. /\ status' = [i \in Number |-> IF i \in touched THEN new(i) ELSE status[i]]
      /\ seqStatus' = [i \in Number |-> IF i \in touched THEN Recomputed(i, new(i))
                                                      ELSE seqStatus[i]]
  BY DEF SetStatus
<1>2. touched \subseteq 1..submitted
  BY DEF TypeOK
<1> HIDE DEF touched
<1>3. Unsubmitted'
  <2>1. \A i \in Number : i > submitted => i \notin touched
    BY <1>2 DEF TypeOK, Number
  <2> QED BY <1>1, <2>1 DEF OneInv, Unsubmitted
<1>4. ASSUME NEW i \in 1..submitted, kind[i] \in ModeKinds, NEW n \in Tasks[kind[i]]
      PROVE  status'[i][n] \in {"IDLE", "RUNNING", "COMPLETED"}
  <2>1. i \in Number /\ n \in Name /\ n \notin PowerDown
    BY <1>4, ConstantAssumption, ModeNames, TaskNames DEF TypeOK, Number
  <2>2. <<i, n>> \in S => st \in {"RUNNING", "COMPLETED"}
    BY <2>1
  <2>3. status[i][n] \in {"IDLE", "RUNNING", "COMPLETED"}
    BY <1>4 DEF OneInv, ModeStatuses
  <2> QED BY <1>1, <2>1, <2>2, <2>3
<1>5. ModeStatuses'
  BY <1>4 DEF ModeStatuses
<1>6. ASSUME NEW t \in ModeWaiting'
      PROVE  Guarded(t)'
  <2>1. t \in queue /\ kind[t[1]] \in ModeKinds /\ status'[t[1]][t[2]] = "IDLE"
    BY <1>6 DEF ModeWaiting
  <2>2. t[1] \in 1..submitted /\ t[2] \in Name
    BY <2>1 DEF TypeOK
  <2>3. t[1] \in Number
    BY <2>2, ConstantAssumption DEF TypeOK, Number
  <2>4. status[t[1]][t[2]] = "IDLE"
    BY <1>1, <2>1, <2>2, <2>3
  <2>5. t \in ModeWaiting /\ Guarded(t) /\ t[2] \in Tasks[kind[t[1]]]
    BY <2>1, <2>4, WaitingTyped DEF ModeWaiting, OneInv
  <2>6. seqStatus'[t[1]] \in Going
    <3> DEFINE S2 == {new(t[1])[m] : m \in Tasks[kind[t[1]]]}
    <3>1. CASE t[1] \in touched
      <4>1. S2 = {status'[t[1]][m] : m \in Tasks[kind[t[1]]]}
        BY <1>1, <2>3, <3>1
      <4>2. S2 \in SUBSET {"IDLE", "RUNNING", "COMPLETED"}
        BY <1>4, <2>1, <2>2, <4>1
      <4>3. "IDLE" \in S2
        BY <2>1, <2>5, <4>1
      <4>4. seqStatus'[t[1]] = ComputeStatus(S2)
        BY <1>1, <2>3, <3>1 DEF Recomputed
      <4> HIDE DEF S2
      <4> QED BY <4>2, <4>3, <4>4, ComputeGoing
    <3>2. CASE t[1] \notin touched
      BY <1>1, <2>3, <2>5, <3>2 DEF Guarded
    <3> QED BY <3>1, <3>2
  <2> QED BY <2>5, <2>6 DEF Guarded
<1> QED BY <1>3, <1>5, <1>6 DEF OneInv

\* A dish command submits a sequence when none of its tasks waits any more.
LEMMA SequenceOne ==
  ASSUME TypeOK, OrdersInv, OneInv, NEW k \in Kind, AddTaskSequence(k),
         k \in ModeKinds =>
            /\ \A t \in ModeWaiting : kind[t[1]] # k
            /\ progress'[k] = "IDLE" /\ dev' = "free",
         \A t \in ModeWaiting :
            /\ progress'[kind[t[1]]] \in Going
            /\ dev' = "update" /\ reading'.of = kind[t[1]] => reading'.status \in Going
            /\ dev' \in {"free", "update"}
  PROVE  OneInv'
<1> DEFINE i == submitted + 1
<1>1. /\ submitted' = i /\ submitted \in Nat /\ i \in Number
      /\ kind'[i] = k
      /\ \A j \in 1..submitted : kind'[j] = kind[j] /\ status'[j] = status[j]
      /\ queue' = queue \cup {<<i, n>> : n \in Tasks[k]}
      /\ UNCHANGED seqStatus
  <2>1. submitted + 1 \in Number
    BY ConstantAssumption DEF AddTaskSequence, TypeOK, Number
  <2> QED BY <2>1, AddLemma DEF TypeOK
<1>2. /\ collection' = collection \cup {i} /\ collection \subseteq 1..submitted
      /\ \A n \in Tasks[k] : status'[i][n] = "IDLE"
  BY <1>1, TaskNames DEF AddTaskSequence, TypeOK
<1>3. \A j \in 1..submitted' : j \in 1..submitted \/ j = i
  BY <1>1
<1>4. i \notin 1..submitted /\ i <= i /\ \A j \in 1..submitted : j <= i
  BY <1>1
<1>5. Unsubmitted'
  BY <1>1 DEF OneInv, Unsubmitted, Number
<1>6. ModeStatuses'
  BY <1>1, <1>2, <1>3 DEF OneInv, ModeStatuses
<1>7. ASSUME NEW t \in ModeWaiting'
      PROVE  Guarded(t)'
  <2>1. t \in queue' /\ kind'[t[1]] \in ModeKinds /\ status'[t[1]][t[2]] = "IDLE"
    BY <1>7 DEF ModeWaiting
  <2>2. CASE t \in queue
    <3>1. t[1] \in 1..submitted
      BY <2>2 DEF TypeOK
    <3>2. t \in ModeWaiting /\ Guarded(t)
      BY <1>1, <2>1, <2>2, <3>1 DEF ModeWaiting, OneInv
    <3>3. kind[t[1]] \in ModeKinds /\ kind[t[1]] # k /\ kind'[t[1]] = kind[t[1]]
      BY <1>1, <3>1, <3>2 DEF ModeWaiting
    <3>4. \A j \in collection' : kind'[j] = kind[t[1]] => j \in collection /\ kind[j] = kind[t[1]]
      BY <1>1, <1>2, <3>3
    <3> QED BY <1>1, <1>2, <3>2, <3>3, <3>4 DEF Guarded
  <2>3. CASE t \in {<<i, n>> : n \in Tasks[k]}
    <3>1. t[1] = i /\ k \in ModeKinds
      BY <1>1, <2>1, <2>3
    <3>2. \A j \in collection' : j <= i
      BY <1>2, <1>4
    <3>3. seqStatus'[i] = "INIT"
      BY <1>1, <1>4 DEF OneInv, Unsubmitted, i
    <3> QED BY <1>1, <1>2, <3>1, <3>2, <3>3 DEF Guarded, Going
  <2> QED BY <1>1, <2>1, <2>2, <2>3
<1> QED BY <1>5, <1>6, <1>7 DEF OneInv

LEMMA DevOne ==
  ASSUME TypeOK, OrdersInv, OneInv, DevStep
  PROVE  OneInv'
<1>0. \A t \in ModeWaiting : kind[t[1]] \in ModeKinds /\ kind[t[1]] \in Kind /\ Guarded(t)
  BY KindNames DEF ModeWaiting, OneInv
<1>1. FlushQueue => OneInv'
  BY NothingSubmitted DEF FlushQueue
<1>2. ASSUME NEW k \in Kind \ HandlerKind, NEW mode, ModeCommand(k, mode)
      PROVE  OneInv'
  <2>1. \A t \in ModeWaiting : kind[t[1]] # k
    BY <1>0, <1>2 DEF ModeCommand, Ongoing, Guarded, Going
  <2>2. \A t \in ModeWaiting : progress'[kind[t[1]]] = progress[kind[t[1]]]
    BY <1>0, <1>2, <2>1 DEF ModeCommand, SubmitMode, TypeOK
  <2>3. dev' = "free"
    BY <1>2 DEF ModeCommand
  <2>4. CASE IsTargetMode(k, mode)
    BY <1>0, <1>2, <2>2, <2>3, <2>4, NothingSubmitted
    DEF ModeCommand, SubmitMode, schedVars, Guarded
  <2>5. CASE ~IsTargetMode(k, mode)
    <3>1. progress'[k] = "IDLE" /\ AddTaskSequence(k)
      BY <1>2, <2>5 DEF ModeCommand, SubmitMode, TypeOK
    <3> QED BY <1>0, <2>1, <2>2, <2>3, <3>1, SequenceOne DEF Guarded
  <2> QED BY <2>4, <2>5
<1>3. CASE FlushCommandQueue
  BY <1>1, <1>3 DEF FlushCommandQueue
<1>4. ASSUME NEW next, ResetFlush(next)
      PROVE  OneInv'
  BY <1>1, <1>4 DEF ResetFlush
<1>5. dev \notin {"free", "update"} => ModeWaiting = {}
  BY <1>0 DEF Guarded
<1>6. CASE ResetDishTasks \/ HandleTMCommLoss
  BY <1>5, <1>6, NothingSubmitted DEF ResetDishTasks, HandleTMCommLoss, schedVars
<1>7. ASSUME NEW mode, ResetDishMode(mode)
      PROVE  OneInv'
  <2>1. ModeWaiting = {} /\ dev' = "free"
    BY <1>5, <1>7 DEF ResetDishMode
  <2>2. CASE IsTargetMode("SetStandbyLPMode", mode)
    BY <1>7, <2>1, <2>2, NothingSubmitted DEF ResetDishMode, schedVars
  <2>3. CASE ~IsTargetMode("SetStandbyLPMode", mode)
    <3>1. progress'["SetStandbyLPMode"] = "IDLE"
      BY <1>7, <2>3, KindNames DEF ResetDishMode, ResetOf
    <3> QED BY <1>7, <2>1, <2>3, <3>1, SequenceOne, KindNames DEF ResetDishMode
  <2> QED BY <2>2, <2>3
<1>8. ASSUME NEW k \in Kind, ReadSequenceStatus(k)
      PROVE  OneInv'
  <2>1. PICK i \in OfKind(k) : Latest(k, i) /\ reading' = [of |-> k, status |-> seqStatus[i]]
    BY <1>8 DEF ReadSequenceStatus
  <2>2. i \in collection /\ kind[i] = k /\ \A j \in collection : kind[j] = k => j <= i
    BY <2>1 DEF OfKind, Latest
  <2>3. \A t \in ModeWaiting : kind[t[1]] = k => t[1] = i
    <3> SUFFICES ASSUME NEW t \in ModeWaiting, kind[t[1]] = k PROVE t[1] = i
      OBVIOUS
    <3>1. t[1] <= i /\ i <= t[1]
      BY <1>0, <2>2 DEF Guarded
    <3>2. t[1] \in 1..submitted /\ i \in 1..submitted
      BY <2>2, WaitingTyped DEF TypeOK
    <3> QED BY <3>1, <3>2
  <2>4. \A t \in ModeWaiting : kind[t[1]] = k => reading'.status \in Going
    BY <1>0, <2>1, <2>3 DEF Guarded
  <2>5. /\ dev' = "update" /\ reading'.of = k
        /\ UNCHANGED schedVars /\ UNCHANGED progress
    BY <1>8, <2>1 DEF ReadSequenceStatus
  <2> QED BY <1>0, <2>4, <2>5, NothingSubmitted DEF schedVars, Guarded
<1>9. CASE WriteStatusAttr
  <2>1. /\ dev = "update" /\ dev' = "free" /\ UNCHANGED schedVars
        /\ progress' = [progress EXCEPT ![reading.of] = reading.status]
    BY <1>9 DEF WriteStatusAttr
  <2>2. \A t \in ModeWaiting : progress'[kind[t[1]]] \in Going
    BY <1>0, <2>1 DEF Guarded, TypeOK
  <2> QED BY <2>1, <2>2, NothingSubmitted DEF schedVars
<1>10. ASSUME NEW old, ClearTasks(old)
       PROVE  OneInv'
  <2>1. /\ collection' = collection \ old
        /\ \A i \in old : \A t \in queue : t[1] > i
        /\ UNCHANGED <<submitted, kind, status, seqStatus, queue, progress, dev, reading>>
    BY <1>10 DEF ClearTasks, devVars
  <2>2. \A t \in queue : t[1] \notin old
    BY <2>1 DEF TypeOK
  <2> QED BY <1>0, <2>1, <2>2, NothingSubmitted DEF Guarded
<1> QED BY <1>2, <1>3, <1>4, <1>6, <1>7, <1>8, <1>9, <1>10 DEF DevStep

LEMMA HandlerOne ==
  ASSUME TypeOK, OrdersInv, OneInv, HandlerStep
  PROVE  OneInv'
<1>0. /\ UNCHANGED <<dev, reading>>
      /\ \A k \in ModeKinds : progress'[k] = progress[k]
  <2>1. UNCHANGED <<dev, reading>>
    BY DEF HandlerStep, handlerUnchanged, PowerCutIgnored, PowerCutAccepted, PowerCutFlush,
           PowerCutAdd, PowerCutDone, PowerRestoreIgnored, PowerRestoreAccepted,
           PowerRestoreRevoke, PowerRestoreAdd, PowerRestoreDone, EStopIgnored,
           EStopAccepted, EStopFlush, EStopAdd, EStopDone, HandlerDone
  <2>2. progress' = progress \/ \E h \in HandlerKind : \E v : progress' = [progress EXCEPT ![h] = v]
    BY DEF HandlerStep, HandlerKind, PowerCutIgnored, PowerCutAccepted, PowerCutFlush,
           PowerCutAdd, PowerCutDone, PowerRestoreIgnored, PowerRestoreAccepted,
           PowerRestoreRevoke, PowerRestoreAdd, PowerRestoreDone, EStopIgnored,
           EStopAccepted, EStopFlush, EStopAdd, EStopDone, HandlerDone
  <2>3. \A k \in ModeKinds : k \in Kind \ HandlerKind
    BY ModeNames
  <2> QED BY <2>1, <2>2, <2>3 DEF TypeOK
<1>1. \A h, next : TakeHandler(h, next) => OneInv'
  BY <1>0, AttributesLeft DEF TakeHandler
<1>2. \A here, k : HandlerDone(here, k) => OneInv'
  BY <1>0, AttributesLeft DEF HandlerDone, schedVars
<1>3. CASE \/ PowerCutIgnored \/ PowerRestoreIgnored \/ EStopIgnored
           \/ PowerCutAccepted \/ PowerRestoreAccepted \/ EStopAccepted
  BY <1>1, <1>3 DEF PowerCutIgnored, PowerRestoreIgnored, EStopIgnored, PowerCutAccepted,
                    PowerRestoreAccepted, EStopAccepted
<1>4. CASE PowerCutFlush \/ EStopFlush
  BY <1>0, <1>4, AttributesLeft DEF PowerCutFlush, EStopFlush, FlushQueue
<1>5. CASE PowerRestoreRevoke
  <2> DEFINE revoked == {t \in Number \X PowerDown : status[t[1]][t[2]] = "IDLE"}
  <2>1. /\ queue' \subseteq queue /\ SetStatus(revoked, "CANCELED")
        /\ UNCHANGED <<submitted, kind, collection, progress>>
    BY <1>5 DEF PowerRestoreRevoke, RevokeTasks
  <2>2. \A i \in Number, n \in Name : <<i, n>> \in revoked => n \in PowerDown
    OBVIOUS
  <2> HIDE DEF revoked
  <2> QED BY <1>0, <2>1, <2>2, StatusOne
<1>6. ASSUME NEW k \in HandlerKind, AddTaskSequence(k)
      PROVE  OneInv'
  <2>1. k \in Kind /\ k \notin ModeKinds
    BY KindNames, ModeNames
  <2>2. \A t \in ModeWaiting : kind[t[1]] \in ModeKinds /\ Guarded(t)
    BY DEF ModeWaiting, OneInv
  <2> QED BY <1>0, <1>6, <2>1, <2>2, SequenceOne DEF Guarded
<1>7. CASE PowerCutAdd \/ PowerRestoreAdd \/ EStopAdd
  BY <1>6, <1>7 DEF PowerCutAdd, PowerRestoreAdd, EStopAdd, HandlerKind
<1>8. CASE PowerCutDone \/ PowerRestoreDone \/ EStopDone
  BY <1>2, <1>8 DEF PowerCutDone, PowerRestoreDone, EStopDone
<1> QED BY <1>3, <1>4, <1>5, <1>7, <1>8 DEF HandlerStep

\* Every step of a calm behaviour keeps the invariant.
LEMMA NextOne ==
  ASSUME TypeOK, OrdersInv, OneInv, Calm, [Next]_vars
  PROVE  OneInv'
<1>1. ASSUME NEW t \in queue, PopTask(t[1], t[2])
      PROVE  OneInv'
  BY <1>1, AttributesLeft DEF PopTask, devVars
<1>2. \A i, n : ~TaskExpires(i, n) /\ ~TaskFails
  BY DEF TaskExpires, TaskFails, Calm
<1>3. CASE TaskReturns
  BY <1>3, StatusOne DEF TaskReturns, devVars
<1>4. CASE ThreadStep
  BY <1>1, <1>2, <1>3, <1>4, HandlerOne DEF ThreadStep
<1>5. ASSUME NEW n, NEW report \in {"RUNNING", "COMPLETED", "FAILED"},
             ReportProgress(n, report)
      PROVE  OneInv'
  <2>1. report \in {"RUNNING", "COMPLETED"}
    BY <1>5 DEF ReportProgress, Calm
  <2> QED BY <1>5, <2>1, StatusOne DEF ReportProgress, devVars
<1>6. ASSUME NEW h, PushHandler(h)
      PROVE  OneInv'
  BY <1>6, AttributesLeft DEF PushHandler, devVars
<1>7. CASE PowerStatusEvent \/ MainsChange \/ UNCHANGED vars
  BY <1>7, AttributesLeft DEF PowerStatusEvent, MainsChange, vars, schedVars, devVars
<1> QED BY <1>4, <1>5, <1>6, <1>7, DevOne DEF Next

\* What may happen is chosen at the start.
LEMMA ScenarioStays == ASSUME [Next]_vars PROVE UNCHANGED scenario
<1>1. CASE DevStep
  BY <1>1 DEF DevStep, ModeCommand, FlushCommandQueue, ResetFlush, ResetDishTasks,
              HandleTMCommLoss, ResetDishMode, ReadSequenceStatus, WriteStatusAttr,
              ClearTasks, devOnly
<1>2. CASE HandlerStep
  BY <1>2 DEF HandlerStep, handlerUnchanged, PowerCutIgnored, PowerCutAccepted,
              PowerCutFlush, PowerCutAdd, PowerCutDone, PowerRestoreIgnored,
              PowerRestoreAccepted, PowerRestoreRevoke, PowerRestoreAdd,
              PowerRestoreDone, EStopIgnored, EStopAccepted, EStopFlush, EStopAdd,
              EStopDone, HandlerDone
<1>3. CASE ThreadStep
  BY <1>2, <1>3 DEF ThreadStep, PopTask, TaskExpires, TaskReturns, TaskFails
<1> QED BY <1>1, <1>3 DEF Next, ReportProgress, PushHandler, PowerStatusEvent,
                          MainsChange, vars

\* Unless a task fails or expires, two sequences of one dish command never have
\* tasks waiting at a time, whatever resets, polls, flushes, handlers and reports
\* meant for the tasks of other commands come between.
THEOREM OneSequenceTheorem == Spec => []OneSequencePerCommand
<1> DEFINE Inv == Calm => OneInv
<1>1. Init => OrdersInv /\ Inv
  BY DEF Init, OrdersInv, PowerOrdersCurrent, HandlerPrepared, OrdersKnown, Orders,
         OneInv, Unsubmitted, ModeStatuses, ModeWaiting
<1>2. TypeOK /\ OrdersInv /\ Inv => OneSequencePerCommand
  <2> SUFFICES ASSUME TypeOK, OrdersInv, Calm, OneInv,
                      NEW t \in queue, NEW u \in queue,
                      kind[t[1]] = kind[u[1]], kind[t[1]] \in ModeKinds,
                      {status[t[1]][t[2]], status[u[1]][u[2]]} = {"IDLE"}
               PROVE  t[1] = u[1]
    BY DEF OneSequencePerCommand, Calm
  <2>1. t \in ModeWaiting /\ u \in ModeWaiting
    BY DEF ModeWaiting
  <2>2. t[1] <= u[1] /\ u[1] <= t[1]
    BY <2>1 DEF OneInv, Guarded
  <2>3. t[1] \in Int /\ u[1] \in Int
    BY <2>1, WaitingTyped
  <2> QED BY <2>2, <2>3
<1>3. TypeOK /\ OrdersInv /\ Inv /\ [Next]_vars => Inv'
  <2> SUFFICES ASSUME TypeOK, OrdersInv, Inv, [Next]_vars, Calm' PROVE OneInv'
    OBVIOUS
  <2>1. Calm
    BY ScenarioStays DEF Calm
  <2> QED BY <2>1, NextOne
<1> HIDE DEF Inv
<1> QED BY <1>1, <1>2, <1>3, NextOrders, DishTypeCorrect, PTL DEF Spec

-----------------------------------------------------------------------------
(* DishManager implements Scheduler *)

\* Besides the orders, the sequences that are still to come matter.
SchedInv == OrdersInv /\ Unsubmitted

LEMMA NumbersTyped ==
  ASSUME TypeOK
  PROVE  1..submitted \subseteq Number /\ collection \subseteq Number
  BY ConstantAssumption DEF TypeOK, Number

LEMMA TasksTyped ==
  ASSUME NEW t \in SchedulerTask
  PROVE  /\ t = <<t[1], t[2], t[3]>>
         /\ t[1] \in Number /\ t[2] \in Kind /\ t[3] \in Tasks[t[2]] /\ t[3] \in Name
         /\ <<t[1], t[2]>> \in SchedulerSeq /\ seqOf[t] = <<t[1], t[2]>>
  BY DEF SchedulerTask, SchedulerSeq, seqOf

LEMMA TaskKnown ==
  ASSUME NEW i \in Number, NEW k \in Kind, NEW n \in Tasks[k]
  PROVE  <<i, k, n>> \in SchedulerTask
  BY TaskNames DEF SchedulerTask

\* A task of a collected sequence, and the sequences there are.
LEMMA ListedMeans ==
  ASSUME NEW t \in SchedulerTask
  PROVE  Sched!Listed(t) <=> t[1] \in collection /\ kind[t[1]] = t[2]
  BY DEF Sched!Listed, KnownSeq, seqOf

LEMMA TasksOfSeq ==
  ASSUME NEW s \in SchedulerSeq
  PROVE  Sched!TasksOf(s) = {<<s[1], s[2], n>> : n \in Tasks[s[2]]}
<1>1. s = <<s[1], s[2]>> /\ s[1] \in Number /\ s[2] \in Kind
  BY DEF SchedulerSeq
<1>2. ASSUME NEW t \in Sched!TasksOf(s)
      PROVE  t \in {<<s[1], s[2], n>> : n \in Tasks[s[2]]}
  <2>1. t \in SchedulerTask /\ seqOf[t] = s
    BY DEF Sched!TasksOf
  <2>2. s = <<t[1], t[2]>>
    BY <2>1 DEF seqOf
  <2>3. s[1] = t[1] /\ s[2] = t[2]
    BY <2>2
  <2>4. t = <<t[1], t[2], t[3]>> /\ t[3] \in Tasks[t[2]]
    BY <2>1, TasksTyped
  <2> QED BY <2>3, <2>4
<1>3. \A n \in Tasks[s[2]] : <<s[1], s[2], n>> \in Sched!TasksOf(s)
  BY <1>1, TaskKnown DEF Sched!TasksOf, seqOf
<1> QED BY <1>2, <1>3

\* The orders of the thread are tasks of submitted sequences.
LEMMA OrderKnown ==
  ASSUME TypeOK, OrdersInv, NEW t \in Orders
  PROVE  /\ t = <<t[1], t[2]>> /\ t[1] \in 1..submitted /\ t[1] \in Number
         /\ kind[t[1]] \in Kind /\ t[2] \in Tasks[kind[t[1]]] /\ t[2] \in Name
         /\ Known(t) \in SchedulerTask
<1>1. t = <<t[1], t[2]>> /\ t[1] \in 1..submitted /\ t[2] \in Name
  BY OrdersTyped
<1>2. t[1] \in Number /\ t[2] \in Tasks[kind[t[1]]]
  BY <1>1, NumbersTyped DEF OrdersInv, OrdersKnown
<1>3. kind[t[1]] \in Kind
  BY <1>1, <1>2 DEF TypeOK
<1> QED BY <1>1, <1>2, <1>3, TaskKnown DEF Known

LEMMA StatusMapped ==
  ASSUME NEW t \in SchedulerTask
  PROVE  taskStatus[t] = IF kind[t[1]] = t[2] THEN status[t[1]][t[3]] ELSE "INIT"
  BY DEF taskStatus

\* Who sets the statuses of S sets those of the tasks of S that are listed.
Told(S) == {t \in SchedulerTask : /\ t[1] \in collection /\ kind[t[1]] = t[2]
                                 /\ <<t[1], t[3]>> \in S}

LEMMA SetStatusSched ==
  ASSUME TypeOK, NEW S, NEW st, SetStatus(S, st), UNCHANGED kind
  PROVE  Sched!SetStatus(Told(S), st)
<1> DEFINE new(i) == [n \in Name |-> IF <<i, n>> \in S THEN st ELSE status[i][n]]
           touched == {i \in collection : \E n \in Tasks[kind[i]] : <<i, n>> \in S}
           concerned == {seqOf[t] : t \in Told(S)}
<1>1. /\ status' = [i \in Number |-> IF i \in touched THEN new(i) ELSE status[i]]
      /\ seqStatus' = [i \in Number |-> IF i \in touched THEN Recomputed(i, new(i))
                                                      ELSE seqStatus[i]]
  BY DEF SetStatus
<1>2. \A t \in SchedulerTask : taskStatus'[t] = IF t \in Told(S) THEN st ELSE taskStatus[t]
  <2> SUFFICES ASSUME NEW t \in SchedulerTask
               PROVE  taskStatus'[t] = IF t \in Told(S) THEN st ELSE taskStatus[t]
    OBVIOUS
  <2>1. t[1] \in Number /\ t[3] \in Tasks[t[2]] /\ t[3] \in Name
    BY TasksTyped
  <2>2. taskStatus'[t] = IF kind[t[1]] = t[2] THEN status'[t[1]][t[3]] ELSE "INIT"
    BY DEF taskStatus
  <2>3. CASE t \in Told(S)
    BY <1>1, <2>1, <2>2, <2>3 DEF Told
  <2>4. CASE t \notin Told(S)
    <3>1. kind[t[1]] = t[2] => status'[t[1]][t[3]] = status[t[1]][t[3]]
      BY <1>1, <2>1, <2>4 DEF Told
    <3> QED BY <2>2, <2>4, <3>1, StatusMapped
  <2> QED BY <2>3, <2>4
<1>3. taskStatus' = Sched!Assigned(Told(S), st)
  BY <1>2 DEF taskStatus, Sched!Assigned
<1>4. ASSUME NEW s \in SchedulerSeq
      PROVE  s \in concerned <=> kind[s[1]] = s[2] /\ s[1] \in touched
  <2>1. s = <<s[1], s[2]>> /\ s[1] \in Number /\ s[2] \in Kind
    BY DEF SchedulerSeq
  <2>2. ASSUME s \in concerned PROVE kind[s[1]] = s[2] /\ s[1] \in touched
    <3>1. PICK t \in Told(S) : s = seqOf[t]
      BY <2>2
    <3>2. /\ t \in SchedulerTask /\ t[1] \in collection
          /\ kind[t[1]] = t[2] /\ <<t[1], t[3]>> \in S
      BY DEF Told
    <3>3. s = <<t[1], t[2]>>
      BY <3>1, <3>2 DEF seqOf
    <3>4. s[1] = t[1] /\ s[2] = t[2] /\ t[3] \in Tasks[kind[t[1]]]
      BY <3>2, <3>3, TasksTyped
    <3> QED BY <3>2, <3>4
  <2>3. ASSUME kind[s[1]] = s[2], s[1] \in touched PROVE s \in concerned
    <3>1. PICK n \in Tasks[kind[s[1]]] : <<s[1], n>> \in S
      BY <2>3
    <3>2. <<s[1], s[2], n>> \in SchedulerTask
      BY <2>1, <2>3, <3>1, TaskKnown
    <3>3. <<s[1], s[2], n>> \in Told(S)
      BY <2>3, <3>1, <3>2 DEF Told
    <3>4. seqOf[<<s[1], s[2], n>>] = s
      BY <2>1, <3>2 DEF seqOf
    <3> QED BY <3>3, <3>4
  <2> QED BY <2>2, <2>3
<1>5. ASSUME NEW s \in SchedulerSeq, kind[s[1]] = s[2], s[1] \in touched
      PROVE  seqStatus'[s[1]] = ComputeStatus({taskStatus'[t] : t \in Sched!TasksOf(s)})
  <2>1. s[1] \in Number /\ s[2] \in Kind
    BY DEF SchedulerSeq
  <2>2. \A n \in Tasks[s[2]] : taskStatus'[<<s[1], s[2], n>>] = new(s[1])[n]
    <3> SUFFICES ASSUME NEW n \in Tasks[s[2]]
                 PROVE  taskStatus'[<<s[1], s[2], n>>] = new(s[1])[n]
      OBVIOUS
    <3>1. taskStatus'[<<s[1], s[2], n>>] = status'[s[1]][n]
      BY <1>5, <2>1, TaskKnown DEF taskStatus
    <3>2. status'[s[1]] = new(s[1])
      BY <1>1, <1>5, <2>1
    <3> QED BY <3>1, <3>2
  <2>3. {taskStatus'[t] : t \in Sched!TasksOf(s)} = {new(s[1])[n] : n \in Tasks[s[2]]}
    <3> HIDE DEF new
    <3>1. {taskStatus'[t] : t \in Sched!TasksOf(s)}
             = {taskStatus'[<<s[1], s[2], n>>] : n \in Tasks[s[2]]}
      BY TasksOfSeq
    <3> QED BY <2>2, <3>1
  <2>4. seqStatus'[s[1]] = ComputeStatus({new(s[1])[n] : n \in Tasks[s[2]]})
    BY <1>1, <1>5, <2>1 DEF Recomputed
  <2> QED BY <2>3, <2>4
<1>6. ASSUME NEW s \in SchedulerSeq
      PROVE  sequenceStatus'[s] =
                IF s \in concerned
                THEN ComputeStatus({taskStatus'[t] : t \in Sched!TasksOf(s)})
                ELSE sequenceStatus[s]
  <2>1. s[1] \in Number
    BY DEF SchedulerSeq
  <2>2. /\ sequenceStatus'[s] = IF kind[s[1]] = s[2] THEN seqStatus'[s[1]] ELSE "INIT"
        /\ sequenceStatus[s]  = IF kind[s[1]] = s[2] THEN seqStatus[s[1]] ELSE "INIT"
    BY DEF sequenceStatus
  <2>3. s[1] \notin touched => seqStatus'[s[1]] = seqStatus[s[1]]
    BY <1>1, <2>1
  <2> HIDE DEF concerned, touched
  <2> QED BY <1>4, <1>5, <2>2, <2>3
<1>7. sequenceStatus' = [s \in SchedulerSeq |->
         IF s \in concerned
         THEN ComputeStatus({taskStatus'[t] : t \in Sched!TasksOf(s)})
         ELSE sequenceStatus[s]]
  BY <1>6 DEF sequenceStatus
<1> QED BY <1>3, <1>7 DEF Sched!SetStatus

LEMMA InitSched == Init => Sched!Init
<1> SUFFICES ASSUME Init PROVE Sched!Init
  OBVIOUS
<1>1. taskStatus = [t \in SchedulerTask |-> "INIT"]
  BY DEF Init, taskStatus, SchedulerTask
<1>2. sequenceStatus = [s \in SchedulerSeq |-> "INIT"]
  BY DEF Init, sequenceStatus, SchedulerSeq
<1>3. /\ {Known(t) : t \in queue} = {} /\ {KnownSeq(i) : i \in collection} = {}
      /\ {KnownSeq(i) : i \in 1..submitted} = {}
  BY DEF Init
<1>4. heldTask = <<>>
  BY DEF Init, heldTask
<1> QED BY <1>1, <1>2, <1>3, <1>4 DEF Sched!Init

\* Steps that leave the tasks and sequences alone: most of them.
LEMMA SchedStays ==
  ASSUME UNCHANGED <<submitted, kind, status, seqStatus, collection, queue, current>>
  PROVE  UNCHANGED Sched!schedulerVars
  BY DEF Sched!schedulerVars, taskStatus, sequenceStatus, heldTask, Known, KnownSeq

\* Flushes, and ClearTasks.
LEMMA DropSched ==
  ASSUME queue' \subseteq queue, collection' \subseteq collection,
         UNCHANGED <<submitted, kind, status, seqStatus, current>>
  PROVE  Sched!Next
<1>1. UNCHANGED <<heldTask, {KnownSeq(i) : i \in 1..submitted}, taskStatus, sequenceStatus>>
  BY DEF heldTask, Known, KnownSeq, taskStatus, sequenceStatus
<1>2. {Known(t) : t \in queue}' \subseteq {Known(t) : t \in queue}
  BY DEF Known
<1>3. {KnownSeq(i) : i \in collection}' \subseteq {KnownSeq(i) : i \in collection}
  BY DEF KnownSeq
<1>4. Sched!Drop
  BY <1>1, <1>2, <1>3 DEF Sched!Drop
<1> QED BY <1>4 DEF Sched!Next

\* A new sequence has the next number, under which there is none yet.
LEMMA SubmitSched ==
  ASSUME TypeOK, SchedInv, NEW k \in Kind, AddTaskSequence(k), UNCHANGED current
  PROVE  Sched!Next
<1>0. PICK i \in Number : i = submitted + 1
  BY ConstantAssumption DEF AddTaskSequence, TypeOK, Number
<1> DEFINE s == <<i, k>>
           new == {<<i, k, n>> : n \in Tasks[k]}
           queued == {Known(t) : t \in queue}
<1>1. /\ submitted' = i /\ i \in Number /\ i \notin 1..submitted
      /\ 1..submitted' = 1..submitted \cup {i}
      /\ kind' = [kind EXCEPT ![i] = k]
      /\ status' = [status EXCEPT ![i] = [n \in Name |-> IF n \in Tasks[k] THEN "IDLE"
                                                                          ELSE "INIT"]]
      /\ collection' = collection \cup {i}
      /\ queue' = queue \cup {<<i, n>> : n \in Tasks[k]}
      /\ UNCHANGED seqStatus
  BY <1>0 DEF AddTaskSequence, TypeOK
<1>2. kind[i] \notin Kind /\ seqStatus[i] = "INIT"
  BY <1>0 DEF TypeOK, SchedInv, Unsubmitted, Number
<1>3. \A j \in Number : kind'[j] = IF j = i THEN k ELSE kind[j]
  BY <1>1 DEF TypeOK
<1>4. s \in SchedulerSeq
  BY <1>1 DEF SchedulerSeq
<1>5. Sched!TasksOf(s) = new
  BY <1>4, TasksOfSeq
<1>6. \A j \in 1..submitted : KnownSeq(j)' = KnownSeq(j) /\ KnownSeq(j) # s
  BY <1>1, <1>3, NumbersTyped DEF KnownSeq
<1>7. KnownSeq(i)' = s
  BY <1>1, <1>3 DEF KnownSeq
<1>8. /\ {KnownSeq(j) : j \in 1..submitted}' = {KnownSeq(j) : j \in 1..submitted} \cup {s}
      /\ s \notin {KnownSeq(j) : j \in 1..submitted}
      /\ {KnownSeq(j) : j \in collection}' = {KnownSeq(j) : j \in collection} \cup {s}
  <2>1. \A C : C \subseteq 1..submitted =>
           {KnownSeq(j)' : j \in C \cup {i}} = {KnownSeq(j) : j \in C} \cup {s}
    BY <1>6, <1>7
  <2>2. {KnownSeq(j) : j \in 1..submitted}' = {KnownSeq(j)' : j \in 1..submitted \cup {i}}
    BY <1>1
  <2>3. {KnownSeq(j) : j \in collection}' = {KnownSeq(j)' : j \in collection \cup {i}}
    BY <1>1
  <2>4. collection \subseteq 1..submitted
    BY DEF TypeOK
  <2> QED BY <1>6, <2>1, <2>2, <2>3, <2>4
<1>9. \A t \in queue : Known(t)' = Known(t) /\ Known(t) \notin new
  <2> SUFFICES ASSUME NEW t \in queue
               PROVE  Known(t)' = Known(t) /\ Known(t) \notin new
    OBVIOUS
  <2>1. t[1] \in 1..submitted /\ t[1] \in Number
    BY OrderKnown DEF SchedInv, Orders
  <2> QED BY <1>1, <1>3, <2>1 DEF Known
<1>10. \A n \in Tasks[k] : Known(<<i, n>>)' = <<i, k, n>>
  BY <1>1, <1>3 DEF Known
<1>11. queued' = queued \cup new /\ queued \cap new = {}
  <2>1. queued' = {Known(t)' : t \in queue} \cup {Known(<<i, n>>)' : n \in Tasks[k]}
    BY <1>1
  <2>2. {Known(t)' : t \in queue} = queued
    BY <1>9
  <2>3. {Known(<<i, n>>)' : n \in Tasks[k]} = new
    BY <1>10
  <2>4. queued \cap new = {}
    BY <1>9
  <2> QED BY <2>1, <2>2, <2>3, <2>4
<1>12. queued' \ queued = new
  BY <1>11
<1>13. taskStatus' = Sched!Assigned(new, "IDLE")
  <2> SUFFICES ASSUME NEW t \in SchedulerTask
               PROVE  taskStatus'[t] = IF t \in new THEN "IDLE" ELSE taskStatus[t]
    BY DEF taskStatus, Sched!Assigned
  <2>1. /\ t = <<t[1], t[2], t[3]>> /\ t[1] \in Number /\ t[2] \in Kind
        /\ t[3] \in Tasks[t[2]] /\ t[3] \in Name
    BY TasksTyped
  <2>2. taskStatus'[t] = IF kind'[t[1]] = t[2] THEN status'[t[1]][t[3]] ELSE "INIT"
    BY DEF taskStatus
  <2>3. taskStatus[t] = IF kind[t[1]] = t[2] THEN status[t[1]][t[3]] ELSE "INIT"
    BY DEF taskStatus
  <2>4. CASE t[1] = i /\ t[2] = k
    <3>1. t \in new
      BY <2>1, <2>4
    <3>2. status'[i][t[3]] = "IDLE"
      BY <1>1, <2>1, <2>4 DEF TypeOK
    <3> QED BY <1>1, <1>3, <2>2, <2>4, <3>1, <3>2
  <2>5. CASE t[1] = i /\ t[2] # k
    <3>1. t \notin new
      BY <2>1, <2>5
    <3>2. kind'[t[1]] # t[2] /\ kind[t[1]] # t[2]
      BY <1>1, <1>2, <1>3, <2>1, <2>5
    <3> QED BY <2>2, <2>3, <3>1, <3>2
  <2>6. CASE t[1] # i
    <3>1. t \notin new
      BY <2>1, <2>6
    <3>2. kind'[t[1]] = kind[t[1]] /\ status'[t[1]] = status[t[1]]
      BY <1>1, <1>3, <2>1, <2>6 DEF TypeOK
    <3> QED BY <2>2, <2>3, <3>1, <3>2
  <2> QED BY <2>4, <2>5, <2>6
<1>14. UNCHANGED sequenceStatus
  <2> SUFFICES ASSUME NEW u \in SchedulerSeq PROVE sequenceStatus'[u] = sequenceStatus[u]
    BY DEF sequenceStatus
  <2>1. u[1] \in Number /\ u[2] \in Kind
    BY DEF SchedulerSeq
  <2>2. /\ sequenceStatus'[u] = IF kind'[u[1]] = u[2] THEN seqStatus'[u[1]] ELSE "INIT"
        /\ sequenceStatus[u] = IF kind[u[1]] = u[2] THEN seqStatus[u[1]] ELSE "INIT"
    BY DEF sequenceStatus
  <2> QED BY <1>1, <1>2, <1>3, <2>1, <2>2
<1>15. UNCHANGED heldTask
  <2>1. CASE current = NoTask
    BY <2>1 DEF heldTask
  <2>2. CASE current # NoTask
    <3>1. current[1] \in 1..submitted /\ current[1] \in Number
      BY <2>2, OrderKnown DEF SchedInv, Orders
    <3> QED BY <1>1, <1>3, <2>2, <3>1 DEF heldTask, Known
  <2> QED BY <2>1, <2>2
<1> HIDE DEF s, new, queued
<1>16. Sched!Submit(s)
  BY <1>5, <1>8, <1>11, <1>12, <1>13, <1>14, <1>15 DEF Sched!Submit, queued
<1> QED BY <1>4, <1>16 DEF Sched!Next

\* RevokeTask: what it cancels is listed and was IDLE.
LEMMA RevokeSched ==
  ASSUME TypeOK, NEW N, RevokeTasks(N), UNCHANGED current
  PROVE  Sched!Next
<1> DEFINE S == {t \in Number \X N : status[t[1]][t[2]] = "IDLE"}
           revoked == {t \in SchedulerTask : taskStatus'[t] # taskStatus[t]}
<1>1. /\ SetStatus(S, "CANCELED") /\ queue' = {t \in queue : t[2] \notin N}
      /\ UNCHANGED <<submitted, kind, collection>>
  BY DEF RevokeTasks
<1>2. Sched!SetStatus(Told(S), "CANCELED")
  BY <1>1, SetStatusSched
<1>3. \A t \in SchedulerTask : taskStatus'[t] = IF t \in Told(S) THEN "CANCELED"
                                                ELSE taskStatus[t]
  BY <1>2 DEF Sched!SetStatus, Sched!Assigned
<1>4. \A t \in Told(S) : t \in SchedulerTask /\ Sched!Listed(t) /\ t[3] \in N
                            /\ taskStatus[t] = "IDLE"
  BY ListedMeans, StatusMapped DEF Told
<1> HIDE DEF S
<1>5. revoked = Told(S)
  BY <1>3, <1>4
<1>6. {Known(t) : t \in queue}' \subseteq {Known(t) : t \in queue} \ Told(S)
  BY <1>1, <1>4 DEF Known
<1>7. UNCHANGED <<heldTask, {KnownSeq(i) : i \in 1..submitted},
                  {KnownSeq(i) : i \in collection}>>
  BY <1>1 DEF heldTask, Known, KnownSeq
<1> HIDE DEF revoked
<1>8. Sched!Revoke
  BY <1>2, <1>4, <1>5, <1>6, <1>7 DEF Sched!Revoke, revoked
<1> QED BY <1>8 DEF Sched!Next

\* A command needs the tasks of its own sequence.
LEMMA NeedsInside ==
  ASSUME NEW k \in Kind, NEW n \in Name
  PROVE  Needs(k, n) \subseteq Tasks[k]
  BY DEF Needs, Tasks, ShutdownOnPowerCut, ConfigureBand

LEMMA PopSched ==
  ASSUME TypeOK, SchedInv, NEW t \in queue, PopTask(t[1], t[2])
  PROVE  Sched!Next
<1> DEFINE u == Known(t)
           expired == {v \in {Known(w) : w \in queue} : taskStatus'[v] = "EXPIRED"}
<1>1. /\ pc = "idle" /\ t = <<t[1], t[2]>> /\ t \in Orders
      /\ t[1] \in Number /\ kind[t[1]] \in Kind /\ t[2] \in Tasks[kind[t[1]]]
      /\ t[2] \in Name /\ u \in SchedulerTask
  BY OrderKnown DEF SchedInv, Orders, PopTask
<1>2. /\ CanRun(t[1], t[2]) /\ queue' = queue \ {t} /\ current' = t
      /\ UNCHANGED <<submitted, kind, status, seqStatus, collection>>
  BY <1>1 DEF PopTask
<1>3. u[1] = t[1] /\ u[2] = kind[t[1]] /\ u[3] = t[2]
  BY DEF Known
<1>4. heldTask = <<>> /\ heldTask' = u
  <2>1. current = NoTask
    BY <1>1 DEF TypeOK
  <2>2. t \in Number \X Name
    BY <1>1
  <2>3. t # NoTask
    BY <2>2, ConstantAssumption DEF Number
  <2> QED BY <1>2, <2>1, <2>3 DEF heldTask, Known
<1>5. taskStatus[u] = "IDLE"
  BY <1>1, <1>2, <1>3, StatusMapped DEF CanRun
<1>6. UNCHANGED <<taskStatus, sequenceStatus, {KnownSeq(i) : i \in collection},
                  {KnownSeq(i) : i \in 1..submitted}>>
  BY <1>2 DEF taskStatus, sequenceStatus, KnownSeq
<1>7. {Known(w) : w \in queue}' = {Known(w) : w \in queue} \ {u}
  <2>1. \A w \in queue : w = <<w[1], w[2]>>
    BY DEF TypeOK
  <2>2. \A w \in queue : Known(w) = u => w = t
    BY <1>1, <2>1 DEF Known
  <2> QED BY <1>2, <2>2 DEF Known
<1>8. u \in {Known(w) : w \in queue}
  OBVIOUS
<1>9. deps[u] = {<<t[1], kind[t[1]], n>> : n \in Needs(kind[t[1]], t[2])}
  BY <1>1, <1>3 DEF deps
<1>10. Needs(kind[t[1]], t[2]) # {} => Sched!Listed(u)
  BY <1>1, <1>2, <1>3, ListedMeans DEF CanRun
<1>11. ASSUME NEW n \in Needs(kind[t[1]], t[2])
       PROVE  taskStatus[<<t[1], kind[t[1]], n>>] = "COMPLETED"
  <2>1. <<t[1], kind[t[1]], n>> \in SchedulerTask
    BY <1>1, NeedsInside, TaskKnown
  <2> QED BY <1>2, <2>1, StatusMapped DEF CanRun
<1>12. taskStatus' = Sched!Assigned(expired, "EXPIRED")
  <2>1. \A v \in SchedulerTask : taskStatus[v] = IF v \in expired THEN "EXPIRED"
                                                 ELSE taskStatus[v]
    BY <1>6
  <2> HIDE DEF expired
  <2>2. taskStatus = [v \in SchedulerTask |-> IF v \in expired THEN "EXPIRED"
                                              ELSE taskStatus[v]]
    BY <2>1 DEF taskStatus
  <2> QED BY <1>6, <2>2 DEF Sched!Assigned
<1>13. expired \cap {u} = {}
  BY <1>5, <1>6
<1> HIDE DEF u
<1>14. Sched!Expire({u})
  BY <1>6, <1>7, <1>12, <1>13 DEF Sched!Expire
<1>15. Sched!Take(u)
  BY <1>4, <1>5, <1>7, <1>8, <1>9, <1>10, <1>11, <1>14 DEF Sched!Take
<1> QED BY <1>8, <1>15 DEF Sched!Next

LEMMA ExpireSched ==
  ASSUME TypeOK, SchedInv, NEW t \in queue, TaskExpires(t[1], t[2])
  PROVE  Sched!Next
<1> DEFINE u == Known(t)
           queued == {Known(w) : w \in queue}
           expired == {v \in queued : taskStatus'[v] = "EXPIRED"}
<1>1. /\ pc = "idle" /\ t = <<t[1], t[2]>> /\ t[1] \in Number
      /\ kind[t[1]] \in Kind /\ t[2] \in Tasks[kind[t[1]]]
      /\ t[2] \in Name /\ u \in SchedulerTask
  BY OrderKnown DEF SchedInv, Orders, TaskExpires
<1>2. /\ status' = [status EXCEPT ![t[1]][t[2]] = "EXPIRED"]
      /\ queue' = queue \ {t}
      /\ UNCHANGED <<submitted, kind, seqStatus, collection, current>>
  BY <1>1 DEF TaskExpires
<1>3. u = <<t[1], kind[t[1]], t[2]>>
  BY DEF Known
<1>4. \A v \in SchedulerTask : taskStatus'[v] = IF v = u THEN "EXPIRED" ELSE taskStatus[v]
  <2> SUFFICES ASSUME NEW v \in SchedulerTask
               PROVE  taskStatus'[v] = IF v = u THEN "EXPIRED" ELSE taskStatus[v]
    OBVIOUS
  <2>1. v = <<v[1], v[2], v[3]>> /\ v[1] \in Number /\ v[3] \in Name
    BY TasksTyped
  <2>2. /\ taskStatus'[v] = IF kind[v[1]] = v[2] THEN status'[v[1]][v[3]] ELSE "INIT"
        /\ taskStatus[v]  = IF kind[v[1]] = v[2] THEN status[v[1]][v[3]] ELSE "INIT"
    BY <1>2 DEF taskStatus
  <2>3. CASE v = u
    BY <1>1, <1>2, <1>3, <2>2, <2>3 DEF TypeOK
  <2>4. CASE v # u
    <3>1. kind[v[1]] = v[2] => status'[v[1]][v[3]] = status[v[1]][v[3]]
      BY <1>1, <1>2, <1>3, <2>1, <2>4 DEF TypeOK
    <3> QED BY <2>2, <2>4, <3>1
  <2> QED BY <2>3, <2>4
<1>5. queued' \subseteq queued /\ queued \ queued' \subseteq {u}
  BY <1>2 DEF Known
<1>6. u \in expired
  BY <1>1, <1>4
<1>7. taskStatus' = Sched!Assigned(expired, "EXPIRED")
  <2>1. \A v \in SchedulerTask : taskStatus'[v] = IF v \in expired THEN "EXPIRED"
                                                  ELSE taskStatus[v]
    BY <1>4, <1>6
  <2> HIDE DEF expired
  <2>2. taskStatus' = [v \in SchedulerTask |-> IF v \in expired THEN "EXPIRED"
                                               ELSE taskStatus[v]]
    BY <2>1 DEF taskStatus
  <2> QED BY <2>2 DEF Sched!Assigned
<1>8. UNCHANGED <<sequenceStatus, heldTask, {KnownSeq(i) : i \in collection},
                  {KnownSeq(i) : i \in 1..submitted}>>
  BY <1>2 DEF sequenceStatus, heldTask, Known, KnownSeq
<1>9. heldTask = <<>>
  BY <1>1 DEF TypeOK, heldTask
<1>10. Sched!Expire({})
  BY <1>5, <1>6, <1>7, <1>8 DEF Sched!Expire
<1> QED BY <1>8, <1>9, <1>10 DEF Sched!Next, Sched!Scan

\* ExecuteTask records what became of the task, if its sequence is listed still.
LEMMA RecordSched ==
  ASSUME TypeOK, SchedInv, TaskReturns \/ TaskFails
  PROVE  Sched!Next
<1> DEFINE told == {t \in {heldTask} : Sched!Listed(t)}
<1>1. /\ pc = "run" /\ current' = NoTask
      /\ UNCHANGED <<submitted, kind, collection, queue>>
  BY DEF TaskReturns, TaskFails
<1>2. current \in (1..submitted) \X Name
  BY <1>1 DEF TypeOK
<1>3. current # NoTask
  BY <1>2, NumbersTyped, ConstantAssumption DEF Number
<1>4. /\ current = <<current[1], current[2]>>
      /\ current[2] \in Tasks[kind[current[1]]] /\ Known(current) \in SchedulerTask
  BY <1>3, OrderKnown DEF SchedInv, Orders
<1>5. heldTask = <<current[1], kind[current[1]], current[2]>> /\ heldTask \in SchedulerTask
  BY <1>3, <1>4 DEF heldTask, Known
<1>6. heldTask' = <<>> /\ heldTask # <<>>
  <2>1. heldTask' = <<>>
    BY <1>1 DEF heldTask
  <2>2. heldTask # <<>>
    BY <1>5
  <2> QED BY <2>1, <2>2
<1>7. Told({current}) = told
  <2>1. \A t \in SchedulerTask : <<t[1], t[3]>> = current /\ kind[t[1]] = t[2]
                                    => t = heldTask
    <3> SUFFICES ASSUME NEW t \in SchedulerTask, <<t[1], t[3]>> = current,
                        kind[t[1]] = t[2]
                 PROVE  t = heldTask
      OBVIOUS
    <3>1. t = <<t[1], t[2], t[3]>>
      BY TasksTyped
    <3>2. current[1] = t[1] /\ current[2] = t[3]
      OBVIOUS
    <3> QED BY <1>5, <3>1, <3>2
  <2>2. <<heldTask[1], heldTask[3]>> = current /\ kind[heldTask[1]] = heldTask[2]
    BY <1>4, <1>5
  <2> QED BY <1>5, <2>1, <2>2, ListedMeans DEF Told
<1>8. PICK outcome \in {"RUNNING", "COMPLETED", "FAILED"} :
         /\ SetStatus({current}, outcome)
         /\ outcome = "RUNNING" => current[2] \in Asynch
         /\ outcome = "COMPLETED" => current[2] \notin Asynch
  BY DEF TaskReturns, TaskFails
<1>9. Sched!SetStatus(told, outcome)
  BY <1>1, <1>7, <1>8, SetStatusSched
<1>10. UNCHANGED <<{Known(t) : t \in queue}, {KnownSeq(i) : i \in collection},
                   {KnownSeq(i) : i \in 1..submitted}>>
  BY <1>1 DEF Known, KnownSeq
<1>11. heldTask \in {t \in SchedulerTask : t[3] \in Asynch} <=> current[2] \in Asynch
  BY <1>5
<1> HIDE DEF told
<1>12. Sched!Record(outcome)
  BY <1>6, <1>8, <1>9, <1>10, <1>11 DEF Sched!Record, told
<1> QED BY <1>12 DEF Sched!Next

\* UpdateAsynchTaskStatus.
LEMMA ReportSched ==
  ASSUME TypeOK, NEW n \in Asynch, NEW report \in {"RUNNING", "COMPLETED", "FAILED"},
         ReportProgress(n, report)
  PROVE  [Sched!Next]_Sched!schedulerVars
<1> DEFINE S == Number \X {n}
           told == {t \in watching[n] : Sched!Listed(t)}
<1>1. /\ SetStatus(S, report)
      /\ UNCHANGED <<submitted, kind, collection, queue, current>>
  BY DEF ReportProgress
<1>2. told = Told(S)
  BY TasksTyped, ListedMeans DEF Told, watching
<1>3. UNCHANGED <<heldTask, {Known(t) : t \in queue}, {KnownSeq(i) : i \in collection},
                  {KnownSeq(i) : i \in 1..submitted}>>
  BY <1>1 DEF heldTask, Known, KnownSeq
<1> HIDE DEF S
<1>4. Sched!SetStatus(told, report)
  BY <1>1, <1>2, SetStatusSched
<1>5. CASE told # {}
  <2>1. Sched!Report(n, report)
    BY <1>3, <1>4, <1>5 DEF Sched!Report
  <2> QED BY <2>1 DEF Sched!Next
<1>6. CASE told = {}
  <2>1. taskStatus' = taskStatus
    BY <1>4, <1>6 DEF Sched!SetStatus, Sched!Assigned, taskStatus
  <2>2. sequenceStatus' = sequenceStatus
    BY <1>4, <1>6 DEF Sched!SetStatus, sequenceStatus
  <2> QED BY <1>3, <2>1, <2>2 DEF Sched!schedulerVars
<1> QED BY <1>5, <1>6

LEMMA DevSched ==
  ASSUME TypeOK, SchedInv, DevStep
  PROVE  [Sched!Next]_Sched!schedulerVars
<1>0. UNCHANGED <<schedVars, current>> => UNCHANGED Sched!schedulerVars
  BY SchedStays DEF schedVars
<1>1. FlushQueue /\ UNCHANGED current => Sched!Next
  BY DropSched DEF FlushQueue
<1>2. ASSUME NEW k \in Kind, NEW mode, ModeCommand(k, mode)
      PROVE  [Sched!Next]_Sched!schedulerVars
  BY <1>0, <1>2, SubmitSched DEF ModeCommand, SubmitMode, devOnly
<1>3. CASE FlushCommandQueue
  BY <1>1, <1>3 DEF FlushCommandQueue, devOnly
<1>4. ASSUME NEW next, ResetFlush(next)
      PROVE  Sched!Next
  BY <1>1, <1>4 DEF ResetFlush, devOnly
<1>5. CASE ResetDishTasks \/ HandleTMCommLoss
  BY <1>0, <1>5 DEF ResetDishTasks, HandleTMCommLoss, devOnly
<1>6. ASSUME NEW mode, ResetDishMode(mode)
      PROVE  [Sched!Next]_Sched!schedulerVars
  BY <1>0, <1>6, SubmitSched, KindNames DEF ResetDishMode, devOnly
<1>7. ASSUME NEW k, ReadSequenceStatus(k) \/ WriteStatusAttr
      PROVE  UNCHANGED Sched!schedulerVars
  BY <1>0, <1>7 DEF ReadSequenceStatus, WriteStatusAttr, devOnly
<1>8. ASSUME NEW old, ClearTasks(old)
      PROVE  Sched!Next
  BY <1>8, DropSched DEF ClearTasks
<1> QED BY <1>2, <1>3, <1>4, <1>5, <1>6, <1>7, <1>8 DEF DevStep

LEMMA HandlerSched ==
  ASSUME TypeOK, SchedInv, HandlerStep
  PROVE  [Sched!Next]_Sched!schedulerVars
<1>0. current' = current
  BY DEF HandlerStep, handlerUnchanged, PowerCutIgnored, PowerCutAccepted, PowerCutFlush,
         PowerCutAdd, PowerCutDone, PowerRestoreIgnored, PowerRestoreAccepted,
         PowerRestoreRevoke, PowerRestoreAdd, PowerRestoreDone, EStopIgnored,
         EStopAccepted, EStopFlush, EStopAdd, EStopDone, HandlerDone
<1>1. \A h, next : TakeHandler(h, next) => UNCHANGED Sched!schedulerVars
  BY <1>0, SchedStays DEF TakeHandler
<1>2. \A here, k : HandlerDone(here, k) => UNCHANGED Sched!schedulerVars
  BY <1>0, SchedStays DEF HandlerDone, schedVars
<1>3. CASE \/ PowerCutIgnored \/ PowerRestoreIgnored \/ EStopIgnored
           \/ PowerCutAccepted \/ PowerRestoreAccepted \/ EStopAccepted
  BY <1>1, <1>3 DEF PowerCutIgnored, PowerRestoreIgnored, EStopIgnored,
                    PowerCutAccepted, PowerRestoreAccepted, EStopAccepted
<1>4. CASE PowerCutFlush \/ EStopFlush
  BY <1>0, <1>4, DropSched DEF PowerCutFlush, EStopFlush, FlushQueue
<1>5. CASE PowerRestoreRevoke
  BY <1>0, <1>5, RevokeSched DEF PowerRestoreRevoke
<1>6. CASE PowerCutAdd \/ PowerRestoreAdd \/ EStopAdd
  BY <1>0, <1>6, SubmitSched, KindNames
  DEF PowerCutAdd, PowerRestoreAdd, EStopAdd, HandlerKind
<1>7. CASE PowerCutDone \/ PowerRestoreDone \/ EStopDone
  BY <1>2, <1>7 DEF PowerCutDone, PowerRestoreDone, EStopDone
<1> QED BY <1>3, <1>4, <1>5, <1>6, <1>7 DEF HandlerStep

\* Statuses of sequences change for listed ones only.
LEMMA NextUnsubmitted ==
  ASSUME TypeOK, Unsubmitted, [Next]_vars
  PROVE  Unsubmitted'
<1>1. submitted \in Nat
  BY DEF TypeOK
<1>2. UNCHANGED seqStatus /\ submitted' \in {submitted, submitted + 1} => Unsubmitted'
  BY <1>1 DEF Unsubmitted, Number
<1>3. \A S, st : SetStatus(S, st) /\ UNCHANGED submitted => Unsubmitted'
  <2> SUFFICES ASSUME NEW S, NEW st, SetStatus(S, st), UNCHANGED submitted,
                      NEW i \in Number, i > submitted
               PROVE  seqStatus'[i] = "INIT"
    BY DEF Unsubmitted
  <2>1. i \notin collection
    BY <1>1 DEF TypeOK, Number
  <2>2. seqStatus'[i] = seqStatus[i]
    BY <2>1 DEF SetStatus
  <2> QED BY <2>2 DEF Unsubmitted
<1>4. \A k : AddTaskSequence(k) => Unsubmitted'
  BY <1>2 DEF AddTaskSequence
<1>5. UNCHANGED schedVars \/ FlushQueue => Unsubmitted'
  BY <1>2 DEF schedVars, FlushQueue
<1>6. CASE DevStep
  <2>1. ASSUME NEW k, NEW mode, ModeCommand(k, mode) \/ ResetDishMode(mode)
        PROVE  Unsubmitted'
    BY <1>4, <1>5, <2>1 DEF ModeCommand, SubmitMode, ResetDishMode
  <2>2. ASSUME NEW k, NEW next, NEW old,
               \/ FlushCommandQueue \/ ResetFlush(next) \/ ResetDishTasks
               \/ HandleTMCommLoss \/ ReadSequenceStatus(k) \/ WriteStatusAttr
        PROVE  Unsubmitted'
    BY <1>5, <2>2 DEF FlushCommandQueue, ResetFlush, ResetDishTasks, HandleTMCommLoss,
                      ReadSequenceStatus, WriteStatusAttr
  <2>3. ASSUME NEW old, ClearTasks(old) PROVE Unsubmitted'
    BY <1>2, <2>3 DEF ClearTasks
  <2> QED BY <1>6, <2>1, <2>2, <2>3 DEF DevStep
<1>7. CASE HandlerStep
  <2>1. \A h, next : TakeHandler(h, next) => Unsubmitted'
    BY <1>2 DEF TakeHandler
  <2>2. \A here, k : HandlerDone(here, k) => Unsubmitted'
    BY <1>5 DEF HandlerDone
  <2>3. \A N : RevokeTasks(N) => Unsubmitted'
    BY <1>3 DEF RevokeTasks
  <2> QED BY <1>4, <1>5, <1>7, <2>1, <2>2, <2>3
          DEF HandlerStep, PowerCutIgnored, PowerCutAccepted, PowerCutFlush,
              PowerCutAdd, PowerCutDone, PowerRestoreIgnored, PowerRestoreAccepted,
              PowerRestoreRevoke, PowerRestoreAdd, PowerRestoreDone, EStopIgnored,
              EStopAccepted, EStopFlush, EStopAdd, EStopDone
<1>8. CASE ThreadStep
  BY <1>2, <1>3, <1>7, <1>8 DEF ThreadStep, PopTask, TaskExpires, TaskReturns, TaskFails
<1>9. ASSUME NEW n, NEW report, ReportProgress(n, report) PROVE Unsubmitted'
  BY <1>3, <1>9 DEF ReportProgress
<1>10. ASSUME NEW h, PushHandler(h) PROVE Unsubmitted'
  BY <1>2, <1>10 DEF PushHandler
<1>11. CASE PowerStatusEvent \/ MainsChange \/ UNCHANGED vars
  BY <1>5, <1>11 DEF PowerStatusEvent, MainsChange, vars
<1> QED BY <1>6, <1>8, <1>9, <1>10, <1>11 DEF Next

\* Commands, handlers, polls, resets and reports never do anything to sequences
\* and tasks, nor the thread between their steps, but what Scheduler allows, and
\* what is proved of TaskManager is the promise they rest on.
THEOREM DishImplementsScheduler == Spec => ImplementsScheduler
<1>1. Init => SchedInv
  BY DEF Init, SchedInv, OrdersInv, PowerOrdersCurrent, HandlerPrepared, OrdersKnown,
         Orders, Unsubmitted
<1>2. TypeOK /\ SchedInv /\ [Next]_vars => SchedInv'
  BY NextOrders, NextUnsubmitted DEF SchedInv
<1>3. TypeOK /\ SchedInv /\ [Next]_vars => [Sched!Next]_Sched!schedulerVars
  <2> SUFFICES ASSUME TypeOK, SchedInv, [Next]_vars
               PROVE  [Sched!Next]_Sched!schedulerVars
    OBVIOUS
  <2>1. CASE ThreadStep
    BY <2>1, PopSched, ExpireSched, RecordSched, HandlerSched DEF ThreadStep
  <2>2. ASSUME NEW h, PushHandler(h) PROVE UNCHANGED Sched!schedulerVars
    BY <2>2, SchedStays DEF PushHandler
  <2>3. CASE PowerStatusEvent \/ MainsChange \/ UNCHANGED vars
    BY <2>3, SchedStays DEF PowerStatusEvent, MainsChange, vars, schedVars
  <2> QED BY <2>1, <2>2, <2>3, DevSched, ReportSched DEF Next
<1> QED BY <1>1, <1>2, <1>3, InitSched, DishTypeCorrect, PTL
        DEF Spec, ImplementsScheduler, Sched!Spec
=============================================================================
