------------------------- MODULE TaskManager_proofs -------------------------
(***************************************************************************)
(* Theorems about TaskManager, for any tasks, sequences and attributes.    *)
(***************************************************************************)
EXTENDS TaskManager, FiniteSetTheorems, TLAPS

-----------------------------------------------------------------------------
(* Type correctness *)

LEMMA ComputeStatusType == ASSUME NEW S PROVE ComputeStatus(S) \in Status
  BY DEF ComputeStatus, Status

\* What the helpers that assign statuses return.
LEMMA AssignedType ==
  ASSUME TypeOK, NEW S, NEW st \in Status
  PROVE  Assigned(S, st) \in [Task -> Status]
  BY DEF Assigned, TypeOK

LEMMA RecomputedType ==
  ASSUME TypeOK, NEW S, NEW newStatus
  PROVE  Recomputed(S, newStatus) \in [TaskSeq -> Status]
  BY ComputeStatusType DEF Recomputed, TypeOK

LEMMA SetStatusType ==
  ASSUME TypeOK, NEW S, NEW st \in Status, SetStatus(S, st)
  PROVE  status' \in [Task -> Status] /\ seqStatus' \in [TaskSeq -> Status]
  BY AssignedType, RecomputedType DEF SetStatus

LEMMA InitType == Init => TypeOK
<1> SUFFICES ASSUME Init PROVE TypeOK
  OBVIOUS
<1>1. now \in 1..MaxTime
  BY ConstantAssumption DEF Init
<1>2. /\ status \in [Task -> Status] /\ seqStatus \in [TaskSeq -> Status]
      /\ job \in [Task -> JobState]
      /\ attrValue \in [Attr -> Reports \cup {NoReport}]
  BY DEF Init, Status, JobState, NoReport
<1>3. wakeUp \in BOOLEAN /\ ended \in BOOLEAN /\ stop \in BOOLEAN
  BY DEF Init
<1> QED BY <1>1, <1>2, <1>3 DEF Init, TypeOK, PC

LEMMA ThreadType == TypeOK /\ ThreadStep => TypeOK'
<1> SUFFICES ASSUME TypeOK, ThreadStep PROVE TypeOK'
  OBVIOUS
<1> USE DEF signalVars, remoteVars
<1>1. CASE CheckStop
  BY <1>1 DEF CheckStop, TypeOK, PC
<1>2. CASE PopSleep
  BY <1>2 DEF PopSleep, TypeOK, PC
<1>3. CASE PopNothing
  BY <1>3 DEF PopNothing, TypeOK, PC
<1>4. ASSUME NEW scanned, ScanQueue(scanned) PROVE status' \in [Task -> Status]
  BY <1>4, AssignedType DEF ScanQueue, Status
<1>5. CASE PopBlocked
  BY <1>4, <1>5 DEF PopBlocked, ScanQueue, Kept, TypeOK, PC
<1>6. CASE WaitEnds
  BY <1>6 DEF WaitEnds, TypeOK, PC
<1>7. ASSUME NEW t \in Task, PopRunnable(t) PROVE TypeOK'
  BY <1>4, <1>7 DEF PopRunnable, ScanQueue, Kept, TypeOK, PC
<1>8. ASSUME NEW t \in Task, PopAndWait(t) PROVE TypeOK'
  BY <1>4, <1>8 DEF PopAndWait, ScanQueue, Kept, TypeOK, PC
<1>9. CASE RunReturns
  BY <1>9 DEF RunReturns, TypeOK, PC, JobState, Outcome
<1>10. CASE RunThrows
  BY <1>10 DEF RunThrows, TypeOK, PC, JobState, Outcome
<1>11. CASE RecordOutcome
  <2>1. status' \in [Task -> Status] /\ seqStatus' \in [TaskSeq -> Status]
    BY <1>11, SetStatusType DEF RecordOutcome, Status
  <2> QED BY <1>11, <2>1 DEF RecordOutcome, TypeOK, PC
<1> QED BY <1>1, <1>2, <1>3, <1>5, <1>6, <1>7, <1>8, <1>9, <1>10, <1>11
        DEF ThreadStep

LEMMA ClientType == TypeOK /\ ClientStep => TypeOK'
<1> SUFFICES ASSUME TypeOK, ClientStep PROVE TypeOK'
  OBVIOUS
<1> USE DEF clientUnchanged, signalVars, remoteVars, threadVars, Notified
<1>1. ASSUME NEW s \in TaskSeq, AddTaskSequence(s) PROVE TypeOK'
  <2>1. Assigned(Accepted(s), "IDLE") \in [Task -> Status]
    BY AssignedType DEF Status
  <2>2. Accepted(s) \subseteq Task
    BY DEF Accepted, TasksOf
  <2> QED BY <1>1, <2>1, <2>2 DEF AddTaskSequence, Signal, TypeOK, PC
<1>2. ASSUME NEW name, RemoveTaskSequence(name) PROVE TypeOK'
  BY <1>2 DEF RemoveTaskSequence, TypeOK, PC
<1>3. ASSUME NEW S, Revoke(S) PROVE TypeOK'
  <2>1. status' \in [Task -> Status] /\ seqStatus' \in [TaskSeq -> Status]
    BY <1>3, SetStatusType DEF Revoke, Status
  <2> QED BY <1>3, <2>1 DEF Revoke, TypeOK, PC
<1>4. CASE FlushQueue
  BY <1>4 DEF FlushQueue, TypeOK, PC
<1>5. ASSUME NEW S, EraseSequences(S) PROVE TypeOK'
  BY <1>5 DEF EraseSequences, TypeOK, PC
<1>6. CASE WakeUp
  BY <1>6 DEF WakeUp, Signal, TypeOK, PC
<1>7. CASE End
  BY <1>7 DEF End, TypeOK, PC
<1>8. CASE Stop
  BY <1>8 DEF Stop, TypeOK, PC
<1> QED BY <1>1, <1>2, <1>3, <1>4, <1>5, <1>6, <1>7, <1>8
        DEF ClientStep, RevokeTaskSequence, RevokeTask, ClearAllSequenceTasks,
            ClearSequenceTasks, ClearCompletedSequenceTasks

LEMMA RemoteType == TypeOK /\ RemoteStep => TypeOK'
<1> SUFFICES ASSUME TypeOK, RemoteStep PROVE TypeOK'
  OBVIOUS
<1> USE DEF signalVars, remoteVars, threadVars
<1>1. ASSUME NEW t \in Task, NEW report \in Reports, ReportProgress(t, report)
      PROVE  TypeOK'
  <2>1. job' \in [Task -> JobState]
    BY <1>1 DEF ReportProgress, TypeOK, JobState
  <2>2. attrValue' \in [Attr -> Reports \cup {NoReport}]
    BY <1>1 DEF ReportProgress, TypeOK
  <2> QED BY <1>1, <2>1, <2>2 DEF ReportProgress, TypeOK, PC
<1>2. ASSUME NEW a \in Attr, UpdateAsynchTaskStatus(a) PROVE TypeOK'
  <2>1. attrValue[a] \in Status
    BY <1>2, ConstantAssumption
    DEF UpdateAsynchTaskStatus, TypeOK, Outcome, Status
  <2>2. status' \in [Task -> Status] /\ seqStatus' \in [TaskSeq -> Status]
    BY <1>2, <2>1, SetStatusType DEF UpdateAsynchTaskStatus
  <2> QED BY <1>2, <2>2 DEF UpdateAsynchTaskStatus, TypeOK, PC
<1> QED BY <1>1, <1>2 DEF RemoteStep

LEMMA StepType == TypeOK /\ [Next]_vars => TypeOK'
<1> SUFFICES ASSUME TypeOK, [Next]_vars PROVE TypeOK'
  OBVIOUS
<1> USE DEF signalVars, remoteVars, threadVars
<1>1. CASE SpuriousWake
  BY <1>1 DEF SpuriousWake, TypeOK, PC
<1>2. CASE Tick
  BY <1>2, ConstantAssumption DEF Tick, TypeOK, PC
<1>3. CASE UNCHANGED vars
  BY <1>3 DEF vars, TypeOK, PC
<1> QED BY <1>1, <1>2, <1>3, ThreadType, ClientType, RemoteType DEF Next

\* Statuses, signals, the clock and the position of the thread stay in their
\* ranges, and the thread never waits for, runs or reports on a task it does
\* not hold.
THEOREM TypeCorrect == Spec => []TypeOK
  BY InitType, StepType, PTL DEF Spec

-----------------------------------------------------------------------------
(* No command is started twice *)

LEMMA InitDispatch == Init => DispatchInv
  BY DEF Init, DispatchInv, NoRelaunch

\* Steps that take nothing into the queue and leave the thread where it is.
LEMMA QueueShrinks ==
  ASSUME DispatchInv, queue' \subseteq queue, UNCHANGED <<offered, remoteVars>>,
         pc' = "run" => pc = "run" /\ current' = current
  PROVE  DispatchInv'
  BY DEF DispatchInv, NoRelaunch, remoteVars

LEMMA ThreadDispatch == TypeOK /\ DispatchInv /\ ThreadStep => DispatchInv'
<1> SUFFICES ASSUME TypeOK, DispatchInv, ThreadStep PROVE DispatchInv'
  OBVIOUS
<1>1. CASE CheckStop \/ PopSleep \/ PopNothing \/ WaitEnds \/ RecordOutcome
  BY <1>1, QueueShrinks
  DEF CheckStop, PopSleep, PopNothing, WaitEnds, RecordOutcome
<1>2. CASE PopBlocked
  BY <1>2, QueueShrinks DEF PopBlocked, ScanQueue, Kept
<1>3. ASSUME NEW t \in Task, PopAndWait(t) PROVE DispatchInv'
  BY <1>3, QueueShrinks DEF PopAndWait, ScanQueue, Kept
<1>4. ASSUME NEW t \in Task, PopRunnable(t) PROVE DispatchInv'
  <2>1. t \in queue
    BY <1>4 DEF PopRunnable, IsFirst, Runnable, Kept
  <2> QED BY <1>4, <2>1
      DEF PopRunnable, ScanQueue, Kept, DispatchInv, NoRelaunch, remoteVars
<1>5. CASE RunReturns \/ RunThrows
  <2>1. current \in Task /\ pc = "run"
    BY <1>5 DEF RunReturns, RunThrows, TypeOK
  <2>2. \A t \in Task : job'[t] # "NONE" => t \in launched'
    BY <1>5, <2>1 DEF RunReturns, RunThrows, DispatchInv, TypeOK
  <2> QED BY <1>5, <2>1, <2>2 DEF RunReturns, RunThrows, DispatchInv, NoRelaunch
<1> QED BY <1>1, <1>2, <1>3, <1>4, <1>5 DEF ThreadStep

LEMMA ClientDispatch == TypeOK /\ DispatchInv /\ ClientStep => DispatchInv'
<1> SUFFICES ASSUME TypeOK, DispatchInv, ClientStep PROVE DispatchInv'
  OBVIOUS
<1>1. ASSUME NEW s \in TaskSeq, AddTaskSequence(s) PROVE DispatchInv'
  <2>1. \A t \in Accepted(s) : t \in Task /\ Info[t].seq = s
    BY DEF Accepted, TasksOf
  <2>2. pc' = "run" => pc = "run"
    BY <1>1 DEF AddTaskSequence, Signal, Notified
  <2>3. queue' \subseteq queue \cup Accepted(s)
    BY <1>1 DEF AddTaskSequence
  <2>4. /\ s \notin offered /\ offered' = offered \cup {s}
        /\ current' = current /\ launched' = launched /\ job' = job
    BY <1>1 DEF AddTaskSequence, clientUnchanged, remoteVars
  <2> QED BY <2>1, <2>2, <2>3, <2>4 DEF DispatchInv, NoRelaunch, TypeOK
<1>2. ASSUME NEW name, RemoveTaskSequence(name) PROVE DispatchInv'
  BY <1>2, QueueShrinks DEF RemoveTaskSequence, clientUnchanged
<1>3. ASSUME NEW S, Revoke(S) PROVE DispatchInv'
  BY <1>3, QueueShrinks DEF Revoke, clientUnchanged
<1>4. ASSUME NEW S, EraseSequences(S) PROVE DispatchInv'
  BY <1>4, QueueShrinks DEF EraseSequences, clientUnchanged
<1>5. CASE FlushQueue \/ WakeUp \/ End \/ Stop
  BY <1>5, QueueShrinks
  DEF FlushQueue, WakeUp, End, Stop, Signal, Notified, clientUnchanged, threadVars
<1> QED BY <1>1, <1>2, <1>3, <1>4, <1>5
        DEF ClientStep, RevokeTaskSequence, RevokeTask, ClearAllSequenceTasks,
            ClearSequenceTasks, ClearCompletedSequenceTasks

LEMMA StepDispatch == TypeOK /\ DispatchInv /\ [Next]_vars => DispatchInv'
<1> SUFFICES ASSUME TypeOK, DispatchInv, [Next]_vars PROVE DispatchInv'
  OBVIOUS
<1>1. ASSUME NEW t \in Task, NEW report \in Reports, ReportProgress(t, report)
      PROVE  DispatchInv'
  <2>1. \A u \in Task : job'[u] # "NONE" => u \in launched'
    BY <1>1 DEF ReportProgress, DispatchInv, TypeOK
  <2> QED BY <1>1, <2>1 DEF ReportProgress, DispatchInv, NoRelaunch, threadVars
<1>2. ASSUME NEW a, UpdateAsynchTaskStatus(a) PROVE DispatchInv'
  BY <1>2, QueueShrinks DEF UpdateAsynchTaskStatus, threadVars
<1>3. CASE SpuriousWake \/ Tick \/ UNCHANGED vars
  BY <1>3, QueueShrinks DEF SpuriousWake, Tick, vars, threadVars, remoteVars
<1> QED BY <1>1, <1>2, <1>3, ThreadDispatch, ClientDispatch DEF Next, RemoteStep

THEOREM DispatchInvariant == Spec => []DispatchInv
  BY InitType, StepType, InitDispatch, StepDispatch, PTL DEF Spec

\* Whatever is revoked, flushed, refused half way or marked by an event, no
\* command is started twice: the queue and the hands of the thread hold only
\* tasks that have not been started.
THEOREM NeverRelaunched == Spec => []NoRelaunch
<1>1. DispatchInv => NoRelaunch
  BY DEF DispatchInv
<1> QED BY <1>1, DispatchInvariant, PTL

-----------------------------------------------------------------------------
(* COMPLETED means that the work is done *)

LEMMA InitCompletion == Init => CompletionSound
  BY InfoAssumption DEF Init, CompletionSound, NoReport, IsAsynch

\* Work that is complete stays complete, its own and what passes for it.
LEMMA AccomplishedStays ==
  ASSUME \A u \in Task : job[u] = "COMPLETED" => job'[u] = "COMPLETED",
         NEW t \in Task, Accomplished(t)
  PROVE  Accomplished(t)'
  BY DEF Accomplished, vouchersOf

LEMMA OwnWork == ASSUME NEW t \in Task PROVE
                 /\ job[t] = "COMPLETED" => Accomplished(t)
                 /\ job'[t] = "COMPLETED" => Accomplished(t)'
  BY DEF Accomplished, vouchersOf

\* Steps that complete no task and leave attributes, work and thread alone.
LEMMA NothingCompletes ==
  ASSUME CompletionSound, UNCHANGED <<job, attrValue>>,
         \A t \in Task : status'[t] = "COMPLETED" => status[t] = "COMPLETED",
         pc' \in {"run", "ran"} => pc' = pc /\ current' = current
  PROVE  CompletionSound'
<1>1. \A t \in Task : Accomplished(t) => Accomplished(t)'
  BY AccomplishedStays
<1>2. \A t \in Task : DepTasks(t) \subseteq Task
  BY DEF DepTasks, TasksOf
<1> QED BY <1>1, <1>2 DEF CompletionSound, DepTasks, TasksOf

LEMMA AssignedCompletes ==
  ASSUME NEW S, NEW st, st # "COMPLETED", NEW t \in Task,
         Assigned(S, st)[t] = "COMPLETED"
  PROVE  status[t] = "COMPLETED"
  BY DEF Assigned

LEMMA ThreadCompletion ==
  TypeOK /\ DispatchInv /\ CompletionSound /\ ThreadStep => CompletionSound'
<1> SUFFICES ASSUME TypeOK, DispatchInv, CompletionSound, ThreadStep
             PROVE  CompletionSound'
  OBVIOUS
<1> USE DEF remoteVars
<1>1. CASE CheckStop \/ PopSleep \/ PopNothing \/ WaitEnds
  BY <1>1, NothingCompletes DEF CheckStop, PopSleep, PopNothing, WaitEnds
<1>2. ASSUME NEW scanned, ScanQueue(scanned)
      PROVE  \A t \in Task : status'[t] = "COMPLETED" => status[t] = "COMPLETED"
  BY <1>2, AssignedCompletes DEF ScanQueue
<1>3. CASE PopBlocked
  BY <1>2, <1>3, NothingCompletes DEF PopBlocked, ScanQueue
<1>4. ASSUME NEW t \in Task, PopAndWait(t) PROVE CompletionSound'
  BY <1>2, <1>4, NothingCompletes DEF PopAndWait, ScanQueue
<1>5. ASSUME NEW t \in Task, PopRunnable(t) PROVE CompletionSound'
  \* The task was found runnable, so its dependencies are COMPLETED.
  <2>1. \A d \in DepTasks(t) : status[d] = "COMPLETED"
    BY <1>5 DEF PopRunnable, IsFirst, Runnable, CanPop,
                IsSequenceTaskRunnable, DepTasks
  <2>2. \A d \in DepTasks(t) : d \in Task /\ Accomplished(d)
    BY <2>1 DEF CompletionSound, DepTasks, TasksOf
  <2>3. \A u \in Task : status'[u] = "COMPLETED" => status[u] = "COMPLETED"
    BY <1>2, <1>5 DEF PopRunnable
  <2>4. /\ pc' = "run" /\ current' = t
        /\ UNCHANGED <<job, attrValue>>
    BY <1>5 DEF PopRunnable, ScanQueue
  <2>5. \A u \in Task : Accomplished(u) => Accomplished(u)'
    BY <2>4, AccomplishedStays
  <2> QED BY <2>2, <2>3, <2>4, <2>5 DEF CompletionSound
<1>6. CASE RunReturns \/ RunThrows
  <2>1. current \in Task /\ job[current] = "NONE"
    BY <1>6 DEF RunReturns, RunThrows, TypeOK, DispatchInv, NoRelaunch
  <2>2. \A t \in Task : job[t] = "COMPLETED" => job'[t] = "COMPLETED"
    BY <1>6, <2>1 DEF RunReturns, RunThrows, TypeOK
  <2>3. pc' = "ran" /\ ~IsAsynch(current) => job'[current] = "COMPLETED"
    BY <1>6, <2>1 DEF RunReturns, RunThrows, TypeOK
  <2>4. pc' \in {"ran", "raised"} /\ UNCHANGED <<status, attrValue, current>>
    BY <1>6 DEF RunReturns, RunThrows
  <2>5. \A t \in Task : Accomplished(t) => Accomplished(t)'
    BY <2>2, AccomplishedStays
  <2> QED BY <2>3, <2>4, <2>5 DEF CompletionSound
<1>7. CASE RecordOutcome
  <2>1. \A t \in Task : status'[t] = "COMPLETED" => Accomplished(t)
    <3> SUFFICES ASSUME NEW t \in Task, status'[t] = "COMPLETED",
                        status[t] # "COMPLETED"
                 PROVE  Accomplished(t)
      BY DEF CompletionSound
    <3>1. t = current /\ pc = "ran" /\ ~IsAsynch(current)
      BY <1>7 DEF RecordOutcome, SetStatus, Assigned
    <3> QED BY <3>1, OwnWork DEF CompletionSound
  <2>2. pc' = "loop" /\ UNCHANGED <<job, attrValue>>
    BY <1>7 DEF RecordOutcome
  <2>3. \A t \in Task : Accomplished(t) => Accomplished(t)'
    BY <2>2, AccomplishedStays
  <2> QED BY <2>1, <2>2, <2>3 DEF CompletionSound
<1> QED BY <1>1, <1>3, <1>4, <1>5, <1>6, <1>7 DEF ThreadStep

LEMMA ClientCompletion == CompletionSound /\ ClientStep => CompletionSound'
<1> SUFFICES ASSUME CompletionSound, ClientStep PROVE CompletionSound'
  OBVIOUS
<1> USE DEF clientUnchanged, threadVars, remoteVars, Signal, Notified
<1>1. ASSUME NEW s \in TaskSeq, AddTaskSequence(s) PROVE CompletionSound'
  <2>1. \A t \in Task : status'[t] = "COMPLETED" => status[t] = "COMPLETED"
    BY <1>1, AssignedCompletes DEF AddTaskSequence
  <2> QED BY <1>1, <2>1, NothingCompletes DEF AddTaskSequence
<1>2. ASSUME NEW S, Revoke(S) PROVE CompletionSound'
  <2>1. \A t \in Task : status'[t] = "COMPLETED" => status[t] = "COMPLETED"
    BY <1>2, AssignedCompletes DEF Revoke, SetStatus
  <2> QED BY <1>2, <2>1, NothingCompletes DEF Revoke
<1>3. ASSUME NEW name, RemoveTaskSequence(name) PROVE CompletionSound'
  BY <1>3, NothingCompletes DEF RemoveTaskSequence
<1>4. ASSUME NEW S, EraseSequences(S) PROVE CompletionSound'
  BY <1>4, NothingCompletes DEF EraseSequences
<1>5. CASE FlushQueue \/ WakeUp \/ End \/ Stop
  BY <1>5, NothingCompletes DEF FlushQueue, WakeUp, End, Stop
<1> QED BY <1>1, <1>2, <1>3, <1>4, <1>5
        DEF ClientStep, RevokeTaskSequence, RevokeTask, ClearAllSequenceTasks,
            ClearSequenceTasks, ClearCompletedSequenceTasks

\* What an event says is what some task that watches the attribute has done.
LEMMA RemoteCompletion ==
  TypeOK /\ CompletionSound /\ RemoteStep => CompletionSound'
<1> SUFFICES ASSUME TypeOK, CompletionSound, RemoteStep PROVE CompletionSound'
  OBVIOUS
<1> USE DEF threadVars, remoteVars
<1>1. ASSUME NEW t \in Task, NEW report \in Reports, ReportProgress(t, report)
      PROVE  CompletionSound'
  <2>1. \A u \in Task : job[u] = "COMPLETED" => job'[u] = "COMPLETED"
    BY <1>1 DEF ReportProgress, TypeOK
  <2>2. \A u \in Task : Accomplished(u) => Accomplished(u)'
    BY <2>1, AccomplishedStays
  <2>3. Info[t].attr \in Attr
    BY <1>1, InfoAssumption DEF ReportProgress, IsAsynch
  <2>4. report = "COMPLETED" => job'[t] = "COMPLETED"
    BY <1>1 DEF ReportProgress, TypeOK, Outcome
  <2>5. ASSUME NEW u \in Task, IsAsynch(u), attrValue'[Info[u].attr] = "COMPLETED"
        PROVE  Accomplished(u)'
    <3>1. CASE Info[u].attr = Info[t].attr
      \* Whoever watches the attribute takes the end of t for its own.
      <4>1. job'[t] = "COMPLETED"
        BY <1>1, <2>3, <2>4, <2>5, <3>1 DEF ReportProgress, TypeOK
      <4> QED BY <2>5, <3>1, <4>1 DEF Accomplished, vouchersOf
    <3>2. CASE Info[u].attr # Info[t].attr
      <4>1. attrValue[Info[u].attr] = "COMPLETED"
        BY <1>1, <2>3, <2>5, <3>2, InfoAssumption DEF ReportProgress, TypeOK, IsAsynch
      <4> QED BY <2>2, <2>5, <4>1 DEF CompletionSound
    <3> QED BY <3>1, <3>2
  <2>6. UNCHANGED <<status, pc, current>>
    BY <1>1 DEF ReportProgress
  <2> QED BY <2>1, <2>2, <2>5, <2>6, InfoAssumption
      DEF CompletionSound, DepTasks, TasksOf, TypeOK, IsAsynch
<1>2. ASSUME NEW a \in Attr, UpdateAsynchTaskStatus(a) PROVE CompletionSound'
  <2>1. \A t \in Watchers(a) : IsAsynch(t) /\ Info[t].attr = a
    BY ConstantAssumption DEF Watchers, watching, IsAsynch
  <2>2. \A t \in Task : status'[t] = "COMPLETED" => Accomplished(t)
    BY <1>2, <2>1
    DEF UpdateAsynchTaskStatus, SetStatus, Assigned, CompletionSound
  <2>3. UNCHANGED <<job, attrValue, pc, current>>
    BY <1>2 DEF UpdateAsynchTaskStatus
  <2>4. \A t \in Task : Accomplished(t) => Accomplished(t)'
    BY <2>3, AccomplishedStays
  <2> QED BY <2>2, <2>3, <2>4 DEF CompletionSound, DepTasks, TasksOf
<1> QED BY <1>1, <1>2 DEF RemoteStep

\* Statuses and attributes only say COMPLETED of finished work, and a dependent
\* command is only started after such work for each command it depends on: the
\* command's own or, where DishManager lets several watch one attribute, that
\* of one with the same attribute.
THEOREM CompletionInvariant == Spec => []CompletionSound
<1>1. TypeOK /\ DispatchInv /\ CompletionSound /\ [Next]_vars => CompletionSound'
  <2> SUFFICES ASSUME TypeOK, DispatchInv, CompletionSound, [Next]_vars
               PROVE  CompletionSound'
    OBVIOUS
  <2>1. CASE SpuriousWake \/ Tick \/ UNCHANGED vars
    BY <2>1, NothingCompletes DEF SpuriousWake, Tick, vars, threadVars, remoteVars
  <2> QED BY <2>1, ThreadCompletion, ClientCompletion, RemoteCompletion DEF Next
<1> QED BY <1>1, InitCompletion, TypeCorrect, DispatchInvariant, PTL DEF Spec

-----------------------------------------------------------------------------
(* The limit of the queue *)

LEMMA QueueGrows == ASSUME NEW s \in TaskSeq, TypeOK, AddTaskSequence(s)
                    PROVE  queue' = queue \/ Cardinality(queue') <= MaxTasksInQueue
<1> SUFFICES ASSUME QuotaAllows(s), queue' = queue \cup Accepted(s)
             PROVE  Cardinality(queue') <= MaxTasksInQueue
  BY DEF AddTaskSequence
<1>1. IsFiniteSet(queue) /\ IsFiniteSet(TasksOf(s))
  BY FS_Subset, ConstantAssumption DEF TypeOK, TasksOf
<1>2. IsFiniteSet(queue \cup TasksOf(s))
  BY <1>1, FS_Union
<1>3. Cardinality(queue \cup TasksOf(s))
         = Cardinality(queue) + Cardinality(TasksOf(s))
              - Cardinality(queue \cap TasksOf(s))
  BY <1>1, FS_Union
<1>4. queue' \subseteq queue \cup TasksOf(s)
  BY DEF Accepted
<1>5. Cardinality(queue') <= Cardinality(queue \cup TasksOf(s))
  BY <1>2, <1>4, FS_Subset
<1>6. IsFiniteSet(queue') /\ IsFiniteSet(queue \cap TasksOf(s))
  BY <1>1, <1>2, <1>4, FS_Subset
<1>7. /\ Cardinality(queue) \in Nat /\ Cardinality(TasksOf(s)) \in Nat
      /\ Cardinality(queue \cap TasksOf(s)) \in Nat
      /\ Cardinality(queue') \in Nat /\ MaxTasksInQueue \in Nat
  BY <1>1, <1>6, FS_CardinalityType, ConstantAssumption
<1> QED BY <1>3, <1>5, <1>7 DEF QuotaAllows

\* What only some actions do: enlarge the queue, put the thread to sleep, enter
\* the timed wait, write a progress attribute.
LEMMA StepFrame ==
  ASSUME [Next]_vars
  PROVE  /\ queue' \subseteq queue \/ \E s \in TaskSeq : AddTaskSequence(s)
         /\ launched \subseteq launched'
         /\ pc' = "asleep" => pc = "asleep" \/ PopSleep
         /\ pc' = "timed" =>
               \/ /\ pc = "timed" /\ UNCHANGED current
                  /\ wakeUp \/ ended => wakeUp' \/ ended'
               \/ \E t \in Task : PopAndWait(t)
         /\ \/ UNCHANGED attrValue
            \/ \E t \in Task, report \in Reports : ReportProgress(t, report)
<1> USE DEF threadVars, signalVars, remoteVars, clientUnchanged
<1>1. CASE ThreadStep
  BY <1>1 DEF ThreadStep, CheckStop, PopSleep, PopNothing, PopBlocked, WaitEnds,
              PopRunnable, PopAndWait, ScanQueue, RunReturns, RunThrows,
              RecordOutcome, Kept
<1>2. CASE ClientStep
  <2> USE DEF Signal, Notified
  <2>1. CASE \E s \in TaskSeq : AddTaskSequence(s)
    BY <2>1 DEF AddTaskSequence
  <2>2. CASE \E name, S : \/ RemoveTaskSequence(name) \/ Revoke(S)
                          \/ FlushQueue \/ EraseSequences(S)
    BY <2>2 DEF RemoveTaskSequence, Revoke, FlushQueue, EraseSequences
  <2>3. CASE WakeUp \/ End \/ Stop
    BY <2>3 DEF WakeUp, End, Stop
  <2> QED BY <1>2, <2>1, <2>2, <2>3
      DEF ClientStep, RevokeTaskSequence, RevokeTask, ClearAllSequenceTasks,
          ClearSequenceTasks, ClearCompletedSequenceTasks
<1>3. CASE RemoteStep \/ SpuriousWake \/ Tick \/ UNCHANGED vars
  BY <1>3 DEF RemoteStep, ReportProgress, UpdateAsynchTaskStatus, SpuriousWake,
              Tick, vars
<1> QED BY <1>1, <1>2, <1>3 DEF Next

\* The quota check of AddTaskSequence is made before tasks are queued one by
\* one, and refusals, revocations and flushes never take the queue beyond it.
THEOREM QueueIsBounded == Spec => []QueueBounded
<1>1. Init => QueueBounded
  BY FS_EmptySet, ConstantAssumption DEF Init, QueueBounded
<1>2. TypeOK /\ QueueBounded /\ [Next]_vars => QueueBounded'
  <2> SUFFICES ASSUME TypeOK, QueueBounded, [Next]_vars PROVE QueueBounded'
    OBVIOUS
  <2>1. CASE \E s \in TaskSeq : AddTaskSequence(s)
    BY <2>1, QueueGrows DEF QueueBounded
  <2>2. CASE \A s \in TaskSeq : ~AddTaskSequence(s)
    <3>1. queue' \subseteq queue
      BY <2>2, StepFrame
    <3>2. IsFiniteSet(queue) /\ IsFiniteSet(queue')
      BY <3>1, FS_Subset, ConstantAssumption DEF TypeOK
    <3>3. Cardinality(queue') <= Cardinality(queue)
      BY <3>1, <3>2, FS_Subset
    <3>4. /\ Cardinality(queue) \in Nat /\ Cardinality(queue') \in Nat
          /\ MaxTasksInQueue \in Nat
      BY <3>2, FS_CardinalityType, ConstantAssumption
    <3> QED BY <3>3, <3>4 DEF QueueBounded
  <2> QED BY <2>1, <2>2
<1> QED BY <1>1, <1>2, TypeCorrect, PTL DEF Spec

-----------------------------------------------------------------------------
(* No signal is lost *)

\* A thread without signal sleeps on an empty queue, and AddTaskSequence
\* signals whatever it queues but for what it refuses half way.
THEOREM NothingForgotten == Spec => []NoSequenceForgotten
<1>1. Init => NoSequenceForgotten
  BY DEF Init, NoSequenceForgotten
<1>2. NoSequenceForgotten /\ [Next]_vars => NoSequenceForgotten'
  <2> SUFFICES ASSUME NoSequenceForgotten, [Next]_vars, pc' = "asleep"
               PROVE  queue' \subseteq Orphaned'
    BY DEF NoSequenceForgotten
  <2>1. ASSUME NEW s \in TaskSeq, AddTaskSequence(s)
        PROVE  queue' \subseteq Orphaned'
    <3>1. pc = "asleep" /\ (Refused(s) # {} \/ queue' = queue)
      BY <2>1 DEF AddTaskSequence, Signal, Notified
    <3>2. queue' \subseteq queue \cup Accepted(s)
      BY <2>1 DEF AddTaskSequence
    <3>3. \A t \in Accepted(s) : Info[t].seq = s
      BY DEF Accepted, TasksOf
    <3> QED BY <3>1, <3>2, <3>3 DEF NoSequenceForgotten, Orphaned, Refused
  <2>2. CASE PopSleep
    BY <2>2 DEF PopSleep
  <2>3. CASE pc = "asleep" /\ queue' \subseteq queue
    BY <2>3 DEF NoSequenceForgotten, Orphaned, Refused
  <2> QED BY <2>1, <2>2, <2>3, StepFrame
<1> QED BY <1>1, <1>2, PTL DEF Spec

\* The task whose activation PopTask awaits is the first of the queue to become
\* due, dependent tasks left aside ...
AwaitedFirst ==
    pc = "timed" /\ ~wakeUp /\ ~ended =>
        \A t \in queue \ Orphaned :
            status[t] = "IDLE" /\ Info[t].deps = {} /\ ~Reported(t) =>
                Info[current].act <= Info[t].act

\* ... and stays so because only events rewrite the status of a queued task,
\* and what was reported once stays reported.
LEMMA ReportedStays ==
  ASSUME TypeOK, [Next]_vars, NEW t \in Task, Reported(t)
  PROVE  Reported(t)'
<1>1. Info[t].attr \in Attr
  BY InfoAssumption DEF Reported, IsAsynch
<1>2. ASSUME NEW u \in Task, NEW report \in Reports, ReportProgress(u, report)
      PROVE  attrValue'[Info[t].attr] # NoReport
  <2>1. report # NoReport
    BY ConstantAssumption DEF NoReport, Outcome
  <2> QED BY <1>1, <1>2, <2>1 DEF ReportProgress, TypeOK, Reported
<1> QED BY <1>1, <1>2, StepFrame DEF Reported, IsAsynch

LEMMA BecomesIdle ==
  ASSUME TypeOK, [Next]_vars, pc # "pop",
         NEW t \in Task, status'[t] = "IDLE", ~Reported(t)
  PROVE  status[t] = "IDLE" \/ \E s \in TaskSeq : AddTaskSequence(s)
<1> USE DEF threadVars, signalVars, remoteVars, clientUnchanged
<1>1. CASE ThreadStep
  BY <1>1 DEF ThreadStep, CheckStop, PopSleep, PopNothing, PopBlocked, WaitEnds,
              PopRunnable, PopAndWait, ScanQueue, RunReturns, RunThrows,
              RecordOutcome, SetStatus, Assigned
<1>2. CASE ClientStep
  BY <1>2 DEF ClientStep, RemoveTaskSequence, RevokeTaskSequence, RevokeTask,
              Revoke, FlushQueue, ClearAllSequenceTasks, ClearSequenceTasks,
              ClearCompletedSequenceTasks, EraseSequences, WakeUp, End, Stop,
              SetStatus, Assigned
<1>3. ASSUME NEW a \in Attr, UpdateAsynchTaskStatus(a) PROVE status[t] = "IDLE"
  <2>1. t \notin Watchers(a)
    BY <1>3, ConstantAssumption
    DEF UpdateAsynchTaskStatus, Watchers, watching, IsAsynch, Reported
  <2> QED BY <1>3, <2>1 DEF UpdateAsynchTaskStatus, SetStatus, Assigned
<1>4. ASSUME NEW u \in Task, NEW report \in Reports, ReportProgress(u, report)
      PROVE  status[t] = "IDLE"
  BY <1>4 DEF ReportProgress
<1>5. CASE SpuriousWake \/ Tick \/ UNCHANGED vars
  BY <1>5 DEF SpuriousWake, Tick, vars
<1> QED BY <1>1, <1>2, <1>3, <1>4, <1>5 DEF Next, RemoteStep

LEMMA AwaitedStep ==
  ASSUME TypeOK, AwaitedFirst, [Next]_vars
  PROVE  AwaitedFirst'
<1> SUFFICES ASSUME pc' = "timed", ~wakeUp', ~ended',
                    NEW t \in queue', t \notin Orphaned',
                    status'[t] = "IDLE", Info[t].deps = {}, ~Reported(t)'
             PROVE  Info[current'].act <= Info[t].act
  BY DEF AwaitedFirst
<1>1. t \in Task /\ {Info[t].act, Info[t].startMax} \subseteq Nat
  <2>1. TypeOK'
    BY StepType
  <2> QED BY <2>1, InfoAssumption DEF TypeOK
<1>0. ~Reported(t)
  BY <1>1, ReportedStays
<1>2. ASSUME NEW u \in Task, PopAndWait(u)
      PROVE  Info[current'].act <= Info[t].act
  \* t was looked at and is neither runnable nor EXPIRED: it waits, behind u.
  <2>1. /\ t \in Kept /\ current' = u /\ Runnable = {} /\ IsFirst(u, Waiting)
        /\ status[t] = "IDLE" /\ ~IsExpirationReached(t)
    BY <1>1, <1>2 DEF PopAndWait, ScanQueue, Assigned
  <2>2. t \in Waiting /\ Info[t].act # NoTime
    BY <2>1 DEF Runnable, Waiting, CanPop, CanWaitFor, IsRunnable,
                IsSequenceTaskRunnable, IsWaitingForActivation,
                IsActivationReached
  <2>3. ~Before(Info[t], Info[u]) /\ IsWaitingForActivation(u)
    BY <2>1, <2>2 DEF IsFirst, Waiting, CanWaitFor
  <2>4. /\ {Info[u].act, Info[u].startMax} \subseteq Nat
        /\ Info[u].deps # {} => Info[u].act <= Info[u].startMax
        /\ Info[u].act # NoTime
    BY <2>3, InfoAssumption DEF IsWaitingForActivation, IsActivationReached
  <2>5. ~StartsAtOnce(Info[t]) /\ ~StartsAtOnce(Info[u]) /\ ~DependsOn(Info[t], Info[u])
    BY <2>2, <2>4 DEF StartsAtOnce, DependsOn
  <2>6. ~(StartTime(Info[t]) < StartTime(Info[u]))
    BY <2>3, <2>5 DEF Before
  <2> QED BY <1>1, <2>1, <2>4, <2>6 DEF StartTime
<1>3. CASE pc = "timed" /\ UNCHANGED current /\ ~wakeUp /\ ~ended
  <2>1. ASSUME NEW s \in TaskSeq, AddTaskSequence(s)
        PROVE  Info[current'].act <= Info[t].act
    \* Without a signal the sequence was refused: t is no new task of it.
    <3>2. Info[t].seq # s => t \in queue /\ status[t] = "IDLE"
      BY <1>1, <2>1 DEF AddTaskSequence, Assigned, Accepted, TasksOf
    <3>1. Info[t].seq = s => t \in queue /\ status[t] = "IDLE"
      BY <1>1, <2>1 DEF AddTaskSequence, Signal, Orphaned, Refused
    <3> QED BY <1>0, <1>3, <3>1, <3>2 DEF AwaitedFirst, Orphaned, Refused
  <2>2. CASE queue' \subseteq queue
    <3>1. status[t] = "IDLE" \/ \E s \in TaskSeq : AddTaskSequence(s)
      BY <1>0, <1>1, <1>3, BecomesIdle
    <3> QED BY <1>0, <1>3, <2>1, <2>2, <3>1 DEF AwaitedFirst, Orphaned, Refused
  <2> QED BY <2>1, <2>2, StepFrame
<1> QED BY <1>2, <1>3, StepFrame

\* While PopTask waits for an activation, only dependent tasks may miss theirs,
\* and tasks whose status was written by a report meant for another task.
THEOREM NoneOverslept == Spec => []NoIndependentTaskOverslept
<1>1. Init => AwaitedFirst
  BY DEF Init, AwaitedFirst
<1>2. TypeOK /\ AwaitedFirst => NoIndependentTaskOverslept
  <2> SUFFICES ASSUME TypeOK, AwaitedFirst, pc = "timed", ~wakeUp, ~ended,
                      NEW t \in queue \ Orphaned, IsRunnable(t), Info[t].deps = {},
                      ~Reported(t)
               PROVE  IsActivationReached(current)
    BY DEF NoIndependentTaskOverslept
  <2>1. /\ Info[current].act <= Info[t].act
        /\ Info[t].act = NoTime \/ Info[t].act <= now
    BY DEF AwaitedFirst, IsRunnable, IsActivationReached
  <2>2. now \in Nat /\ Info[current].act \in Nat /\ Info[t].act \in Nat
    BY InfoAssumption DEF TypeOK
  <2> QED BY <2>1, <2>2 DEF IsActivationReached, NoTime
<1>3. TypeOK /\ AwaitedFirst /\ [Next]_vars => AwaitedFirst'
  BY AwaitedStep
<1> QED BY <1>1, <1>2, <1>3, TypeCorrect, PTL DEF Spec

-----------------------------------------------------------------------------
(* Sequences follow their tasks *)

\* Why SequenceStatusCurrent is kept: a task in the queue is IDLE, or has the
\* status of a report that was meant for another, until PopTask marks it
\* EXPIRED; and the status of a sequence not submitted yet is INIT.
QueuedStatus(t) == \/ status[t] \in {"IDLE", "EXPIRED"}
                   \/ Reported(t) /\ status[t] \in Reports

SequenceInv ==
    /\ \A t \in queue : QueuedStatus(t)
    /\ pc \in {"ran", "raised"} => current \in launched
    /\ collection \subseteq offered
    /\ \A s \in TaskSeq \ offered : seqStatus[s] = "INIT"
    /\ SequenceStatusCurrent

\* What was reported stays reported: true of every step.
ReportsStay == \A t \in Task : Reported(t) => Reported(t)'

LEMMA EveryStepKeepsReports == TypeOK /\ [Next]_vars => ReportsStay
  BY ReportedStays DEF ReportsStay

\* What SequenceStatusCurrent says of a sequence, its tasks being counted as
\* "counted" says.
Explains(counted, s) ==
    /\ \A t \in TasksOf(s) : counted[t] \in CountedAs(t)
    /\ LET seen == {counted[t] : t \in TasksOf(s)}
       IN  \/ seqStatus[s] = ComputeStatus(seen)
           \/ seqStatus[s] = "INIT" /\ seen = {"IDLE"}

Follows(s) == \E counted \in [TasksOf(s) -> Status] : Explains(counted, s)

LEMMA CurrentIsFollows ==
  /\ SequenceStatusCurrent <=> \A s \in collection : Follows(s)
  /\ SequenceStatusCurrent' <=> \A s \in collection' : Follows(s)'
  BY DEF SequenceStatusCurrent, Follows, Explains

\* A sequence none of whose statuses changes follows its tasks as before.
LEMMA FollowsStays ==
  ASSUME NEW s, Follows(s), seqStatus'[s] = seqStatus[s], ReportsStay,
         \A t \in TasksOf(s) : status'[t] = status[t]
  PROVE  Follows(s)'
<1>1. PICK counted \in [TasksOf(s) -> Status] : Explains(counted, s)
  BY DEF Follows
<1>2. \A t \in TasksOf(s) : counted[t] \in CountedAs(t)'
  BY <1>1 DEF Explains, CountedAs, ReportsStay, TasksOf
<1>3. Explains(counted, s)'
  BY <1>1, <1>2 DEF Explains
<1> QED BY <1>3 DEF Follows

\* Steps that set no status and submit nothing.
LEMMA SequencesStay ==
  ASSUME SequenceInv, UNCHANGED <<status, seqStatus, offered, current>>,
         queue' \subseteq queue, collection' \subseteq collection,
         launched \subseteq launched', ReportsStay, queue \subseteq Task,
         pc' \in {"ran", "raised"} => pc' = pc
  PROVE  SequenceInv'
<1>1. SequenceStatusCurrent'
  BY CurrentIsFollows, FollowsStays DEF SequenceInv
<1>2. \A t \in queue' : QueuedStatus(t)'
  BY DEF SequenceInv, QueuedStatus, ReportsStay
<1> QED BY <1>1, <1>2 DEF SequenceInv

\* An operation that sets statuses recomputes each sequence it touches.
LEMMA SetStatusCurrent ==
  ASSUME TypeOK, TypeOK', SequenceStatusCurrent, collection' \subseteq collection,
         NEW S \in SUBSET Task, NEW st, SetStatus(S, st), ReportsStay
  PROVE  SequenceStatusCurrent'
<1> SUFFICES ASSUME NEW s \in collection PROVE Follows(s)'
  BY CurrentIsFollows
<1>1. s \in TaskSeq /\ Follows(s)
  BY CurrentIsFollows DEF TypeOK
<1>2. CASE s \in {Info[t].seq : t \in S}
  <2>3. [t \in TasksOf(s) |-> status'[t]] \in [TasksOf(s) -> Status]
    BY DEF TypeOK, TasksOf
  <2>0. PICK counted \in [TasksOf(s) -> Status] :
           counted = [t \in TasksOf(s) |-> status'[t]]
    BY <2>3
  <2>1. seqStatus'[s] = ComputeStatus({status'[t] : t \in TasksOf(s)})
    BY <1>1, <1>2 DEF SetStatus, Recomputed
  <2>2. {counted[t] : t \in TasksOf(s)} = {status'[t] : t \in TasksOf(s)}
    BY <2>0
  <2>4. \A t \in TasksOf(s) : counted[t] \in CountedAs(t)'
    BY <2>0 DEF CountedAs
  <2>5. Explains(counted, s)'
    BY <2>1, <2>2, <2>4 DEF Explains
  <2> QED BY <2>5 DEF Follows
<1>3. CASE s \notin {Info[t].seq : t \in S}
  BY <1>1, <1>3, FollowsStays DEF SetStatus, Recomputed, Assigned, TasksOf
<1> QED BY <1>2, <1>3

\* PopTask marks tasks EXPIRED and leaves the status of their sequences, which
\* still counts them as what they were.
LEMMA ScanCurrent ==
  ASSUME TypeOK, SequenceInv, ReportsStay,
         NEW scanned \in SUBSET Kept, ScanQueue(scanned)
  PROVE  SequenceStatusCurrent'
<1> SUFFICES ASSUME NEW s \in collection PROVE Follows(s)'
  BY CurrentIsFollows DEF ScanQueue
<1>1. PICK counted \in [TasksOf(s) -> Status] : Explains(counted, s)
  BY CurrentIsFollows DEF SequenceInv, Follows
<1>2. ASSUME NEW t \in TasksOf(s) PROVE counted[t] \in CountedAs(t)'
  <2>1. t \in Task /\ counted[t] \in CountedAs(t)
    BY <1>1 DEF Explains, TasksOf
  <2>2. status'[t] = status[t] \/ (t \in scanned /\ status'[t] = "EXPIRED")
    BY <2>1 DEF ScanQueue, Assigned
  <2>3. CASE status'[t] = status[t]
    BY <2>1, <2>3 DEF CountedAs, ReportsStay
  <2>4. CASE t \in scanned /\ status'[t] = "EXPIRED"
    <3>1. counted[t] = status[t] /\ status[t] # "EXPIRED" /\ QueuedStatus(t)
      BY <2>1, <2>4 DEF Kept, SequenceInv, CountedAs
    <3> QED BY <2>1, <2>4, <3>1 DEF QueuedStatus, CountedAs, ReportsStay
  <2> QED BY <2>2, <2>3, <2>4
<1>3. Explains(counted, s)'
  BY <1>1, <1>2 DEF Explains, ScanQueue
<1> QED BY <1>3 DEF Follows

LEMMA ThreadSequence ==
  TypeOK /\ DispatchInv /\ SequenceInv /\ ThreadStep => SequenceInv'
<1> SUFFICES ASSUME TypeOK, DispatchInv, SequenceInv, ThreadStep
             PROVE  SequenceInv'
  OBVIOUS
<1>0. TypeOK' /\ ReportsStay /\ queue \subseteq Task
  BY StepType, EveryStepKeepsReports DEF Next, TypeOK
<1> USE DEF remoteVars
<1>1. CASE CheckStop \/ PopSleep \/ PopNothing \/ WaitEnds
  <2>1. CASE CheckStop \/ PopSleep \/ PopNothing
    BY <1>0, <2>1, SequencesStay DEF CheckStop, PopSleep, PopNothing
  <2>2. CASE WaitEnds
    <3>1. /\ UNCHANGED <<status, seqStatus, queue, collection, offered, launched>>
          /\ pc' = "loop"
      BY <2>2 DEF WaitEnds
    <3>2. SequenceStatusCurrent'
      BY <1>0, <3>1, CurrentIsFollows, FollowsStays DEF SequenceInv
    <3>3. \A t \in queue' : QueuedStatus(t)'
      BY <1>0, <3>1 DEF SequenceInv, QueuedStatus, ReportsStay
    <3> QED BY <3>1, <3>2, <3>3 DEF SequenceInv
  <2> QED BY <1>1, <2>1, <2>2
<1>2. ASSUME NEW scanned \in SUBSET Kept, ScanQueue(scanned),
             queue' \subseteq Kept, pc' \notin {"ran", "raised"}
      PROVE  SequenceInv'
  <2>1. SequenceStatusCurrent'
    BY <1>0, <1>2, ScanCurrent
  <2>2. \A t \in queue' : QueuedStatus(t)'
    BY <1>0, <1>2 DEF ScanQueue, Assigned, Kept, SequenceInv, QueuedStatus, ReportsStay
  <2> QED BY <1>2, <2>1, <2>2 DEF ScanQueue, SequenceInv
<1>3. CASE PopBlocked
  BY <1>2, <1>3 DEF PopBlocked
<1>4. ASSUME NEW t \in Task, PopAndWait(t) PROVE SequenceInv'
  BY <1>2, <1>4 DEF PopAndWait
<1>5. ASSUME NEW t \in Task, PopRunnable(t) PROVE SequenceInv'
  <2>1. {u \in Kept : Before(Info[u], Info[t])} \in SUBSET Kept
    OBVIOUS
  <2> QED BY <1>2, <1>5, <2>1 DEF PopRunnable
<1>6. CASE RunReturns \/ RunThrows
  <2>1. /\ UNCHANGED <<status, seqStatus, queue, collection, offered, current>>
        /\ launched' = launched \cup {current}
    BY <1>6 DEF RunReturns, RunThrows
  <2>2. SequenceStatusCurrent'
    BY <1>0, <2>1, CurrentIsFollows, FollowsStays DEF SequenceInv
  <2>3. \A t \in queue' : QueuedStatus(t)'
    BY <1>0, <2>1 DEF SequenceInv, QueuedStatus, ReportsStay
  <2> QED BY <2>1, <2>2, <2>3 DEF SequenceInv
<1>7. CASE RecordOutcome
  <2> DEFINE S == {current} \cap {t \in Task : Collected(t)}
  <2>1. PICK st : SetStatus(S, st)
    BY <1>7 DEF RecordOutcome
  <2>2. SequenceStatusCurrent'
    BY <1>0, <1>7, <2>1, SetStatusCurrent DEF RecordOutcome, SequenceInv
  <2>3. S \cap queue = {}
    BY <1>7 DEF RecordOutcome, SequenceInv, DispatchInv, NoRelaunch
  <2>4. \A t \in queue : status'[t] = status[t]
    BY <2>1, <2>3 DEF SetStatus, Assigned, TypeOK
  <2>6. \A t \in queue : QueuedStatus(t)'
    BY <1>0, <2>4 DEF SequenceInv, QueuedStatus, ReportsStay
  <2>5. \A s \in TaskSeq \ offered : seqStatus'[s] = seqStatus[s]
    BY <2>1 DEF SetStatus, Recomputed, Collected, SequenceInv
  <2> QED BY <1>7, <2>2, <2>5, <2>6 DEF RecordOutcome, SequenceInv
<1> QED BY <1>1, <1>3, <1>4, <1>5, <1>6, <1>7 DEF ThreadStep

LEMMA ClientSequence ==
  TypeOK /\ DispatchInv /\ SequenceInv /\ ClientStep => SequenceInv'
<1> SUFFICES ASSUME TypeOK, DispatchInv, SequenceInv, ClientStep
             PROVE  SequenceInv'
  OBVIOUS
<1>0. TypeOK' /\ ReportsStay /\ queue \subseteq Task
  BY StepType, EveryStepKeepsReports DEF Next, TypeOK
<1> USE DEF clientUnchanged, threadVars, remoteVars, Notified
<1>1. ASSUME NEW s \in TaskSeq, AddTaskSequence(s) PROVE SequenceInv'
  <2>1. \A t \in TasksOf(s) : t \in Task /\ Info[t].seq = s
    BY DEF TasksOf
  <2>2. /\ s \notin offered /\ offered' = offered \cup {s}
        /\ collection' \subseteq collection \cup {s}
        /\ pc' \in {"ran", "raised"} => pc' = pc
        /\ UNCHANGED <<seqStatus, current, launched>>
    BY <1>1 DEF AddTaskSequence, Signal
  <2>3. \A t \in Task : Info[t].seq # s => status'[t] = status[t]
    BY <1>1, <2>1 DEF AddTaskSequence, Assigned, Accepted
  <2>4. ASSUME NEW t \in queue' PROVE QueuedStatus(t)'
    <3>1. status'[t] = "IDLE" \/ (t \in queue /\ status'[t] = status[t])
      BY <1>0, <1>1 DEF AddTaskSequence, Assigned, Accepted, TasksOf
    <3> QED BY <1>0, <3>1 DEF SequenceInv, QueuedStatus, ReportsStay
  <2>5. \A u \in collection : u # s /\ \A t \in TasksOf(u) : status'[t] = status[t]
    BY <2>2, <2>3 DEF TasksOf, SequenceInv
  <2>6. ASSUME s \in collection' PROVE Follows(s)'
    <3>1. s \notin collection /\ s \in TaskSeq \ offered
      BY <2>2, <2>5
    <3>2. TasksOf(s) # {} /\ Refused(s) = {} /\ status' = Assigned(Accepted(s), "IDLE")
      BY <1>1, <2>6, <3>1 DEF AddTaskSequence
    <3>3. Accepted(s) = TasksOf(s)
      BY <3>2 DEF Accepted
    <3> DEFINE counted == [t \in TasksOf(s) |-> "IDLE"]
    <3>4. \A t \in TasksOf(s) : counted[t] \in CountedAs(t)'
      BY <2>1, <3>2, <3>3 DEF Assigned, CountedAs
    <3>6. /\ {counted[t] : t \in TasksOf(s)} = {"IDLE"}
          /\ counted \in [TasksOf(s) -> Status]
      BY <3>2 DEF Status
    <3> HIDE DEF counted
    <3>5. Explains(counted, s)'
      BY <2>2, <3>1, <3>4, <3>6 DEF Explains, SequenceInv
    <3> QED BY <3>5, <3>6 DEF Follows
  <2>7. SequenceStatusCurrent'
    BY <1>0, <2>2, <2>5, <2>6, CurrentIsFollows, FollowsStays DEF SequenceInv
  <2> QED BY <2>2, <2>4, <2>7 DEF SequenceInv
<1>2. ASSUME NEW name, RemoveTaskSequence(name) PROVE SequenceInv'
  BY <1>0, <1>2, SequencesStay DEF RemoveTaskSequence
<1>3. ASSUME NEW S \in SUBSET Task, Revoke(S) PROVE SequenceInv'
  <2> DEFINE canceled == {t \in S : Collected(t) /\ status[t] = "IDLE"}
  <2>1. /\ SetStatus(canceled, "CANCELED")
        /\ queue' = queue \ S
        /\ UNCHANGED <<collection, offered, pc, current, launched>>
    BY <1>3 DEF Revoke
  <2>2. canceled \in SUBSET S
    OBVIOUS
  <2> HIDE DEF canceled
  <2>3. SequenceStatusCurrent'
    BY <1>0, <2>1, <2>2, SetStatusCurrent DEF SequenceInv
  <2>4. \A t \in queue' : QueuedStatus(t)'
    <3>1. \A t \in queue' : status'[t] = status[t]
      BY <1>0, <2>1, <2>2 DEF SetStatus, Assigned
    <3> QED BY <1>0, <2>1, <3>1 DEF SequenceInv, QueuedStatus, ReportsStay
  <2>5. \A t \in canceled : Collected(t)
    BY DEF canceled
  <2>6. \A s \in TaskSeq \ offered : seqStatus'[s] = seqStatus[s]
    BY <2>1, <2>5 DEF SetStatus, Recomputed, Collected, SequenceInv
  <2> QED BY <2>1, <2>3, <2>4, <2>6 DEF SequenceInv
<1>4. ASSUME NEW S, EraseSequences(S) PROVE SequenceInv'
  BY <1>0, <1>4, SequencesStay DEF EraseSequences
<1>5. CASE FlushQueue \/ WakeUp \/ End \/ Stop
  BY <1>0, <1>5, SequencesStay DEF FlushQueue, WakeUp, End, Stop, Signal
<1> QED BY <1>1, <1>2, <1>3, <1>4, <1>5
        DEF ClientStep, RevokeTaskSequence, RevokeTask, ClearAllSequenceTasks,
            ClearSequenceTasks, ClearCompletedSequenceTasks

\* An event that rewrites the status of a queued task was meant for another.
LEMMA RemoteSequence ==
  TypeOK /\ SequenceInv /\ RemoteStep => SequenceInv'
<1> SUFFICES ASSUME TypeOK, SequenceInv, RemoteStep PROVE SequenceInv'
  OBVIOUS
<1>0. TypeOK' /\ ReportsStay /\ queue \subseteq Task
  BY StepType, EveryStepKeepsReports DEF Next, TypeOK
<1> USE DEF threadVars, remoteVars
<1>1. ASSUME NEW t \in Task, NEW report \in Reports, ReportProgress(t, report)
      PROVE  SequenceInv'
  BY <1>0, <1>1, SequencesStay DEF ReportProgress
<1>2. ASSUME NEW a \in Attr, UpdateAsynchTaskStatus(a) PROVE SequenceInv'
  <2>1. Watchers(a) \in SUBSET Task /\ \A t \in Watchers(a) : Collected(t)
    BY DEF Watchers, watching
  <2>2. SequenceStatusCurrent'
    BY <1>0, <1>2, <2>1, SetStatusCurrent DEF UpdateAsynchTaskStatus, SequenceInv
  <2>3. \A t \in Watchers(a) : Reported(t) /\ attrValue[a] \in Reports
    BY <1>2, ConstantAssumption
    DEF UpdateAsynchTaskStatus, Watchers, watching, Reported, IsAsynch, TypeOK
  <2>4. ASSUME NEW t \in queue PROVE QueuedStatus(t)'
    <3>1. status'[t] = IF t \in Watchers(a) THEN attrValue[a] ELSE status[t]
      BY <1>0, <1>2 DEF UpdateAsynchTaskStatus, SetStatus, Assigned
    <3> QED BY <1>0, <2>3, <3>1 DEF SequenceInv, QueuedStatus, ReportsStay
  <2>5. \A s \in TaskSeq \ offered : seqStatus'[s] = seqStatus[s]
    BY <1>2, <2>1 DEF UpdateAsynchTaskStatus, SetStatus, Recomputed, Collected,
                      SequenceInv
  <2> QED BY <1>2, <2>2, <2>4, <2>5 DEF UpdateAsynchTaskStatus, SequenceInv
<1> QED BY <1>1, <1>2 DEF RemoteStep

\* The status of a collected sequence always is what ComputeStatus makes of its
\* tasks, whatever is revoked, removed, reported or run meanwhile and whichever
\* attributes are shared, but for what PopTask expired.
THEOREM SequencesFollow == Spec => []SequenceStatusCurrent
<1>1. Init => SequenceInv
  BY DEF Init, SequenceInv, SequenceStatusCurrent
<1>2. TypeOK /\ DispatchInv /\ SequenceInv /\ [Next]_vars => SequenceInv'
  <2> SUFFICES ASSUME TypeOK, DispatchInv, SequenceInv, [Next]_vars
               PROVE  SequenceInv'
    OBVIOUS
  <2>1. CASE SpuriousWake \/ Tick \/ UNCHANGED vars
    <3>1. ReportsStay /\ queue \subseteq Task
      BY EveryStepKeepsReports DEF TypeOK
    <3> QED BY <2>1, <3>1, SequencesStay
        DEF SpuriousWake, Tick, vars, threadVars, remoteVars
  <2> QED BY <2>1, ThreadSequence, ClientSequence, RemoteSequence DEF Next
<1>3. SequenceInv => SequenceStatusCurrent
  BY DEF SequenceInv
<1> QED BY <1>1, <1>2, <1>3, TypeCorrect, DispatchInvariant, PTL DEF Spec

-----------------------------------------------------------------------------
(* TaskManager implements TaskDispatch *)

\* Steps that move no task.
LEMMA StageStays ==
  ASSUME UNCHANGED <<queue, offered, launched>>,
         pc' = "run" <=> pc = "run",
         pc = "run" => current' = current
  PROVE  stageOf' = stageOf
  BY DEF stageOf

\* Tasks that leave the queue, and not for the thread, are dropped.
LEMMA QueueDrops ==
  ASSUME TypeOK, DispatchInv, queue' \subseteq queue,
         UNCHANGED <<offered, launched, job>>,
         pc' = "run" <=> pc = "run",
         pc = "run" => current' = current
  PROVE  Dispatch!Drop(queue \ queue')
<1> DEFINE S == queue \ queue'
<1>1. S \subseteq Dispatch!In("queued")
  BY DEF Dispatch!In, stageOf, TypeOK
<1>2. \A t \in Task : stageOf'[t] = IF t \in S THEN "dropped" ELSE stageOf[t]
  BY DEF stageOf, DispatchInv, NoRelaunch
<1>3. stageOf' = Dispatch!Moved(S, "dropped")
  BY <1>2 DEF stageOf, Dispatch!Moved
<1> QED BY <1>1, <1>3 DEF Dispatch!Drop

\* The steps of TaskDispatch that a step of TaskManager can be.
LEMMA DropIsNext ==
  ASSUME NEW S \in SUBSET Task, Dispatch!Drop(S) PROVE Dispatch!Next
  BY DEF Dispatch!Next, Dispatch!Drop

LEMMA TakeRefines ==
  ASSUME TypeOK, DispatchInv, CompletionSound, NEW t \in Task, PopRunnable(t)
  PROVE  Dispatch!Next
<1> DEFINE expired == queue \ Kept
<1>1. /\ t \in queue /\ t \in Kept /\ pc = "pop" /\ pc' = "run" /\ current' = t
      /\ queue' = Kept \ {t} /\ UNCHANGED <<offered, remoteVars>>
  BY DEF PopRunnable, ScanQueue, IsFirst, Runnable, Kept
<1>2. Dispatch!In("taken") = {}
  BY <1>1 DEF Dispatch!In, stageOf
<1>3. stageOf[t] = "queued"
  BY <1>1 DEF stageOf
<1>4. \A d \in DepTasks(t) : vouchersOf[d] \cap {u \in Task : job[u] = "COMPLETED"} # {}
  <2>1. \A d \in DepTasks(t) : d \in Task /\ Accomplished(d)
    BY DEF PopRunnable, IsFirst, Runnable, CanPop, IsSequenceTaskRunnable,
           DepTasks, TasksOf, CompletionSound
  <2> QED BY <2>1 DEF Accomplished, vouchersOf
<1>5. expired \subseteq Dispatch!In("queued") \ {t}
  BY <1>1 DEF Dispatch!In, stageOf, TypeOK
<1>6. \A u \in Task : stageOf'[u] = IF u = t THEN "taken"
                                    ELSE IF u \in expired THEN "dropped"
                                    ELSE stageOf[u]
  BY <1>1 DEF stageOf, DispatchInv, NoRelaunch, Kept, remoteVars
<1>7. stageOf' = [Dispatch!Moved(expired, "dropped") EXCEPT ![t] = "taken"]
  BY <1>6 DEF stageOf, Dispatch!Moved
<1>8. Dispatch!Take(t, expired)
  BY <1>1, <1>2, <1>3, <1>4, <1>5, <1>7 DEF Dispatch!Take, remoteVars
<1> QED BY <1>8, <1>5 DEF Dispatch!Next

LEMMA StartRefines ==
  ASSUME TypeOK, DispatchInv, RunReturns \/ RunThrows
  PROVE  Dispatch!Next
<1>1. current \in Task /\ pc = "run" /\ job[current] = "NONE"
  BY DEF RunReturns, RunThrows, TypeOK, DispatchInv, NoRelaunch
<1>2. /\ pc' \in {"ran", "raised"} /\ UNCHANGED <<queue, offered>>
      /\ launched' = launched \cup {current}
  BY DEF RunReturns, RunThrows
<1>3. stageOf[current] = "taken"
  BY <1>1 DEF stageOf, DispatchInv, NoRelaunch
<1>4. \A u \in Task : stageOf'[u] = IF u = current THEN "started" ELSE stageOf[u]
  BY <1>1, <1>2 DEF stageOf, DispatchInv, NoRelaunch
<1>5. stageOf' = [stageOf EXCEPT ![current] = "started"]
  BY <1>4 DEF stageOf
<1>6. {t \in Task : job'[t] = "COMPLETED"} \in
         {{t \in Task : job[t] = "COMPLETED"},
          {t \in Task : job[t] = "COMPLETED"} \cup {current}}
  BY <1>1 DEF RunReturns, RunThrows, TypeOK
<1> QED BY <1>1, <1>3, <1>5, <1>6 DEF Dispatch!Next, Dispatch!Start

LEMMA SubmitRefines ==
  ASSUME TypeOK, DispatchInv, NEW s \in TaskSeq, AddTaskSequence(s)
  PROVE  Dispatch!Next
<1> DEFINE accepted == queue' \ queue
           refused  == TasksOf(s) \ queue'
<1>1. /\ s \notin offered /\ offered' = offered \cup {s}
      /\ UNCHANGED <<current, remoteVars>>
      /\ pc' = "run" <=> pc = "run"
  BY DEF AddTaskSequence, Signal, Notified, clientUnchanged
<1>2. accepted \subseteq TasksOf(s) /\ queue \subseteq queue'
  BY DEF AddTaskSequence, Accepted
<1>3. \A t \in TasksOf(s) : t \in Task /\ stageOf[t] = "new"
  BY <1>1 DEF TasksOf, stageOf, DispatchInv
<1>4. accepted \cup refused \subseteq Dispatch!In("new")
  BY <1>2, <1>3 DEF Dispatch!In
<1>5. \A t \in Task : stageOf'[t] = IF t \in accepted THEN "queued"
                                    ELSE IF t \in refused THEN "dropped"
                                    ELSE stageOf[t]
  BY <1>1, <1>2, <1>3 DEF stageOf, TasksOf, remoteVars
<1>6. stageOf' = [t \in Task |-> IF t \in accepted THEN "queued"
                                 ELSE IF t \in refused THEN "dropped"
                                 ELSE stageOf[t]]
  BY <1>5 DEF stageOf
<1>7. Dispatch!Submit(accepted, refused)
  BY <1>1, <1>4, <1>6 DEF Dispatch!Submit, remoteVars
<1> QED BY <1>4, <1>7 DEF Dispatch!Next

LEMMA InitRefines == Init => Dispatch!Init
<1> SUFFICES ASSUME Init PROVE Dispatch!Init
  OBVIOUS
<1>1. \A t \in Task : stageOf[t] = "new"
  BY DEF Init, stageOf
<1>2. stageOf = [t \in Task |-> "new"]
  BY <1>1 DEF stageOf
<1> QED BY <1>2 DEF Init, Dispatch!Init

LEMMA ThreadRefines ==
  ASSUME TypeOK, DispatchInv, CompletionSound, ThreadStep
  PROVE  [Dispatch!Next]_Dispatch!dispatchVars
<1> USE DEF remoteVars
<1>1. CASE CheckStop \/ PopSleep \/ PopNothing \/ WaitEnds \/ RecordOutcome
  <2>1. /\ UNCHANGED <<queue, offered, launched, job>>
        /\ pc # "run" /\ pc' # "run"
    BY <1>1 DEF CheckStop, PopSleep, PopNothing, WaitEnds, RecordOutcome
  <2> QED BY <2>1, StageStays DEF Dispatch!dispatchVars
<1>2. ASSUME NEW t, PopBlocked \/ PopAndWait(t) PROVE Dispatch!Next
  <2>1. /\ queue' \subseteq queue /\ UNCHANGED <<offered, launched, job>>
        /\ pc # "run" /\ pc' # "run"
    BY <1>2 DEF PopBlocked, PopAndWait, ScanQueue, Kept
  <2>2. queue \ queue' \in SUBSET Task
    BY DEF TypeOK
  <2> QED BY <2>1, <2>2, QueueDrops, DropIsNext
<1> QED BY <1>1, <1>2, TakeRefines, StartRefines DEF ThreadStep

LEMMA ClientRefines ==
  ASSUME TypeOK, DispatchInv, ClientStep
  PROVE  [Dispatch!Next]_Dispatch!dispatchVars
<1> USE DEF remoteVars, threadVars, clientUnchanged
<1>1. CASE \E name, S : RemoveTaskSequence(name) \/ Revoke(S) \/ FlushQueue
  <2>1. /\ queue' \subseteq queue /\ UNCHANGED <<offered, launched, job>>
        /\ UNCHANGED <<pc, current>>
    BY <1>1 DEF RemoveTaskSequence, Revoke, FlushQueue
  <2>2. queue \ queue' \in SUBSET Task
    BY DEF TypeOK
  <2> QED BY <2>1, <2>2, QueueDrops, DropIsNext
<1>2. CASE \E S : EraseSequences(S) \/ WakeUp \/ End \/ Stop
  <2>1. /\ UNCHANGED <<queue, offered, launched, job, current>>
        /\ pc' = "run" <=> pc = "run"
    BY <1>2 DEF EraseSequences, WakeUp, End, Stop, Signal, Notified
  <2> QED BY <2>1, StageStays DEF Dispatch!dispatchVars
<1> QED BY <1>1, <1>2, SubmitRefines
        DEF ClientStep, RevokeTaskSequence, RevokeTask, ClearAllSequenceTasks,
            ClearSequenceTasks, ClearCompletedSequenceTasks

\* Work that is reported on has been started, and so completes in TaskDispatch.
LEMMA RemoteRefines ==
  ASSUME TypeOK, DispatchInv, RemoteStep
  PROVE  [Dispatch!Next]_Dispatch!dispatchVars
<1> USE DEF threadVars
<1>1. UNCHANGED <<queue, offered, launched, pc, current>>
  BY DEF RemoteStep, ReportProgress, UpdateAsynchTaskStatus, remoteVars
<1>2. stageOf' = stageOf
  BY <1>1, StageStays
<1>3. ASSUME NEW a, UpdateAsynchTaskStatus(a)
      PROVE  UNCHANGED Dispatch!dispatchVars
  BY <1>2, <1>3 DEF UpdateAsynchTaskStatus, Dispatch!dispatchVars, remoteVars
<1>4. ASSUME NEW t \in Task, NEW report \in Reports, ReportProgress(t, report)
      PROVE  [Dispatch!Next]_Dispatch!dispatchVars
  <2>1. job[t] = "RUNNING"
    BY <1>4 DEF ReportProgress
  <2>2. stageOf[t] = "started"
    BY <2>1 DEF stageOf, DispatchInv, NoRelaunch
  <2>3. job' = [job EXCEPT ![t] = IF report \in Outcome THEN report ELSE @]
    BY <1>4 DEF ReportProgress
  <2>4. CASE report = "COMPLETED"
    <3>1. {u \in Task : job'[u] = "COMPLETED"}
             = {u \in Task : job[u] = "COMPLETED"} \cup {t}
      BY <2>3, <2>4 DEF TypeOK, Outcome
    <3> QED BY <1>2, <2>2, <3>1 DEF Dispatch!Next, Dispatch!Complete
  <2>5. CASE report # "COMPLETED"
    <3>1. {u \in Task : job'[u] = "COMPLETED"} = {u \in Task : job[u] = "COMPLETED"}
      BY <2>1, <2>3, <2>5 DEF TypeOK
    <3> QED BY <1>2, <3>1 DEF Dispatch!dispatchVars
  <2> QED BY <2>4, <2>5
<1> QED BY <1>3, <1>4 DEF RemoteStep

\* Every behaviour of the scheduler is one of TaskDispatch: a task is dispatched
\* at most once, one at a time, after the work it needs, or what passes for it,
\* is complete, and never after it was revoked, flushed, removed or found
\* expired.
THEOREM Refinement == Spec => ImplementsDispatch
<1>1. TypeOK /\ DispatchInv /\ CompletionSound /\ [Next]_vars
         => [Dispatch!Next]_Dispatch!dispatchVars
  <2> SUFFICES ASSUME TypeOK, DispatchInv, CompletionSound, [Next]_vars
               PROVE  [Dispatch!Next]_Dispatch!dispatchVars
    OBVIOUS
  <2>1. CASE SpuriousWake \/ Tick \/ UNCHANGED vars
    <3>1. /\ UNCHANGED <<queue, offered, launched, job, current>>
          /\ pc' = "run" <=> pc = "run"
      BY <2>1 DEF SpuriousWake, Tick, vars, threadVars, remoteVars
    <3> QED BY <3>1, StageStays DEF Dispatch!dispatchVars
  <2> QED BY <2>1, ThreadRefines, ClientRefines, RemoteRefines DEF Next
<1> QED BY <1>1, InitRefines, TypeCorrect, DispatchInvariant,
           CompletionInvariant, PTL
        DEF Spec, ImplementsDispatch, Dispatch!Spec

-----------------------------------------------------------------------------
(* TaskManager implements Scheduler *)

LEMMA SetStatusRefines ==
  ASSUME NEW S \in SUBSET Task, NEW st, SetStatus(S, st)
  PROVE  Sched!SetStatus(S, st)
<1>1. status' = Sched!Assigned(S, st)
  BY DEF SetStatus, Assigned, Sched!Assigned
<1>2. \A s \in TaskSeq : {Assigned(S, st)[t] : t \in TasksOf(s)}
                            = {status'[t] : t \in Sched!TasksOf(s)}
  BY DEF SetStatus, Sched!TasksOf, TasksOf
<1>3. {Info[t].seq : t \in S} = {[u \in Task |-> Info[u].seq][t] : t \in S}
  OBVIOUS
<1>4. seqStatus' = [s \in TaskSeq |->
         IF s \in {Info[t].seq : t \in S}
         THEN ComputeStatus({status'[t] : t \in Sched!TasksOf(s)})
         ELSE seqStatus[s]]
  BY <1>2 DEF SetStatus, Recomputed
<1> QED BY <1>1, <1>3, <1>4 DEF Sched!SetStatus

LEMMA InitSched == Init => Sched!Init
  BY DEF Init, Sched!Init, heldTask

\* Steps that leave queue, list and statuses alone, and the task in the hands
\* of the thread.
LEMMA SchedStays ==
  ASSUME UNCHANGED <<status, seqStatus, queue, collection, offered, heldTask>>
  PROVE  UNCHANGED Sched!schedulerVars
  BY DEF Sched!schedulerVars

\* A pass through the queue: what is EXPIRED by the end of it is what was and
\* what the pass has marked, and only the former leaves the queue, besides the
\* task that the thread takes.
LEMMA ScanRefines ==
  ASSUME TypeOK, NEW scanned \in SUBSET Kept, ScanQueue(scanned),
         NEW spared \in SUBSET Task, queue' = Kept \ spared,
         \A t \in spared : status[t] # "EXPIRED" /\ ~IsExpirationReached(t)
  PROVE  Sched!Expire(spared)
<1> DEFINE expired == {t \in queue : status'[t] = "EXPIRED"}
<1>1. status' = Assigned({t \in scanned : IsExpirationReached(t)}, "EXPIRED")
  BY DEF ScanQueue
<1>2. \A t \in Task : status'[t] = IF t \in scanned /\ IsExpirationReached(t)
                                   THEN "EXPIRED" ELSE status[t]
  BY <1>1 DEF Assigned
<1>3. Kept \subseteq queue /\ queue \subseteq Task
  BY DEF Kept, TypeOK
<1>4. expired \cap spared = {}
  BY <1>2, <1>3
<1>5. status' = Sched!Assigned(expired, "EXPIRED")
  <2>1. \A t \in Task : status'[t] = IF t \in expired THEN "EXPIRED" ELSE status[t]
    BY <1>2, <1>3
  <2> QED BY <1>1, <2>1 DEF Assigned, Sched!Assigned
<1>6. queue' \subseteq queue /\ queue \ queue' \subseteq expired \cup spared
  BY <1>2, <1>3 DEF Kept
<1>7. UNCHANGED <<seqStatus, collection, offered>>
  BY DEF ScanQueue
<1> QED BY <1>4, <1>5, <1>6, <1>7 DEF Sched!Expire

LEMMA ThreadSched ==
  ASSUME TypeOK, ThreadStep
  PROVE  [Sched!Next]_Sched!schedulerVars
<1> USE DEF heldTask
<1>1. CASE CheckStop \/ PopSleep \/ PopNothing \/ WaitEnds
  BY <1>1, SchedStays DEF CheckStop, PopSleep, PopNothing, WaitEnds
<1>2. CASE RunReturns \/ RunThrows
  BY <1>2, SchedStays DEF RunReturns, RunThrows
<1>3. ASSUME NEW t, PopBlocked \/ PopAndWait(t) PROVE Sched!Next
  <2>1. ScanQueue(Kept) /\ queue' = Kept \ {}
    BY <1>3 DEF PopBlocked, PopAndWait
  <2>2. Sched!Expire({})
    BY <2>1, ScanRefines, Zenon
  <2>3. heldTask = NoTask /\ heldTask' = NoTask
    BY <1>3 DEF PopBlocked, PopAndWait, ScanQueue
  <2> QED BY <2>2, <2>3 DEF Sched!Next, Sched!Scan
<1>4. ASSUME NEW t \in Task, PopRunnable(t) PROVE Sched!Next
  <2> DEFINE scanned == {u \in Kept : Before(Info[u], Info[t])}
  <2>1. /\ t \in queue /\ status[t] = "IDLE" /\ ~IsExpirationReached(t)
        /\ IsSequenceTaskRunnable(t)
    BY <1>4 DEF PopRunnable, IsFirst, Runnable, CanPop, IsRunnable, Kept
  <2>2. /\ scanned \in SUBSET Kept /\ ScanQueue(scanned) /\ queue' = Kept \ {t}
        /\ {t} \in SUBSET Task /\ t \notin queue'
    BY <1>4 DEF PopRunnable
  <2>3. Sched!Expire({t})
    BY <2>1, <2>2, ScanRefines
  <2>4. heldTask = NoTask /\ heldTask' = t
    BY <1>4 DEF PopRunnable, ScanQueue
  <2>5. Info[t].deps = {} => DepTasks(t) = {}
    BY DEF DepTasks
  <2>6. /\ DepTasks(t) # {} => Sched!Listed(t)
        /\ \A d \in DepTasks(t) : status[d] = "COMPLETED"
    BY <2>1, <2>5 DEF IsSequenceTaskRunnable, Collected, Sched!Listed
  <2>7. Sched!Take(t)
    BY <2>1, <2>2, <2>3, <2>4, <2>6 DEF Sched!Take
  <2> QED BY <2>1, <2>7 DEF Sched!Next
<1>5. CASE RecordOutcome
  <2>1. current \in Task /\ heldTask = current /\ heldTask' = NoTask
    BY <1>5 DEF RecordOutcome, TypeOK
  <2>2. heldTask # NoTask
    BY <2>1, ConstantAssumption
  <2>3. {current} \cap {t \in Task : Collected(t)}
           = {t \in {heldTask} : Sched!Listed(t)}
    BY <2>1 DEF Collected, Sched!Listed
  <2>4. PICK outcome \in {"RUNNING", "COMPLETED", "FAILED"} :
           /\ SetStatus({t \in {heldTask} : Sched!Listed(t)}, outcome)
           /\ outcome = "RUNNING" => IsAsynch(current)
           /\ outcome = "COMPLETED" => ~IsAsynch(current)
    BY <1>5, <2>3 DEF RecordOutcome
  <2>5. Sched!SetStatus({t \in {heldTask} : Sched!Listed(t)}, outcome)
    <3>1. {t \in {heldTask} : Sched!Listed(t)} \in SUBSET Task
      BY <2>1
    <3> HIDE DEF heldTask
    <3> QED BY <2>4, <3>1, SetStatusRefines
  <2>6. Sched!Record(outcome)
    BY <1>5, <2>1, <2>2, <2>4, <2>5 DEF RecordOutcome, Sched!Record
  <2> QED BY <2>6 DEF Sched!Next
<1> QED BY <1>1, <1>2, <1>3, <1>4, <1>5 DEF ThreadStep

LEMMA SubmitSched ==
  ASSUME TypeOK, DispatchInv, NEW s \in TaskSeq, AddTaskSequence(s)
  PROVE  Sched!Submit(s)
<1> DEFINE accepted == queue' \ queue
<1>1. /\ s \notin offered /\ offered' = offered \cup {s}
      /\ UNCHANGED <<seqStatus, heldTask>>
  BY DEF AddTaskSequence, Signal, Notified, clientUnchanged, heldTask
<1>2. Accepted(s) \cap queue = {} /\ Accepted(s) \subseteq TasksOf(s)
  BY <1>1 DEF DispatchInv, Accepted, TasksOf
<1>3. Sched!TasksOf(s) = TasksOf(s)
  BY DEF Sched!TasksOf, TasksOf
<1>4. status = Assigned({}, "IDLE")
  BY DEF TypeOK, Assigned
<1>5. /\ queue \subseteq queue' /\ accepted \subseteq TasksOf(s)
      /\ status' = Assigned(accepted, "IDLE")
  <2>1. CASE queue' = queue /\ status' = status
    BY <2>1, <1>4
  <2>2. CASE queue' = queue \cup Accepted(s) /\ status' = Assigned(Accepted(s), "IDLE")
    <3>1. accepted = Accepted(s)
      BY <1>2, <2>2
    <3> QED BY <1>2, <2>2, <3>1
  <2> QED BY <2>1, <2>2 DEF AddTaskSequence
<1>6. status' = Sched!Assigned(accepted, "IDLE")
  BY <1>5 DEF Assigned, Sched!Assigned
<1>7. \/ collection' = collection
      \/ collection' = collection \cup {s} /\ accepted = TasksOf(s)
  <2>1. Refused(s) = {} => Accepted(s) = TasksOf(s)
    BY DEF Accepted
  <2> QED BY <1>2, <2>1 DEF AddTaskSequence
<1> QED BY <1>1, <1>3, <1>5, <1>6, <1>7 DEF Sched!Submit

LEMMA RevokeSched ==
  ASSUME TypeOK, NEW S \in SUBSET Task, Revoke(S)
  PROVE  Sched!Revoke
<1> DEFINE revoked == {t \in Task : status'[t] # status[t]}
           idle    == {t \in S : Collected(t) /\ status[t] = "IDLE"}
<1>1. \A t \in Task : status'[t] = IF t \in idle THEN "CANCELED" ELSE status[t]
  BY DEF Revoke, SetStatus, Assigned
<1>2. revoked = idle
  BY <1>1
<1>3. Sched!SetStatus(revoked, "CANCELED")
  BY <1>2, SetStatusRefines DEF Revoke
<1>4. UNCHANGED <<heldTask, offered, collection>>
  BY DEF Revoke, clientUnchanged, heldTask
<1>5. queue' \subseteq queue \ revoked
  BY <1>2 DEF Revoke
<1>6. \A t \in revoked : Sched!Listed(t) /\ status[t] = "IDLE"
  BY <1>2 DEF Collected, Sched!Listed
<1> QED BY <1>3, <1>4, <1>5, <1>6 DEF Sched!Revoke

LEMMA ClientSched ==
  ASSUME TypeOK, DispatchInv, ClientStep
  PROVE  [Sched!Next]_Sched!schedulerVars
<1> USE DEF clientUnchanged, threadVars, heldTask
<1>1. ASSUME NEW s \in TaskSeq, AddTaskSequence(s) PROVE Sched!Next
  BY <1>1, SubmitSched DEF Sched!Next
<1>2. CASE \E name, S : RemoveTaskSequence(name) \/ EraseSequences(S) \/ FlushQueue
  <2>1. Sched!Drop
    BY <1>2 DEF RemoveTaskSequence, EraseSequences, FlushQueue, Sched!Drop
  <2> QED BY <2>1 DEF Sched!Next
<1>3. ASSUME NEW S \in SUBSET Task, Revoke(S) PROVE Sched!Next
  BY <1>3, RevokeSched DEF Sched!Next
<1>4. CASE WakeUp \/ End \/ Stop
  BY <1>4, SchedStays DEF WakeUp, End, Stop, Signal, Notified
<1> QED BY <1>1, <1>2, <1>3, <1>4
        DEF ClientStep, RevokeTaskSequence, RevokeTask, ClearAllSequenceTasks,
            ClearSequenceTasks, ClearCompletedSequenceTasks

\* The first of its sequence to watch an attribute is the one told.
LEMMA WatchersAreTold ==
  ASSUME NEW a \in Attr
  PROVE  Watchers(a) = {t \in watching[a] : Sched!Listed(t)}
  BY DEF Watchers, watching, Collected, Sched!Listed

LEMMA RemoteSched ==
  ASSUME TypeOK, RemoteStep
  PROVE  [Sched!Next]_Sched!schedulerVars
<1> USE DEF threadVars, heldTask
<1>1. ASSUME NEW t \in Task, NEW report \in Reports, ReportProgress(t, report)
      PROVE  UNCHANGED Sched!schedulerVars
  BY <1>1, SchedStays DEF ReportProgress
<1>2. ASSUME NEW a \in Attr, UpdateAsynchTaskStatus(a)
      PROVE  [Sched!Next]_Sched!schedulerVars
  <2> DEFINE told == {t \in watching[a] : Sched!Listed(t)}
  <2>1. SetStatus(told, attrValue[a])
    BY <1>2, WatchersAreTold DEF UpdateAsynchTaskStatus
  <2>0. told \subseteq Task
    BY DEF watching
  <2>2. UNCHANGED <<heldTask, offered, collection, queue>>
    BY <1>2 DEF UpdateAsynchTaskStatus
  <2>3. CASE told = {}
    <3>1. UNCHANGED <<status, seqStatus>>
      BY <2>1, <2>3 DEF SetStatus, Assigned, Recomputed, TypeOK
    <3> QED BY <2>2, <3>1, SchedStays
  <2>4. CASE told # {}
    <3>1. attrValue[a] \in Reports
      BY <1>2 DEF UpdateAsynchTaskStatus, TypeOK
    <3>2. Sched!SetStatus(told, attrValue[a])
      BY <2>0, <2>1, SetStatusRefines
    <3>3. Sched!Report(a, attrValue[a])
      BY <2>2, <2>4, <3>2 DEF Sched!Report
    <3> QED BY <3>1, <3>3 DEF Sched!Next
  <2> QED BY <2>3, <2>4
<1> QED BY <1>1, <1>2 DEF RemoteStep

\* Whatever attributes tasks share, nothing the thread, clients, sub-elements
\* and time do to statuses, queue and list, in any order, goes beyond what
\* Scheduler allows.
THEOREM SchedulerRefinement == Spec => ImplementsScheduler
<1>1. TypeOK /\ DispatchInv /\ [Next]_vars
         => [Sched!Next]_Sched!schedulerVars
  <2> SUFFICES ASSUME TypeOK, DispatchInv, [Next]_vars
               PROVE  [Sched!Next]_Sched!schedulerVars
    OBVIOUS
  <2>1. CASE SpuriousWake \/ Tick \/ UNCHANGED vars
    BY <2>1, SchedStays DEF SpuriousWake, Tick, vars, threadVars, heldTask
  <2> QED BY <2>1, ThreadSched, ClientSched, RemoteSched DEF Next
<1> QED BY <1>1, InitSched, TypeCorrect, DispatchInvariant, PTL
        DEF Spec, ImplementsScheduler, Sched!Spec
=============================================================================
