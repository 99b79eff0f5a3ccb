----------------------------- MODULE TaskManager -----------------------------
(***************************************************************************)
(* The task scheduler of an LMC device: class TaskManager (the queue, the  *)
(* collection of task sequences and their mutex) and the loop of the one   *)
(* thread that consumes the queue (TaskThread::Run).                       *)
(*                                                                         *)
(* The mutex makes every public operation of TaskManager one step, with    *)
(* two exceptions, which are steps of the thread: PopTask releases the     *)
(* mutex while it waits, and ExecuteTask holds it only to write a status,  *)
(* so anything may happen between taking a task, running its command and   *)
(* recording the outcome.                                                  *)
(*                                                                         *)
(* Outside the scheduler: the sub-element that carries out an asynchronous *)
(* task and reports on it in a progress attribute, the clients that call   *)
(* the operations, and time.                                               *)
(***************************************************************************)
EXTENDS TaskData, FiniteSets

CONSTANTS
    Task,                \* the tasks clients may submit
    TaskSeq,             \* the task sequences they come in
    Attr,                \* names of task progress attributes
    DeviceAttr,          \* the ones this device really has
    NoAttr, NoTask,      \* model values
    Info,                \* Info[t]: see TaskData, plus name and attr
    SeqName,             \* SeqName[s]: several sequences may share a name
    MaxTasksInQueue,     \* m_maxTasksInQueue
    Reports,             \* what sub-elements write to progress attributes
    MaxTime              \* bound: the clock stops there

IsAsynch(t) == Info[t].attr # NoAttr
TasksOf(s)  == {t \in Task : Info[t].seq = s}
DepTasks(t) == {d \in TasksOf(Info[t].seq) : Info[d].index \in Info[t].deps}
Outcome     == {"COMPLETED", "FAILED", "ABORTED"}

\* AddTask numbers the tasks of a sequence and every setter of times keeps
\* activation < expiration; SetTaskDependency puts exp_max_activation_time
\* at or after the activation time.
ASSUME InfoAssumption ==
    /\ \A t \in Task :
          /\ Info[t].seq \in TaskSeq
          /\ Info[t].index \in Nat
          /\ Info[t].deps \in SUBSET Nat
          /\ Info[t].attr \in Attr \cup {NoAttr}
          /\ {Info[t].act, Info[t].startMax, Info[t].exp} \subseteq Nat
          /\ Info[t].act < Info[t].exp
          /\ Info[t].deps # {} => Info[t].act <= Info[t].startMax
    /\ \A t, u \in Task :
          Info[t].seq = Info[u].seq /\ Info[t].index = Info[u].index => t = u

\* All tasks may meet in the queue: what its order rests on.
ASSUME OrderAssumption ==
    LET Tasks == {Info[t] : t \in Task}
    IN  Comparable(Tasks) /\ StartsAfterDependencies(Tasks)

ASSUME ConstantAssumption ==
    /\ NoAttr \notin Attr /\ NoTask \notin Task
    /\ MaxTasksInQueue \in Nat
    /\ MaxTime \in Nat \ {0}
    /\ Reports \subseteq {"IDLE", "RUNNING"} \cup Outcome
    /\ IsFiniteSet(Task)
-----------------------------------------------------------------------------
VARIABLES
    status,      \* status[t]: Task::status
    seqStatus,   \* seqStatus[s]: TaskSequence::status, recomputed on demand
    queue,       \* m_taskQueue; its order is Before
    collection,  \* m_taskSequences
    wakeUp,      \* m_wakeUpSignal
    ended,       \* m_endSignal
    stop,        \* m_stopThread
    pc,          \* where the task thread is
    current,     \* the task it popped, or whose activation it waits for
    now,         \* the clock
    offered,     \* the sequences clients have submitted so far
    launched,    \* history: the tasks whose command was started
    job,         \* job[t]: how far the work commanded by t has come
    attrValue    \* the value of each progress attribute

threadVars == <<pc, current>>
signalVars == <<wakeUp, ended, stop>>
remoteVars == <<launched, job, attrValue>>
vars == <<status, seqStatus, queue, collection, wakeUp, ended, stop,
          pc, current, now, offered, launched, job, attrValue>>

\* The thread is about to test m_stopThread (loop), about to enter PopTask
\* or back from a wait in it (pop), in PopTask's first wait (asleep) or in
\* its timed wait (timed), about to run a command (run), back from it
\* normally (ran) or by an exception (raised), or gone (done).
PC == {"loop", "pop", "asleep", "timed", "run", "ran", "raised", "done"}
JobState == {"NONE", "RUNNING"} \cup Outcome
NoReport == "NONE"

Init ==
    /\ status = [t \in Task |-> "INIT"]
    /\ seqStatus = [s \in TaskSeq |-> "INIT"]
    /\ queue = {} /\ collection = {}
    /\ wakeUp = FALSE /\ ended = FALSE /\ stop = FALSE
    /\ pc = "loop" /\ current = NoTask
    /\ now = 1
    /\ offered = {} /\ launched = {}
    /\ job = [t \in Task |-> "NONE"]
    /\ attrValue = [a \in Attr |-> NoReport]

-----------------------------------------------------------------------------
(* Statuses *)

\* The statuses after every task of S got status st.
Assigned(S, st) == [t \in Task |-> IF t \in S THEN st ELSE status[t]]

\* Faulty: recompute the sequences before the new statuses are set.
RecomputedTooEarly(S, newStatus) ==
    [s \in TaskSeq |-> IF s \in S
                   THEN ComputeStatus({status[t] : t \in TasksOf(s)})
                   ELSE seqStatus[s]]

\* ComputeStatus on each sequence of S, given the new statuses of the tasks.
Recomputed(S, newStatus) ==
    [s \in TaskSeq |-> IF s \in S
                   THEN ComputeStatus({newStatus[t] : t \in TasksOf(s)})
                   ELSE seqStatus[s]]

\* The tasks of S get status st and the sequences they are in recompute
\* theirs: set_sequence_task_status, SetAsynchTaskStatus, revoke_*.
SetStatus(S, st) ==
    /\ status' = Assigned(S, st)
    /\ seqStatus' = Recomputed({Info[t].seq : t \in S}, Assigned(S, st))

Collected(t) == Info[t].seq \in collection

\* notify_all wakes the thread in the first wait of PopTask.
Notified == IF pc = "asleep" THEN "pop" ELSE pc

\* Faulty: set the flag and forget notify_all, or the other way round.
FlagOnly   == wakeUp' = TRUE /\ UNCHANGED pc
NotifyOnly == pc' = Notified /\ UNCHANGED wakeUp

\* Signal the task thread that there is work.
Signal == wakeUp' = TRUE /\ pc' = Notified

-----------------------------------------------------------------------------
(* The task thread *)

IsActivationReached(t)    == Info[t].act = NoTime \/ now >= Info[t].act
IsWaitingForActivation(t) == ~IsActivationReached(t)
IsExpirationReached(t)    == now >= Info[t].exp
IsRunnable(t) == /\ status[t] = "IDLE"
                 /\ IsActivationReached(t)
                 /\ ~IsExpirationReached(t)

\* Faulty: leave EXPIRED tasks in the queue, or go through the list instead.
KeptExpired  == queue
KeptFromList == {t \in Task : /\ status[t] # "EXPIRED"
                              /\ Collected(t) \/ t \in queue}

\* remove_expired_tasks_in_queue: what PopTask keeps of the queue.
Kept == {t \in queue : status[t] # "EXPIRED"}

\* Faulty: a dependency that has been started is good enough.
IsSequenceTaskStartable(t) ==
    \/ Info[t].deps = {}
    \/ Collected(t) /\ \A d \in DepTasks(t) : status[d] \in {"RUNNING", "COMPLETED"}

\* is_sequence_task_runnable.  Dependencies come first in the queue: one
\* that timed out there is EXPIRED when the scan reaches its dependents.
IsSequenceTaskRunnable(t) ==
    \/ Info[t].deps = {}
    \/ /\ Collected(t)
       /\ \A d \in DepTasks(t) : /\ status[d] = "COMPLETED"
                                 /\ ~(d \in Kept /\ IsExpirationReached(d))

CanPop(t) == IsRunnable(t) /\ IsSequenceTaskRunnable(t)

\* Where PopTask would wait for an activation.
CanWaitFor(t) == IsWaitingForActivation(t) /\ ~IsExpirationReached(t)

Runnable == {t \in Kept : CanPop(t)}
Waiting  == {t \in Kept : CanWaitFor(t)}

\* t is the first task of S in the order of the queue.
IsFirst(t, S) == t \in S /\ \A u \in S : ~Before(Info[u], Info[t])

\* The loop condition of TaskThread::Run.
CheckStop ==
    /\ pc = "loop"
    /\ pc' = IF stop THEN "done" ELSE "pop"
    /\ UNCHANGED <<status, seqStatus, queue, collection, signalVars, current,
                   now, offered, remoteVars>>

\* Faulty: wait on an empty queue although the manager has ended.
PopSleepForEver ==
    /\ pc = "pop"
    /\ queue = {} /\ ~wakeUp
    /\ pc' = "asleep"
    /\ UNCHANGED <<status, seqStatus, queue, collection, signalVars, current,
                   now, offered, remoteVars>>

\* PopTask has nothing to do: it waits, without time limit.
PopSleep ==
    /\ pc = "pop"
    /\ queue = {} /\ ~wakeUp /\ ~ended
    /\ pc' = "asleep"
    /\ UNCHANGED <<status, seqStatus, queue, collection, signalVars, current,
                   now, offered, remoteVars>>

\* A condition variable may wake up for no reason.
SpuriousWake ==
    /\ pc = "asleep"
    /\ pc' = "pop"
    /\ UNCHANGED <<status, seqStatus, queue, collection, signalVars, current,
                   now, offered, remoteVars>>

\* PopTask returns at once: end of the manager, or woken for an empty queue.
PopNothing ==
    /\ pc = "pop"
    /\ ended \/ (wakeUp /\ queue = {})
    /\ wakeUp' = FALSE
    /\ pc' = "loop"
    /\ UNCHANGED <<status, seqStatus, queue, collection, ended, stop, current,
                   now, offered, remoteVars>>

\* PopTask goes through a non-empty queue: EXPIRED tasks leave it, and the
\* tasks of the scanned part that have timed out are marked EXPIRED.
ScanQueue(scanned) ==
    /\ pc = "pop" /\ ~ended /\ queue # {}
    /\ wakeUp' = FALSE
    /\ status' = Assigned({t \in scanned : IsExpirationReached(t)}, "EXPIRED")
    /\ UNCHANGED <<seqStatus, collection, ended, stop, now, offered, remoteVars>>

\* Faulty: hand the task out and leave it in the queue.
PopRunnableCopy(t) ==
    /\ IsFirst(t, Runnable)
    /\ ScanQueue({u \in Kept : Before(Info[u], Info[t])})
    /\ queue' = Kept
    /\ current' = t
    /\ pc' = "run"

\* The first runnable task leaves the queue; those behind it are not looked at.
PopRunnable(t) ==
    /\ IsFirst(t, Runnable)
    /\ ScanQueue({u \in Kept : Before(Info[u], Info[t])})
    /\ queue' = Kept \ {t}
    /\ current' = t
    /\ pc' = "run"

\* No task is runnable: wait, at most until the first activation time.
PopAndWait(t) ==
    /\ Runnable = {}
    /\ IsFirst(t, Waiting)
    /\ ScanQueue(Kept)
    /\ queue' = Kept
    /\ current' = t
    /\ pc' = "timed"

\* No task is runnable and none waits for its activation: try again.
PopBlocked ==
    /\ Runnable = {} /\ Waiting = {}
    /\ ScanQueue(Kept)
    /\ queue' = Kept
    /\ pc' = "loop"
    /\ UNCHANGED current

\* The timed wait ends by a signal or when the activation time has come.
WaitEnds ==
    /\ pc = "timed"
    /\ wakeUp \/ ended \/ IsActivationReached(current)
    /\ wakeUp' = FALSE
    /\ pc' = "loop"
    /\ current' = NoTask
    /\ UNCHANGED <<status, seqStatus, queue, collection, ended, stop, now,
                   offered, remoteVars>>

\* Task::Run returns: the command of a synchronous task has done its work,
\* that of an asynchronous one has started it.
RunReturns ==
    /\ pc = "run"
    /\ pc' = "ran"
    /\ launched' = launched \cup {current}
    /\ job' = [job EXCEPT ![current] = IF IsAsynch(current) THEN "RUNNING"
                                                            ELSE "COMPLETED"]
    /\ UNCHANGED <<status, seqStatus, queue, collection, signalVars, current,
                   now, offered, attrValue>>

\* Task::Run throws: the command was refused, or its answer was lost after
\* the sub-element had started the work.
RunThrows ==
    /\ pc = "run"
    /\ pc' = "raised"
    /\ launched' = launched \cup {current}
    /\ \/ UNCHANGED job
       \/ IsAsynch(current) /\ job' = [job EXCEPT ![current] = "RUNNING"]
    /\ UNCHANGED <<status, seqStatus, queue, collection, signalVars, current,
                   now, offered, attrValue>>

\* The end of ExecuteTask: record the outcome, if the sequence of the task
\* is still in the collection.
RecordOutcome ==
    /\ pc \in {"ran", "raised"}
    /\ SetStatus({current} \cap {t \in Task : Collected(t)},
                 IF pc = "raised" THEN "FAILED"
                 ELSE IF IsAsynch(current) THEN "RUNNING" ELSE "COMPLETED")
    /\ pc' = "loop"
    /\ current' = NoTask
    /\ UNCHANGED <<queue, collection, signalVars, now, offered, remoteVars>>

ThreadStep ==
    \/ CheckStop \/ PopSleep \/ PopNothing \/ PopBlocked \/ WaitEnds
    \/ \E t \in Task : PopRunnable(t) \/ PopAndWait(t)
    \/ RunReturns \/ RunThrows \/ RecordOutcome

-----------------------------------------------------------------------------
(* The operations of clients: command handlers and event callbacks *)

clientUnchanged == UNCHANGED <<stop, current, now, remoteVars>>

\* The tasks of s that AddTaskSequence refuses: asynchronous, and the device
\* lacks their progress attribute.
Refused(s) == {t \in TasksOf(s) : IsAsynch(t) /\ Info[t].attr \notin DeviceAttr}

\* The tasks it queues: those before the first one it refuses.
Accepted(s) == {t \in TasksOf(s) :
                   \A u \in Refused(s) : Info[t].index < Info[u].index}

QuotaAllows(s) ==
    Cardinality(queue) + Cardinality(TasksOf(s)) <= MaxTasksInQueue

\* AddTaskSequence (always called with addToQueue = true): an empty sequence
\* and one beyond the quota of the queue are turned down (the test of
\* m_maxTasksInCollection is commented out).  A sequence with a refused task
\* is not collected, nor the thread notified, but the tasks before that one
\* stay in the queue.
AddTaskSequence(s) ==
    /\ s \notin offered
    /\ offered' = offered \cup {s}
    /\ \/ /\ TasksOf(s) = {} \/ ~QuotaAllows(s)
          /\ UNCHANGED <<status, queue, collection, wakeUp, pc>>
       \/ /\ TasksOf(s) # {} /\ QuotaAllows(s)
          /\ queue' = queue \cup Accepted(s)
          /\ status' = Assigned(Accepted(s), "IDLE")
          /\ \/ /\ Refused(s) # {}
                /\ UNCHANGED <<collection, wakeUp, pc>>
             \/ /\ Refused(s) = {}
                /\ collection' = collection \cup {s}
                /\ Signal
    /\ UNCHANGED <<seqStatus, ended>> /\ clientUnchanged

\* RemoveTaskSequence: out of the queue and out of the collection.
RemoveTaskSequence(name) ==
    /\ queue' = {t \in queue : SeqName[Info[t].seq] # name}
    /\ collection' = {s \in collection : SeqName[s] # name}
    /\ UNCHANGED <<status, seqStatus, wakeUp, ended, pc, offered>>
    /\ clientUnchanged

\* Out of the queue go the tasks of S; those in the collection that are IDLE
\* become CANCELED.
Revoke(S) ==
    /\ queue' = queue \ S
    /\ SetStatus({t \in S : Collected(t) /\ status[t] = "IDLE"}, "CANCELED")
    /\ UNCHANGED <<collection, wakeUp, ended, pc, offered>>
    /\ clientUnchanged

RevokeTaskSequence(name) == Revoke({t \in Task : SeqName[Info[t].seq] = name})
RevokeTask(name)         == Revoke({t \in Task : Info[t].name = name})

\* FlushQueue: the queue is emptied, the statuses stay.
FlushQueue ==
    /\ queue' = {}
    /\ UNCHANGED <<status, seqStatus, collection, wakeUp, ended, pc, offered>>
    /\ clientUnchanged

\* The sequences of S leave the collection; their tasks stay in the queue.
EraseSequences(S) ==
    /\ collection' = collection \ S
    /\ UNCHANGED <<status, seqStatus, queue, wakeUp, ended, pc, offered>>
    /\ clientUnchanged

ClearAllSequenceTasks == EraseSequences(collection)

\* The history threshold makes some sequences old; any set may be the old one.
ClearSequenceTasks(old, keepRunningTasks) ==
    EraseSequences({s \in old : keepRunningTasks => seqStatus[s] # "RUNNING"})

ClearCompletedSequenceTasks(old) ==
    EraseSequences({s \in old : seqStatus[s] # "COMPLETED"})

WakeUp ==
    /\ Signal
    /\ UNCHANGED <<status, seqStatus, queue, collection, ended, offered>>
    /\ clientUnchanged

\* delete_device: End, then Stop, then the thread is joined.
End ==
    /\ ~ended
    /\ ended' = TRUE
    /\ pc' = Notified
    /\ UNCHANGED <<status, seqStatus, queue, collection, wakeUp, offered>>
    /\ clientUnchanged

Stop ==
    /\ ended /\ ~stop
    /\ stop' = TRUE
    /\ UNCHANGED <<status, seqStatus, queue, collection, wakeUp, ended,
                   threadVars, now, offered, remoteVars>>

-----------------------------------------------------------------------------
(* Sub-elements, events and time *)

\* The sub-element that works on t reports on it in the progress attribute.
ReportProgress(t, report) ==
    /\ job[t] = "RUNNING" /\ IsAsynch(t)
    /\ attrValue' = [attrValue EXCEPT ![Info[t].attr] = report]
    /\ job' = [job EXCEPT ![t] = IF report \in Outcome THEN report ELSE @]
    /\ UNCHANGED <<status, seqStatus, queue, collection, signalVars, threadVars,
                   now, offered, launched>>

\* The tasks events of an attribute are for: in each sequence the first one
\* that watches it, whatever its status.
watching == [a \in Attr |->
    {t \in Task : /\ Info[t].attr = a
                  /\ \A u \in TasksOf(Info[t].seq) :
                        Info[u].attr = a => Info[t].index <= Info[u].index}]

\* Those that get them: the sequence has to be collected.
Watchers(a) == {t \in watching[a] : Collected(t)}

\* UpdateAsynchTaskStatus and SetAsynchTaskStatus: an event of a arrives; its
\* handler reads the value the attribute has by then.
UpdateAsynchTaskStatus(a) ==
    /\ attrValue[a] # NoReport
    /\ SetStatus(Watchers(a), attrValue[a])
    /\ UNCHANGED <<queue, collection, signalVars, threadVars, now, offered,
                   remoteVars>>

Tick ==
    /\ now < MaxTime
    /\ now' = now + 1
    /\ UNCHANGED <<status, seqStatus, queue, collection, signalVars, threadVars,
                   offered, remoteVars>>

-----------------------------------------------------------------------------
ClientStep ==
    \/ \E s \in TaskSeq : AddTaskSequence(s)
    \/ \E s \in TaskSeq : \/ RemoveTaskSequence(SeqName[s])
                         \/ RevokeTaskSequence(SeqName[s])
    \/ \E t \in Task : RevokeTask(Info[t].name)
    \/ FlushQueue \/ ClearAllSequenceTasks
    \/ \E old \in SUBSET collection :
          \/ \E keepRunningTasks \in BOOLEAN :
                ClearSequenceTasks(old, keepRunningTasks)
          \/ ClearCompletedSequenceTasks(old)
    \/ WakeUp \/ End \/ Stop

RemoteStep ==
    \/ \E t \in Task, report \in Reports : ReportProgress(t, report)
    \/ \E a \in Attr : UpdateAsynchTaskStatus(a)

Next == ThreadStep \/ SpuriousWake \/ ClientStep \/ RemoteStep \/ Tick

\* The operating system runs the thread, commands return (Tango calls time
\* out) and time passes; clients, sub-elements and events owe us nothing.
Fairness == WF_vars(ThreadStep) /\ WF_vars(Tick)

Spec == Init /\ [][Next]_vars /\ Fairness

-----------------------------------------------------------------------------
(* Properties *)

TypeOK ==
    /\ status \in [Task -> Status]
    /\ seqStatus \in [TaskSeq -> Status]
    /\ queue \subseteq Task /\ collection \subseteq TaskSeq
    /\ wakeUp \in BOOLEAN /\ ended \in BOOLEAN /\ stop \in BOOLEAN
    /\ pc \in PC
    /\ current \in Task \cup {NoTask}
    /\ pc \in {"timed", "run", "ran", "raised"} => current \in Task
    /\ now \in 1..MaxTime
    /\ offered \subseteq TaskSeq /\ launched \subseteq Task
    /\ job \in [Task -> JobState]
    /\ attrValue \in [Attr -> Reports \cup {NoReport}]

\* A command is never started twice: what is queued or popped has not been
\* started yet, whatever mix of revocations, flushes, failures and events
\* came before (PopTask, ExecuteTask, AddTaskSequence).
NoRelaunch ==
    /\ queue \cap launched = {}
    /\ pc = "run" => current \notin queue \cup launched

\* Why NoRelaunch is kept: only a task of a sequence submitted before can be in
\* the queue or with the thread, a sequence is submitted once (its tasks are
\* objects of their own), and work begins when a command is started.
DispatchInv ==
    /\ NoRelaunch
    /\ \A t \in queue \cup launched : Info[t].seq \in offered
    /\ pc = "run" => Info[current].seq \in offered
    /\ \A t \in Task : job[t] # "NONE" => t \in launched

\* Events do not tell the tasks apart that watch one attribute, as two mode
\* commands of DishManager and two runs of one command do: the end of any of
\* them passes for the end of t.
vouchersOf == [t \in Task |->
    {u \in Task : u = t \/ (IsAsynch(t) /\ Info[u].attr = Info[t].attr)}]

Accomplished(t) == \E u \in vouchersOf[t] : job[u] = "COMPLETED"

\* Something has been reported in the attribute t watches, by t or by another.
Reported(t) == IsAsynch(t) /\ attrValue[Info[t].attr] # NoReport

\* When a dependent task is run, the work its dependencies commanded is really
\* complete -- not merely announced, revoked, failed or lost (PopTask,
\* is_sequence_task_runnable, SetAsynchTaskStatus).
DependenciesComplete ==
    pc = "run" => \A d \in DepTasks(current) : job[d] = "COMPLETED"

\* COMPLETED is only said of finished work, of the task itself or of one that
\* shares its attribute: by the status of a task, a progress attribute, the
\* thread on its way to record a synchronous command, and the start of a task
\* that depends on others (ExecuteTask, UpdateAsynchTaskStatus, PopTask).
CompletionSound ==
    /\ \A t \in Task : status[t] = "COMPLETED" => Accomplished(t)
    /\ \A t \in Task : IsAsynch(t) /\ attrValue[Info[t].attr] = "COMPLETED"
                        => Accomplished(t)
    /\ pc = "ran" /\ ~IsAsynch(current) => job[current] = "COMPLETED"
    /\ pc = "run" => \A d \in DepTasks(current) : Accomplished(d)

\* What the status of a sequence may still count t as: PopTask marks tasks
\* EXPIRED without recomputing.  They were IDLE, or what an event meant for
\* another task had made of them in the queue.
CountedAs(t) == {status[t]} \cup
    (IF status[t] # "EXPIRED" THEN {}
     ELSE {"IDLE"} \cup (IF Reported(t) THEN Reports ELSE {}))

\* The status of a collected sequence is what ComputeStatus makes of its tasks,
\* but for tasks PopTask has marked EXPIRED since and for sequences none of
\* whose tasks got a status after being queued.
SequenceStatusCurrent ==
    \A s \in collection : \E counted \in [TasksOf(s) -> Status] :
        /\ \A t \in TasksOf(s) : counted[t] \in CountedAs(t)
        /\ LET seen == {counted[t] : t \in TasksOf(s)}
           IN  \/ seqStatus[s] = ComputeStatus(seen)
               \/ seqStatus[s] = "INIT" /\ seen = {"IDLE"}

\* The queue never holds more than m_maxTasksInQueue tasks, partial failures
\* of AddTaskSequence included.
QueueBounded == Cardinality(queue) <= MaxTasksInQueue

\* What an AddTaskSequence that failed half way has left in the queue.
Orphaned == {t \in queue : Refused(Info[t].seq) # {}}

\* The timed wait of PopTask may oversleep a task that depends on others, but
\* not one that does not: as long as nobody signals and the awaited activation
\* is not due, no such task is runnable -- unless a report meant for another
\* task has made it so.
NoIndependentTaskOverslept ==
    pc = "timed" /\ ~wakeUp /\ ~ended /\ ~IsActivationReached(current) =>
        \A t \in queue \ Orphaned :
            IsRunnable(t) /\ ~Reported(t) => Info[t].deps # {}

\* Who sleeps in PopTask with nobody having to wake it up has nothing to do
\* but tasks left by an AddTaskSequence that failed half way.
NoSequenceForgotten == pc = "asleep" => queue \subseteq Orphaned

\* Every queued task leaves the queue, executed, revoked or expired, unless the
\* manager ends: no task keeps the thread from the others for ever.
QueueDrains ==
    \A t \in Task : t \in queue ~> (t \notin queue \/ ended)

\* delete_device can join the thread: after End and Stop it comes to its end,
\* from either wait, with tasks in the queue or without.
ThreadStops == stop ~> pc = "done"

-----------------------------------------------------------------------------
(* The scheduler implements TaskDispatch *)

stageOf == [t \in Task |->
    IF t \in queue THEN "queued"
    ELSE IF pc = "run" /\ t = current THEN "taken"
    ELSE IF t \in launched THEN "started"
    ELSE IF Info[t].seq \in offered THEN "dropped"
    ELSE "new"]

Dispatch == INSTANCE TaskDispatch
            WITH stage    <- stageOf,
                 complete <- {t \in Task : job[t] = "COMPLETED"},
                 Needs    <- [t \in Task |-> DepTasks(t)],
                 Vouchers <- vouchersOf

\* Dispatched at most once, one at a time, after the work it needs (or what
\* passes for it, where attributes are shared), and never
\* after it was revoked, flushed, removed or expired: every step of the
\* scheduler is one that TaskDispatch allows.
ImplementsDispatch == Dispatch!Spec

-----------------------------------------------------------------------------
(* The scheduler implements Scheduler, which DishManager builds on *)

heldTask == IF pc \in {"run", "ran", "raised"} THEN current ELSE NoTask

Sched == INSTANCE Scheduler
         WITH SeqOf    <- [t \in Task |-> Info[t].seq],
              Deps     <- [t \in Task |-> DepTasks(t)],
              Asynch   <- {t \in Task : IsAsynch(t)},
              Watching <- watching,
              held     <- heldTask

\* Nothing the task thread, its clients, sub-elements and the clock do to
\* statuses, queue and list goes beyond what Scheduler allows, in any order.
ImplementsScheduler == Sched!Spec
=============================================================================
