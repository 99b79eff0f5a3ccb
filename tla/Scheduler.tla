------------------------------ MODULE Scheduler ------------------------------
(***************************************************************************)
(* The task scheduler as those see it who submit sequences and look at     *)
(* statuses: neither the order of the queue, signals, quota and clock, nor *)
(* the values of attributes.  Any task that may run can be next, any that  *)
(* is queued can expire, and events of progress attributes come at will.   *)
(*                                                                         *)
(* TaskManager implements this module, so nothing else can be seen of it;  *)
(* DishManager, whose scheduler is this one in the clothes of the dish     *)
(* commands, implements it, too.                                           *)
(***************************************************************************)
CONSTANTS
    Task, TaskSeq,       \* the tasks and sequences that may be submitted
    SeqOf,               \* SeqOf[t]: the sequence of task t
    Deps,                \* Deps[t]: the tasks t depends on
    Asynch,              \* the tasks that only start work
    Attr, Watching,      \* Watching[a]: the tasks events of attribute a are for
    Reports,             \* the statuses these attributes report
    ComputeStatus(_),    \* of a sequence, from those of its tasks
    NoTask

VARIABLES
    status, seqStatus,   \* of each task and sequence
    queue, collection,   \* the tasks still to be run; the sequences listed
    offered,             \* the sequences submitted so far
    held                 \* the task whose command is run, until it is recorded

schedulerVars == <<status, seqStatus, queue, collection, offered, held>>

TasksOf(s) == {t \in Task : SeqOf[t] = s}
Listed(t)  == SeqOf[t] \in collection

Init ==
    /\ status = [t \in Task |-> "INIT"] /\ seqStatus = [s \in TaskSeq |-> "INIT"]
    /\ queue = {} /\ collection = {} /\ offered = {}
    /\ held = NoTask

Assigned(S, st) == [t \in Task |-> IF t \in S THEN st ELSE status[t]]

\* The tasks of S get status st, and their sequences theirs.
SetStatus(S, st) ==
    LET concerned == {SeqOf[t] : t \in S} IN
    /\ status' = Assigned(S, st)
    /\ seqStatus' = [s \in TaskSeq |->
           IF s \in concerned THEN ComputeStatus({status'[t] : t \in TasksOf(s)})
                              ELSE seqStatus[s]]

-----------------------------------------------------------------------------
(* Those who submit, revoke and clear *)

\* A sequence comes once.  It is listed if none of its tasks is turned down.
Submit(s) ==
    LET accepted == queue' \ queue IN
    /\ s \notin offered /\ offered' = offered \cup {s}
    /\ accepted \subseteq TasksOf(s) /\ queue \subseteq queue'
    /\ status' = Assigned(accepted, "IDLE")
    /\ \/ collection' = collection
       \/ collection' = collection \cup {s} /\ accepted = TasksOf(s)
    /\ UNCHANGED <<seqStatus, held>>

\* Flushed, removed and cleared: without a trace in the statuses.
Drop ==
    /\ UNCHANGED <<held, offered, status, seqStatus>>
    /\ queue' \subseteq queue /\ collection' \subseteq collection

\* Revoked: those that wait are CANCELED, and no longer queued.
Revoke ==
    LET revoked == {t \in Task : status'[t] # status[t]} IN
    /\ UNCHANGED <<held, offered, collection>>
    /\ queue' \subseteq queue \ revoked
    /\ \A t \in revoked : Listed(t) /\ status[t] = "IDLE"
    /\ SetStatus(revoked, "CANCELED")

-----------------------------------------------------------------------------
(* The task thread *)

\* On its way through the queue the thread marks tasks that have timed out, and
\* throws out such tasks, at once or later; their sequences are not told.
Expire(spared) ==
    LET expired == {t \in queue : status'[t] = "EXPIRED"} IN
    /\ expired \cap spared = {}
    /\ status' = Assigned(expired, "EXPIRED")
    /\ queue' \subseteq queue /\ queue \ queue' \subseteq expired \cup spared
    /\ UNCHANGED <<seqStatus, collection, offered>>

Scan == held = NoTask /\ Expire({}) /\ UNCHANGED held

\* One task at a time, once, and after those it depends on.
Take(t) ==
    /\ held = NoTask /\ held' = t
    /\ t \in queue \ queue' /\ status[t] = "IDLE"
    /\ Deps[t] # {} => Listed(t)
    /\ \A d \in Deps[t] : status[d] = "COMPLETED"
    /\ Expire({t})

\* The outcome is recorded unless the sequence was cleared meanwhile.
Record(outcome) ==
    /\ held # NoTask /\ held' = NoTask
    /\ outcome = "RUNNING" => held \in Asynch
    /\ outcome = "COMPLETED" => held \notin Asynch
    /\ SetStatus({t \in {held} : Listed(t)}, outcome)
    /\ UNCHANGED <<queue, collection, offered>>

-----------------------------------------------------------------------------
(* Sub-elements *)

\* A report is for all listed tasks that watch the attribute, whoever started
\* the work and whatever became of them.
Report(a, report) ==
    LET told == {t \in Watching[a] : Listed(t)} IN
    /\ UNCHANGED <<held, offered, collection, queue>>
    /\ told # {}
    /\ SetStatus(told, report)

-----------------------------------------------------------------------------
Next ==
    \/ Drop
    \/ \E s \in TaskSeq : Submit(s)
    \/ \E t \in queue : Take(t)
    \/ \E outcome \in {"RUNNING", "COMPLETED", "FAILED"} : Record(outcome)
    \/ \E a \in Attr, report \in Reports : Report(a, report)
    \/ Scan \/ Revoke

Spec == Init /\ [][Next]_schedulerVars
=============================================================================
