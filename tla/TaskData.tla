------------------------------ MODULE TaskData ------------------------------
(***************************************************************************)
(* What the task scheduler knows about a task and computes from it: the    *)
(* status codes of class Task, the order in which the queue keeps tasks    *)
(* (CompareTask), and the status a sequence derives from the statuses of   *)
(* its tasks (TaskSequence::ComputeStatus).  No state: the modules of the  *)
(* scheduler extend this one.                                              *)
(*                                                                         *)
(* A task is a record with                                                 *)
(*   seq, index  the sequence it belongs to and its position there (from   *)
(*               0; AddTask numbers tasks in the order they are added)     *)
(*   deps        the positions of the tasks of its sequence it waits for   *)
(*   act         activation time, NoTime when it has none                  *)
(*   startMax    exp_max_activation_time, meaningful when deps # {}        *)
(*   exp         expiration time (every task has one)                      *)
(*   prio        priority, larger first                                    *)
(*   key         stands for the pair (cmd_name, id), unique to a task      *)
(* Times are in whole seconds, which is what yat::Time arithmetic on       *)
(* "duration/1000" leaves of them.                                         *)
(***************************************************************************)
EXTENDS Integers

\* The status codes of Task: UNKNOWN=0 .. CANCELED=8 of the source.
Status == {"UNKNOWN", "INIT", "IDLE", "RUNNING", "COMPLETED", "FAILED",
           "ABORTED", "EXPIRED", "CANCELED"}

\* Tasks without activation time: times proper start at 1.
NoTime == 0

-----------------------------------------------------------------------------
\* Task::DependOnTask.
DependsOn(a, b) == a.seq = b.seq /\ b.index \in a.deps

\* The time by which tasks with and without dependencies are compared: a
\* dependent task counts from the latest time its dependencies may end.
StartTime(a) == IF a.deps # {} THEN a.startMax ELSE a.act

\* "No activation set": such a task precedes every task that has to wait.
StartsAtOnce(a) == a.deps = {} /\ a.act = NoTime

\* The tie break of CompareTask: priority, expiration, then (name, id).
BeforeAmongEqualStarts(a, b) ==
    \/ a.prio > b.prio
    \/ a.prio = b.prio /\ a.exp < b.exp
    \/ a.prio = b.prio /\ a.exp = b.exp /\ a.key < b.key

\* CompareTask::comparatorFcn: dependencies first, then the start times,
\* then the tie break.
Before(a, b) ==
    /\ ~DependsOn(a, b)
    /\ \/ DependsOn(b, a)
       \/ StartsAtOnce(a) /\ ~StartsAtOnce(b)
       \/ /\ StartsAtOnce(a) <=> StartsAtOnce(b)
          /\ \/ ~StartsAtOnce(a) /\ StartTime(a) < StartTime(b)
             \/ /\ StartsAtOnce(a) \/ StartTime(a) = StartTime(b)
                /\ BeforeAmongEqualStarts(a, b)

-----------------------------------------------------------------------------
(* What Before needs of the tasks of a queue *)

\* Times and priorities can be compared, and no two tasks have the same key.
Comparable(S) ==
    /\ \A a \in S : {a.act, a.startMax, a.exp, a.prio, a.key} \subseteq Int
    /\ \A a, b \in S : a.key = b.key => a = b

\* SetTaskDependency lets a task start after those it depends on.
StartsAfterDependencies(S) ==
    \A a, b \in S : DependsOn(b, a) => StartsAtOnce(a) \/ StartTime(a) < StartTime(b)

-----------------------------------------------------------------------------
\* TaskSequence::ComputeStatus over the set S of the statuses its tasks have.
\* The source runs through the conditions in the opposite order and lets the
\* last assignment win; here the winner comes first.
ComputeStatus(S) ==
    LET failed  == S \cap {"FAILED", "ABORTED"} # {}
        started == \/ "RUNNING" \in S
                   \/ {"COMPLETED", "IDLE"} \subseteq S
    IN  IF "EXPIRED" \in S /\ ~failed THEN "EXPIRED"
        ELSE IF "CANCELED" \in S      THEN "CANCELED"
        ELSE IF failed                THEN "FAILED"
        ELSE IF started               THEN "RUNNING"
        ELSE IF S = {"IDLE"}          THEN "IDLE"
        ELSE IF S = {"COMPLETED"}     THEN "COMPLETED"
        ELSE "UNKNOWN"
=============================================================================
