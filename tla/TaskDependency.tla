--------------------------- MODULE TaskDependency ----------------------------
(***************************************************************************)
(* TaskSequence::SetTaskDependency: the dependencies among the tasks of a  *)
(* sequence are checked for cycles, the tasks sorted topologically, and    *)
(* dependent tasks get the latest time at which they may start and end.    *)
(*                                                                         *)
(* One call, in steps: its loops over the tasks, and the recursion of the  *)
(* two depth-first searches as a call stack, so that what they compute can *)
(* be proved for sequences of any length.  A dependency matrix has one row *)
(* per task: the indexes (from 0) of the tasks it depends on, in any order *)
(* and maybe repeated.                                                     *)
(***************************************************************************)
EXTENDS TaskData, Sequences, SequencesExt

CONSTANTS
    N,        \* the number of tasks of the sequence
    Rows,     \* the rows a dependency matrix may have, over 0..N-1
    Specs,    \* what a task may be set up with: act, dur (seconds), prio
    Now       \* the time of the call

Index == 0..(N - 1)

\* Setters of times turn down the past or count from their own time; the call
\* comes while no task has expired.
ASSUME DependencyAssumption ==
    /\ N \in Nat \ {0} /\ Now \in Nat \ {0}
    /\ Rows \subseteq Seq(Index)
    /\ \A s \in Specs : /\ s.act \in Nat /\ s.dur \in Nat \ {0} /\ s.prio \in Int
                        /\ s.act = NoTime \/ s.act + s.dur >= Now

VARIABLES
    matrix,     \* the dependency matrix the caller gives
    spec,       \* spec[i]: how task i was set up
    stage,      \* where the call is, see Stage
    loop,       \* the index of its loop over the tasks
    path,       \* the tasks whose search is under way, the innermost last
    at,         \* at[i]: the entry of the row of task i that comes next
    visited,    \* the tasks this search has visited
    order,      \* sorting_index
    latest,     \* max_expiration_time
    tasks       \* tasks[i]: the task as CompareTask and the scheduler see it

searchVars == <<path, at, visited>>
vars == <<matrix, spec, stage, loop, searchVars, order, latest, tasks>>

\* In HasCyclicDependencies, in FindSortingIndexes, setting times; the outcomes.
Stage == {"check", "sort", "times", "refused", "accepted"}

FirstEntries == [i \in Index |-> 1]

\* The setters of delay and duration: expiration counts from the activation.
Created(i) ==
    [seq |-> "sequence", index |-> i, deps |-> {}, act |-> spec[i].act,
     startMax |-> NoTime, prio |-> spec[i].prio, key |-> i,
     exp |-> (IF spec[i].act = NoTime THEN Now ELSE spec[i].act) + spec[i].dur]

Init ==
    /\ matrix \in [Index -> Rows]
    /\ spec \in [Index -> Specs]
    /\ stage = "check" /\ loop = 0
    /\ path = <<>> /\ at = FirstEntries /\ visited = {}
    /\ order = <<>> /\ latest = NoTime
    /\ tasks = [i \in Index |-> Created(i)]

-----------------------------------------------------------------------------
(* The searches: for cycles (CheckCyclicDependencies) and to sort (Sorter) *)

Searching == stage \in {"check", "sort"}
Here      == Last(path)
Entries   == 1..Len(matrix[Here])
Met       == matrix[Here][at[Here]]

Call(i) == visited' = visited \cup {i} /\ path' = Append(path, i)

\* The loops of HasCyclicDependencies and FindSortingIndexes: a search starts
\* from each task not visited yet.
SearchFrom ==
    /\ Searching /\ path = <<>> /\ loop < N
    /\ loop' = loop + 1
    /\ IF loop \in visited THEN UNCHANGED <<path, visited>> ELSE Call(loop)
    /\ UNCHANGED <<matrix, spec, stage, at, order, latest, tasks>>

\* Faulty: a task met twice is taken for a cycle.
VisitedBefore(i) == i \in visited

\* recStack: the search came to this task through i.
OnCallStack(i) == i \in ToSet(path)

\* The next entry of the row: the search goes on from a task not visited yet.
FollowDependency ==
    /\ Searching /\ path # <<>> /\ at[Here] \in Entries
    /\ at' = [at EXCEPT ![Here] = @ + 1]
    /\ \/ Met \notin visited /\ Call(Met)
       \/ /\ Met \in visited
          /\ stage = "check" => ~OnCallStack(Met)
          /\ UNCHANGED <<path, visited>>
    /\ UNCHANGED <<matrix, spec, stage, loop, order, latest, tasks>>

\* CheckCyclicDependencies and all its callers return true.
FindCycle ==
    /\ stage = "check" /\ path # <<>> /\ at[Here] \in Entries
    /\ OnCallStack(Met)
    /\ stage' = "refused"
    /\ UNCHANGED <<matrix, spec, loop, searchVars, order, latest, tasks>>

\* Faulty: read the stack of finished tasks from its top.
NotedFirst(i) == <<i>> \o order

\* Sorter pushes a task after all it depends on, and FindSortingIndexes reads
\* the stack from its bottom.
Noted(i) == Append(order, i)

Return ==
    /\ Searching /\ path # <<>> /\ at[Here] \notin Entries
    /\ path' = Front(path)
    /\ order' = IF stage = "sort" THEN Noted(Here) ELSE order
    /\ UNCHANGED <<matrix, spec, stage, loop, at, visited, latest, tasks>>

\* No cycle: the matrix is kept, and each task told what it depends on.
BeginSort ==
    /\ stage = "check" /\ path = <<>> /\ loop = N
    /\ tasks' = [i \in Index |-> [tasks[i] EXCEPT !.deps = ToSet(matrix[i])]]
    /\ stage' = "sort" /\ loop' = 0 /\ at' = FirstEntries /\ visited' = {}
    /\ UNCHANGED <<matrix, spec, path, order, latest>>

-----------------------------------------------------------------------------
(* Times *)

LaterOf(s, t) == IF s < t THEN t ELSE s

BeginTimes ==
    /\ stage = "sort" /\ path = <<>> /\ loop = N
    /\ stage' = "times" /\ loop' = 0 /\ at' = FirstEntries
    /\ UNCHANGED <<matrix, spec, path, visited, order, latest, tasks>>

\* Faulty: take the tasks in the order they were added.
InOrderAdded(k) == k

\* The task the loop has come to.
InSortedOrder(k) == order[k + 1]

\* The expiration time of a dependency, or exp_max_expiration_time.
DueTime(j) == IF tasks[j].deps = {} THEN tasks[j].exp ELSE tasks[j].startMax + spec[j].dur

\* The inner loop: the next dependency of task i.
LookAtDependency(i) ==
    /\ at[i] \in 1..Len(matrix[i])
    /\ latest' = LaterOf(latest, DueTime(matrix[i][at[i]]))
    /\ at' = [at EXCEPT ![i] = @ + 1]
    /\ UNCHANGED <<loop, tasks>>

\* SetExpirationTime turns down a time that is past or not after the activation.
Expiring(task, t) ==
    IF t < Now \/ (task.act # NoTime /\ t <= task.act) THEN task.exp ELSE t

\* A dependent task may have to wait for the last of its dependencies, which
\* may have to wait in turn; it then has its full duration.
SetTimes(i) ==
    LET start == LaterOf(latest, tasks[i].act) IN
    /\ at[i] \notin 1..Len(matrix[i])
    /\ tasks' = IF tasks[i].deps = {} THEN tasks
                ELSE [tasks EXCEPT ![i].startMax = start,
                                   ![i].exp = Expiring(tasks[i], start + spec[i].dur)]
    /\ loop' = loop + 1 /\ latest' = NoTime
    /\ UNCHANGED at

ComputeTimes ==
    /\ stage = "times" /\ loop < Len(order)
    /\ \E i \in {InSortedOrder(loop)} : LookAtDependency(i) \/ SetTimes(i)
    /\ UNCHANGED <<matrix, spec, stage, path, visited, order>>

Accept ==
    /\ stage = "times" /\ loop = Len(order)
    /\ stage' = "accepted"
    /\ UNCHANGED <<matrix, spec, loop, searchVars, order, latest, tasks>>

Next ==
    \/ SearchFrom \/ FollowDependency \/ FindCycle \/ Return
    \/ BeginSort \/ BeginTimes \/ ComputeTimes \/ Accept

Spec == Init /\ [][Next]_vars

-----------------------------------------------------------------------------
(* Properties *)

\* A set of tasks that wait for each other and will never run.
IsDeadlocked(S) == S # {} /\ \A i \in S : ToSet(matrix[i]) \cap S # {}

\* A matrix is refused when it makes tasks wait for each other, and only then
\* (HasCyclicDependencies): shared dependencies, repeated or redundant ones are
\* no cycles.
CyclesRefused ==
    /\ stage = "refused" => \E S \in SUBSET Index : IsDeadlocked(S)
    /\ stage = "accepted" => \A S \in SUBSET Index : ~IsDeadlocked(S)

\* Every task comes once in the sorted sequence, after its dependencies
\* (FindSortingIndexes, Sorter).
SortedTopologically ==
    stage = "accepted" =>
        /\ ToSet(order) = Index
        /\ \A k, l \in 1..Len(order) : order[k] = order[l] => k = l
        /\ \A k \in 1..Len(order) :
              ToSet(matrix[order[k]]) \subseteq {order[l] : l \in 1..(k - 1)}

\* The times of each dependent task fit those of its dependencies: it may start
\* when the last of them has expired but not before its activation time, and
\* always has its full duration after that -- so that none is EXPIRED while the
\* tasks it waits for are still in time (SetTaskDependency, IsExpirationReached).
TimesFit ==
    stage = "accepted" =>
        \A i \in Index : matrix[i] # <<>> =>
            LET due == {tasks[j].exp : j \in ToSet(matrix[i])} \cup {tasks[i].act}
            IN  /\ tasks[i].startMax \in due
                /\ \A t \in due : t <= tasks[i].startMax
                /\ tasks[i].exp = tasks[i].startMax + spec[i].dur

\* CompareTask orders the tasks totally, as the std::set of the queue requires,
\* with the dependencies of a task before it.
QueueOrderTotal ==
    stage = "accepted" =>
        \A i, j \in Index :
            /\ i # j => (Before(tasks[i], tasks[j]) <=> ~Before(tasks[j], tasks[i]))
            /\ ~Before(tasks[i], tasks[i])
            /\ DependsOn(tasks[j], tasks[i]) => Before(tasks[i], tasks[j])
            /\ \A k \in Index : Before(tasks[i], tasks[j]) /\ Before(tasks[j], tasks[k])
                                   => Before(tasks[i], tasks[k])
=============================================================================
