------------------------------ MODULE Starter ------------------------------
(***************************************************************************)
(* LMCStarter: starting the device servers of a host level by level,       *)
(* watching them, and starting again one that has failed.                  *)
(*                                                                         *)
(* Commands and the polled attribute Servers run one at a time (the Tango  *)
(* monitor of the device).  Beside them, each call of startProcesses has a *)
(* StartProcessThread that forks its servers one after the other, each     *)
(* server has a PingThread, and CheckProcessUtil keeps the list of the     *)
(* processes of the host.  Threads and commands meet at the levels still   *)
(* to be started (StartProcessShared) and at what the ping threads found.  *)
(***************************************************************************)
EXTENDS Naturals, SequencesExt

CONSTANTS
    Server,         \* the controlled servers ...
    Place,          \* ... and their places in the vector servers
    Level,          \* Level[s]: startup_level, from 1
    NbLevels,       \* nbStartupLevels
    MaxThreads,     \* bound: the threads that start processes at one time
    MaxCommands,    \* bound: the commands of clients
    MaxTrouble      \* bound: failures of servers and mishaps in starting them

ASSUME StarterAssumption ==
    /\ Place \in [Server -> Nat]
    /\ \A r, s \in Server : Place[r] = Place[s] => r = s
    /\ NbLevels \in Nat
    /\ Level \in [Server -> 1..NbLevels]
    /\ MaxThreads \in Nat /\ NbLevels <= MaxThreads
    /\ MaxCommands \in Nat /\ MaxTrouble \in Nat

VARIABLES
    proc,      \* the process of a server
    ping,      \* the state in PingThreadData
    state,     \* ControlledServer.state, set when Servers is polled
    stopped,   \* the servers with stopped set
    longAgo,   \* those with started_time longer ago than autoRestartDuration
    levels,    \* start_process_thread_levels
    threads,   \* the threads that start processes
    commands,  \* how many commands there were ...
    startAll,  \* ... and whether a DevStartAll was among them
    trouble,   \* the failures and mishaps
    thwarted   \* history: the servers that are down and whose start came to nothing

hostVars   == <<proc, trouble>>
serverVars == <<state, stopped, longAgo>>
startVars  == <<levels, threads, thwarted>>
clientVars == <<commands, startAll>>
vars == <<hostVars, ping, serverVars, startVars, clientVars>>

\* A process has ended by the Kill command, or has failed; or it runs, and
\* answers or does not.
Ended   == {"stopped", "failed"}
Running == {"silent", "up"}
Proc    == Ended \cup Running

DevState == {"ON", "MOVING", "FAULT"}

Thread == 1..MaxThreads

\* A slot for a thread is free, or its thread waits for its turn, forks servers one by
\* one, or has come to the end; or it was announced and could not be created.
Phase  == {"free", "unborn", "wait", "loop", "last"}
Free   == [level |-> 0, phase |-> "free", todo |-> {}]

\* The levels there may be: 0 stands for a single server.
Levels == 0..NbLevels

Alive(t) == threads[t].phase # "free"

Down(S) == {s \in S : proc[s] \in Ended}

\* What v_np holds for level l: the servers of that level that are down.
ToStart(l) == {s \in Server : Level[s] = l /\ state[s] = "FAULT"}

First(todo) == CHOOSE s \in todo : \A r \in todo : Place[s] <= Place[r]

-----------------------------------------------------------------------------
(* StartProcessShared *)

LevelIsStillActive(l) == \E i \in 1..Len(levels) : levels[i] = l

\* remove_level: the first entry of the level goes, if there is one.
WithoutLevel(l) == RemoveFirst(levels, l)

Unused == CHOOSE t \in Thread : ~Alive(t)
Room   == \E t \in Thread : ~Alive(t)

\* Faulty: single servers wait as well.
FirstPhaseOfAll(l) == IF l # 1 THEN "wait" ELSE "loop"

\* Faulty: the second level does not wait.
FirstPhaseLater(l) == IF l > 2 THEN "wait" ELSE "loop"

\* Only the levels above the first wait for the ones before.
FirstPhase(l) == IF l > 1 THEN "wait" ELSE "loop"

\* What a thread begins with; with nothing, when it could not be created.
NewThread(l, todo) ==
    [level |-> l, phase |-> IF todo = {} THEN "unborn" ELSE FirstPhase(l), todo |-> todo]

\* startProcesses: the level is announced, then its thread begins with the servers,
\* or cannot be created, and the level stays.
StartProcesses(begun, l) ==
    /\ Room
    /\ levels' = Append(levels, l)
    /\ threads' = [threads EXCEPT ![Unused] = NewThread(l, begun)]

\* The start of servers comes to nothing: a mishap, if there are any.
ComesToNothing(S) ==
    /\ thwarted' = thwarted \cup Down(S)
    /\ IF S = {} THEN UNCHANGED trouble
                ELSE trouble < MaxTrouble /\ trouble' = trouble + 1

\* Of the servers todo those that lack their executable are left out by
\* processCouldStart; a thread begins with the others, unless none is left or it
\* cannot be created.
TryToStart(todo, begun, l) ==
    \E prepared \in SUBSET todo :
        /\ begun \in {prepared, {}}
        /\ IF prepared = {} THEN UNCHANGED <<levels, threads>>
                           ELSE StartProcesses(begun, l)
        /\ ComesToNothing(todo \ begun)

-----------------------------------------------------------------------------
\* init_device has found the servers and called dev_start_all for each level;
\* servers that outlived an earlier Starter run already.  Mishaps of the start-up
\* take all the trouble there may be.
Init ==
    /\ proc \in [Server -> {"stopped", "up"}]
    /\ ping = [s \in Server |-> IF proc[s] = "up" THEN "ON" ELSE "FAULT"]
    /\ state = ping
    /\ stopped = {} /\ longAgo = {}
    /\ levels \in UNION {[1..n -> 1..NbLevels] : n \in 0..NbLevels}
    /\ \A i, j \in 1..Len(levels) : i < j => levels[i] < levels[j]
    /\ \E prepared \in SUBSET Down(Server), unborn \in SUBSET (1..NbLevels) :
          LET begun == {s \in prepared : Level[s] \notin unborn}
          IN  /\ \A l \in 1..NbLevels :
                    LevelIsStillActive(l) <=> \E s \in prepared : Level[s] = l
              /\ unborn \subseteq {Level[s] : s \in prepared}
              /\ threads = [t \in Thread |->
                    IF t > Len(levels) THEN Free
                    ELSE NewThread(levels[t], {s \in begun : Level[s] = levels[t]})]
              /\ thwarted = Down(Server) \ begun
    /\ trouble = IF thwarted = {} THEN 0 ELSE MaxTrouble
    /\ commands = 0 /\ startAll = FALSE

-----------------------------------------------------------------------------
(* The host *)

\* A server answers, or no longer does.
Answers(s) ==
    /\ proc[s] = "silent"
    /\ proc' = [proc EXCEPT ![s] = "up"]
    /\ UNCHANGED <<trouble, ping, serverVars, startVars, clientVars>>

Hangs(s) ==
    /\ proc[s] = "up" /\ trouble < MaxTrouble
    /\ proc' = [proc EXCEPT ![s] = "silent"]
    /\ trouble' = trouble + 1
    /\ UNCHANGED <<ping, serverVars, startVars, clientVars>>

\* A server crashes, or HardKillServer kills it.
Fails(s) ==
    /\ proc[s] \in Running /\ trouble < MaxTrouble
    /\ proc' = [proc EXCEPT ![s] = "failed"]
    /\ trouble' = trouble + 1
    /\ UNCHANGED <<ping, serverVars, startVars, clientVars>>

\* autoRestartDuration is over; of a server that is down, nobody asks.
TimePasses(s) ==
    /\ s \notin longAgo /\ state[s] # "FAULT"
    /\ longAgo' = longAgo \cup {s}
    /\ UNCHANGED <<hostVars, ping, state, stopped, startVars, clientVars>>

-----------------------------------------------------------------------------
(* Watching the servers *)

\* dev_start: when it throws, the server keeps its marks.
StartOne(s) ==
    \E begun \in SUBSET {s} : /\ TryToStart({s}, begun, 0)
                             /\ stopped' = stopped \ begun
                             /\ longAgo' = longAgo \ begun

\* PingThread asks CheckProcessUtil whether the process is there and pings it.
\* The process list may be late, and not yet lack a process that has ended.
Ping(s, late) ==
    /\ late => proc[s] \in Ended /\ ping[s] # "FAULT"
    /\ ping' = [ping EXCEPT ![s] = IF proc[s] = "up" THEN "ON"
                                   ELSE IF proc[s] = "silent" \/ late THEN "MOVING"
                                   ELSE "FAULT"]
    /\ UNCHANGED <<hostVars, serverVars, startVars, clientVars>>

\* Faulty: only a server that answered just before can have failed.
RestartsFromOn(s) ==
    /\ ping[s] = "FAULT" /\ state[s] = "ON"
    /\ s \notin stopped /\ s \in longAgo

\* manage_changing_state: a server that was not stopped has failed, having run
\* for longer than autoRestartDuration.
Restarts(s) ==
    /\ ping[s] = "FAULT" /\ state[s] # "FAULT"
    /\ s \notin stopped /\ s \in longAgo

\* The poll of Servers takes over what the ping thread of s found.
ReadServer(s) ==
    /\ state' = [state EXCEPT ![s] = ping[s]]
    /\ IF Restarts(s)
       THEN StartOne(s)
       ELSE /\ longAgo' = IF ping[s] = "ON" /\ state[s] # "ON" THEN longAgo \ {s} ELSE longAgo
            /\ UNCHANGED <<startVars, stopped, trouble>>
    /\ UNCHANGED <<proc, ping, clientVars>>

\* What dev_state makes of it.
HostState ==
    IF levels # <<>> \/ \E s \in Server : state[s] = "MOVING" THEN "MOVING"
    ELSE IF \A s \in Server : state[s] = "ON" THEN "ON"
    ELSE IF \A s \in Server : state[s] # "ON" THEN "OFF"
    ELSE "ALARM"

-----------------------------------------------------------------------------
(* Commands *)

\* A client calls a command.
Called ==
    /\ commands < MaxCommands
    /\ commands' = commands + 1

\* DevStart is refused unless the server was found down.
DevStart(s) ==
    /\ Called
    /\ state[s] = "FAULT"
    /\ StartOne(s)
    /\ UNCHANGED <<proc, ping, state, startAll>>

\* Faulty: the server is not marked.
DevStopUnmarked(s) ==
    /\ Called
    /\ state[s] = "ON" /\ proc[s] = "up"
    /\ proc' = [proc EXCEPT ![s] = "stopped"]
    /\ UNCHANGED <<trouble, ping, serverVars, startVars, startAll>>

\* DevStop throws unless the server was found to answer and still does; if it is
\* killed after all, that is a failure to everybody.
DevStop(s) ==
    /\ Called
    /\ state[s] = "ON" /\ proc[s] = "up"
    /\ proc' = [proc EXCEPT ![s] = "stopped"]
    /\ stopped' = stopped \cup {s}
    /\ UNCHANGED <<trouble, ping, state, longAgo, startVars, startAll>>

\* DevStartAll does nothing when no server of the level is down.
DevStartAll(l) ==
    /\ Called
    /\ ToStart(l) # {}
    /\ \E begun \in SUBSET ToStart(l) : TryToStart(ToStart(l), begun, l)
    /\ startAll' = TRUE
    /\ UNCHANGED <<proc, ping, serverVars>>

\* The servers of level l that were found to answer.
FoundUp(l) == {s \in Server : Level[s] = l /\ state[s] = "ON"}

\* DevStopAll stops one after the other, and ends with an exception at the first
\* that does not answer any more.
StopsAt(l) ==
    {s \in FoundUp(l) : \A r \in FoundUp(l) : Place[r] <= Place[s] => proc[r] = "up"}

DevStopAll(l) ==
    /\ Called
    /\ levels' = WithoutLevel(l)
    /\ proc' = [s \in Server |-> IF s \in StopsAt(l) THEN "stopped" ELSE proc[s]]
    /\ stopped' = stopped \cup StopsAt(l)
    /\ UNCHANGED <<trouble, ping, state, longAgo, threads, thwarted, startAll>>

-----------------------------------------------------------------------------
(* StartProcessThread *)

\* Faulty: a level that has been removed waits to come first.
LevelBeginsFirst(t) ==
    /\ threads[t].phase = "wait"
    /\ levels # <<>> /\ Head(levels) = threads[t].level
    /\ threads' = [threads EXCEPT ![t].phase = "loop"]
    /\ UNCHANGED <<hostVars, ping, serverVars, levels, thwarted, clientVars>>

\* A level above the first begins when it comes first among the levels, or has
\* been removed.
LevelBegins(t) ==
    /\ threads[t].phase = "wait"
    /\ \/ levels # <<>> /\ Head(levels) = threads[t].level
       \/ ~LevelIsStillActive(threads[t].level)
    /\ threads' = [threads EXCEPT ![t].phase = "loop"]
    /\ UNCHANGED <<hostVars, ping, serverVars, levels, thwarted, clientVars>>

\* The next server is forked, unless fork or exec fails; of a server that runs
\* already, a second process does not last.  The thread then waits until it answers,
\* fails or takes longer than serverStartupTimeout.
Fork(t) ==
    /\ threads[t].phase = "loop" /\ threads[t].todo # {}
    /\ LevelIsStillActive(threads[t].level)
    /\ LET s == First(threads[t].todo)
       IN  /\ threads' = [threads EXCEPT ![t].todo = @ \ {s}]
           /\ \/ /\ proc' = IF proc[s] \in Ended THEN [proc EXCEPT ![s] = "silent"] ELSE proc
                 /\ thwarted' = thwarted \ {s}
                 /\ UNCHANGED trouble
              \/ ComesToNothing({s}) /\ UNCHANGED proc
    /\ UNCHANGED <<ping, serverVars, levels, clientVars>>

\* No server is left, or the level has been removed.
LoopEnds(t) ==
    /\ threads[t].phase = "loop"
    /\ threads[t].todo = {} \/ ~LevelIsStillActive(threads[t].level)
    /\ threads' = [threads EXCEPT ![t].phase = "last"]
    /\ thwarted' = thwarted \cup Down(threads[t].todo)
    /\ UNCHANGED <<hostVars, ping, serverVars, levels, clientVars>>

\* Faulty: only a level that was cut short is removed.
ThreadEndsQuietly(t) ==
    /\ threads[t].phase = "last"
    /\ levels' = IF threads[t].todo = {} THEN levels ELSE WithoutLevel(threads[t].level)
    /\ threads' = [threads EXCEPT ![t] = Free]
    /\ UNCHANGED <<hostVars, ping, serverVars, thwarted, clientVars>>

ThreadEnds(t) ==
    /\ threads[t].phase = "last"
    /\ levels' = WithoutLevel(threads[t].level)
    /\ threads' = [threads EXCEPT ![t] = Free]
    /\ UNCHANGED <<hostVars, ping, serverVars, thwarted, clientVars>>

ThreadStep(t) == LevelBegins(t) \/ Fork(t) \/ LoopEnds(t) \/ ThreadEnds(t)

-----------------------------------------------------------------------------
Next ==
    \/ \E s \in Server : \/ Answers(s) \/ Hangs(s) \/ Fails(s) \/ TimePasses(s)
                         \/ \E late \in BOOLEAN : Ping(s, late)
                         \/ ReadServer(s) \/ DevStart(s) \/ DevStop(s)
    \/ \E l \in Levels : DevStartAll(l) \/ DevStopAll(l)
    \/ \E t \in Thread : ThreadStep(t)

\* The threads run, those that wait wake up every half second; the process list is
\* read every two seconds, and Servers is polled.
Fairness ==
    /\ \A t \in Thread : WF_vars(ThreadStep(t))
    /\ \A s \in Server : WF_vars(Ping(s, FALSE)) /\ WF_vars(ReadServer(s))

Spec == Init /\ [][Next]_vars
FairSpec == Spec /\ Fairness

-----------------------------------------------------------------------------
(* Properties *)

TypeOK ==
    /\ proc \in [Server -> Proc]
    /\ ping \in [Server -> DevState] /\ state \in [Server -> DevState]
    /\ stopped \subseteq Server /\ longAgo \subseteq Server
    /\ levels \in Seq(Levels)
    /\ threads \in [Thread -> [level : Levels, phase : Phase, todo : SUBSET Server]]
    /\ \A t \in Thread : threads[t].phase = "wait" => threads[t].level > 1
    /\ commands \in 0..MaxCommands /\ startAll \in BOOLEAN
    /\ trouble \in 0..MaxTrouble /\ thwarted \subseteq Down(Server)

\* A level stays behind, for which later ones wait for ever, only where a thread
\* could not be created: all the levels announced have each a thread of its own that
\* will remove it, or one that was never created, whatever DevStopAll and threads of
\* the same level remove (push_back_level, remove_level).
LevelsOwned ==
    \E owner \in [1..Len(levels) -> Thread] :
        /\ \A i \in 1..Len(levels) : Alive(owner[i]) /\ threads[owner[i]].level = levels[i]
        /\ \A i, j \in 1..Len(levels) : owner[i] = owner[j] => i = j

\* The start-up is in order, also while single servers are started, stopped and
\* started again: until somebody calls DevStartAll, a level that is past its wait
\* and has not been stopped has no lower one still active (run of
\* StartProcessThread).
LevelsInOrder ==
    ~startAll =>
        \A t \in Thread : threads[t].phase = "loop" /\ LevelIsStillActive(threads[t].level)
            => \A l \in 1..threads[t].level - 1 : ~LevelIsStillActive(l)

\* A server is at rest: DevStop has ended it, or it was never started, and no thread
\* has it to start.
AtRest(s) == proc[s] = "stopped" /\ \A t \in Thread : s \notin threads[t].todo

\* The Starter does not by itself start a server that is at rest, whatever polls and
\* pings of different age tell it: only a command does.  A thread that still has the
\* server to start when DevStop ends it does fork it again.
StoppedStaysDown ==
    [][\A s \in Server : AtRest(s) /\ UNCHANGED commands => AtRest(s)']_vars

\* A server that fails after autoRestartDuration, and is not marked stopped, is
\* started again, whether the ping thread saw it silent in between or not and
\* whatever else is being started, unless the start comes to nothing: by a mishap,
\* or because DevStopAll has removed the level.  DevStartAll leaves the mark of a
\* server that DevStop has stopped before: of such a server nothing is said.
RestartUnlessStopped ==
    \A s \in Server :
        (proc[s] = "failed" /\ state[s] = "ON" /\ s \in longAgo \ stopped)
            ~> proc[s] # "failed" \/ s \in thwarted

\* A level has stayed behind, as its thread could not be created.
LevelLeft == \E t \in Thread : threads[t].phase = "unborn" /\ LevelIsStillActive(threads[t].level)

\* When commands and failures have come to an end, so do the threads: no level waits
\* for ever for another, whatever DevStopAll has removed, except for one that was
\* left without a thread.
EveryThreadEnds ==
    <>[](\A t \in Thread : threads[t].phase \in {"free", "unborn"}) \/ <>[]LevelLeft

\* When all servers are up for good, so says the state of the host in the end, unless
\* a level was left without a thread.
HostSettles ==
    <>[](\A s \in Server : proc[s] = "up") => <>[](HostState = "ON") \/ <>[]LevelLeft
=============================================================================
