---------------------------- MODULE DishManager ----------------------------
(***************************************************************************)
(* The dish commands and event handlers of DishManager: the task sequences *)
(* they submit to the scheduler, the progress attributes by which they     *)
(* guard themselves, and the polled command that copies the statuses of    *)
(* task sequences into these attributes.                                   *)
(*                                                                         *)
(* Two threads of the device meet here.  The task thread runs the tasks of *)
(* the queue, and event handlers are tasks, too.  The others run commands  *)
(* of clients and polled commands, which Tango lets in one at a time: dev  *)
(* stands for that monitor, and for how far the command that holds it got. *)
(*                                                                         *)
(* The scheduler is cut down to what module TaskManager shows of it: any   *)
(* runnable task may be next, delays are over at any time, a queued task   *)
(* may expire.  The quota of the queue is never reached here, and the      *)
(* attributes that switch a handler off leave it on.                       *)
(***************************************************************************)
EXTENDS TaskData, FiniteSets

CONSTANTS
    Modes,          \* the values dishMode may have when commands are sent
    Scenarios,      \* sets of what may happen, one per behaviour: see Event
    MaxSequences,   \* bound: the task sequences submitted in all
    MaxHandlers,    \* bound: the event handlers pending at a time
    NoKind, NoTask  \* model values

-----------------------------------------------------------------------------
(* The sequences: their tasks, one operator per command or handler *)

SetStandbyLPMode ==
    {"SetSPFStandbyLPModeTask", "SetDSStandbyLPModeTask", "SetRxStandbyLPModeTask"}
SetStandbyFPMode ==
    {"SetSPFOperateModeTask", "SetDSStandbyFPModeTask", "SetRxStandbyFPModeTask"}
SetOperateMode ==
    {"StartRxCaptureTask", "SetDSPointModeTask", "SetSPFLnaPowerOnTask"}
SetMaintenanceMode ==
    {"SetRxMaintenanceModeTask", "SetDSMaintenanceModeTask", "SetSPFMaintenanceModeTask"}
SetStowMode ==
    {"SetRxStandbyLPModeTask", "SetDSStowModeTask", "SetSPFStandbyLPModeTask"}
ConfigureBand ==
    {"ConfigureRxBandTask", "SynchroniseRxBandTask", "SetIndexerPositionTask",
     "SetSPFLnaPowerOnTask", "SetSPFBandInFocusTask"}
SetStandbyFPModeOnBandError ==
    {"SetSPFOperateModeTask", "SetDSStandbyFPModeTask", "SetRxStandbyFPModeTask"}
HandleESTOPEvent ==
    {"SetSPFOperateModeTask", "SetRxStandbyFPModeTask"}
ShutdownOnPowerCut ==
    {"SetRxStandbyLPModeTask", "ShutdownRXPUTask", "PowerOffRXPUTask",
     "SetSPFStandbyLPModeTask", "ShutdownSPFCTask", "PowerOffSPFCTask"}
StartupOnPowerRestore ==
    {"PowerOnRXPUTask", "PowerOnSPFCTask"}

Tasks == [SetStandbyLPMode            |-> SetStandbyLPMode,
          SetStandbyFPMode            |-> SetStandbyFPMode,
          SetOperateMode              |-> SetOperateMode,
          SetMaintenanceMode          |-> SetMaintenanceMode,
          SetStowMode                 |-> SetStowMode,
          ConfigureBand               |-> ConfigureBand,
          SetStandbyFPModeOnBandError |-> SetStandbyFPModeOnBandError,
          HandleESTOPEvent            |-> HandleESTOPEvent,
          ShutdownOnPowerCut          |-> ShutdownOnPowerCut,
          StartupOnPowerRestore       |-> StartupOnPowerRestore]

Kind == DOMAIN Tasks
Name == UNION {Tasks[k] : k \in Kind}

\* Faulty: power off without having shut down.
NeedsLess(k, n) ==
    CASE k = "ShutdownOnPowerCut" /\ n = "ShutdownRXPUTask" -> {"SetRxStandbyLPModeTask"}
      [] k = "ShutdownOnPowerCut" /\ n = "ShutdownSPFCTask" -> {"SetSPFStandbyLPModeTask"}
      [] OTHER -> {}

\* The dependency matrices of handle_power_cut_event and ConfigureBand.
Needs(k, n) ==
    CASE k = "ShutdownOnPowerCut" /\ n = "ShutdownRXPUTask" -> {"SetRxStandbyLPModeTask"}
      [] k = "ShutdownOnPowerCut" /\ n = "PowerOffRXPUTask" -> {"ShutdownRXPUTask"}
      [] k = "ShutdownOnPowerCut" /\ n = "ShutdownSPFCTask" -> {"SetSPFStandbyLPModeTask"}
      [] k = "ShutdownOnPowerCut" /\ n = "PowerOffSPFCTask" -> {"ShutdownSPFCTask"}
      [] k = "ConfigureBand" /\ n = "SynchroniseRxBandTask" -> {"ConfigureRxBandTask"}
      [] k = "ConfigureBand" /\ n \in {"SetSPFLnaPowerOnTask", "SetSPFBandInFocusTask"}
            -> {"SetIndexerPositionTask"}
      [] OTHER -> {}

\* The tasks that only start the work of a sub-element, which then reports on
\* it in a progress attribute.  The attribute depends on the task alone.
Asynch == {"SetSPFStandbyLPModeTask", "SetDSStandbyLPModeTask",
           "SetSPFOperateModeTask", "SetDSStandbyFPModeTask",
           "SetDSPointModeTask", "SetSPFMaintenanceModeTask",
           "SetDSStowModeTask", "SetIndexerPositionTask"}

\* The orders that handle_power_restore_event revokes, and those it submits.
PowerDown == {"ShutdownRXPUTask", "PowerOffRXPUTask",
              "ShutdownSPFCTask", "PowerOffSPFCTask"}
PowerUp   == StartupOnPowerRestore

\* The modes a command is allowed in, and the one that makes it superfluous.
AllowedModes(k) ==
    CASE k = "SetStandbyFPMode"   -> Modes \cap {"STANDBY-LP", "STANDBY-FP", "MAINTENANCE",
                                                 "OPERATE", "STOW"}
      [] k = "SetOperateMode"     -> Modes \cap {"STANDBY-FP", "OPERATE"}
      [] k = "SetMaintenanceMode" -> Modes \cap {"STANDBY-LP", "STANDBY-FP", "MAINTENANCE"}
      [] k = "ConfigureBand"      -> Modes \cap {"STANDBY-FP", "OPERATE", "STOW"}
      [] k = "SetStandbyFPModeOnBandError" -> Modes \cap {"OPERATE"}
      [] OTHER                    -> Modes

IsTargetMode(k, mode) ==
    \/ k = "SetStandbyLPMode"   /\ mode = "STANDBY-LP"
    \/ k = "SetStandbyFPMode"   /\ mode = "STANDBY-FP"
    \/ k = "SetOperateMode"     /\ mode = "OPERATE"
    \/ k = "SetMaintenanceMode" /\ mode = "MAINTENANCE"
    \/ k = "SetStowMode"        /\ mode = "STOW"

HandlerKind == {"HandleESTOPEvent", "ShutdownOnPowerCut", "StartupOnPowerRestore"}

\* A client sends a dish command; the mains are cut, or back again; a task fails;
\* a queued task expires; an operator flushes the queue, resets the dish tasks or
\* resets the dish mode; the telescope manager is lost; the emergency stop is
\* pressed.
Event == (Kind \ HandlerKind)
            \cup {"mains", "fail", "expire", "flush", "resetTasks", "resetMode",
                  "tmLoss", "estop"}

ASSUME ConstantAssumption ==
    /\ Scenarios \subseteq SUBSET Event
    /\ MaxSequences \in Nat /\ MaxHandlers \in Nat
    /\ NoKind \notin Kind
    /\ NoTask \notin (1..MaxSequences) \X Name
-----------------------------------------------------------------------------
VARIABLES
    submitted,   \* how many sequences were submitted; they are numbered
    kind,        \* kind[i]: the command or handler that submitted sequence i
    status,      \* status[i][n]: the status of task n of sequence i
    seqStatus,   \* seqStatus[i]: TaskSequence::status
    collection,  \* the sequences in the list of the scheduler
    queue,       \* the tasks <<i, n>> in its queue
    handlers,    \* the event handlers in its queue
    pc,          \* where the task thread is
    current,     \* the task it runs
    working,     \* the asynchronous tasks sub-elements are working on
    progress,    \* progress[k]: the progress attribute of the sequences of k
    dev,         \* the polled or client command under way, see Dev
    reading,     \* what UpdateStatusAttrs has read and not written yet
    powered,     \* the controllers with power: of "rx" and "spf"
    halted,      \* those whose system was shut down
    seCtrlPowerStatus,
    mains,       \* FALSE while the mains are cut
    scenario     \* what may happen, chosen at the start

schedVars == <<submitted, kind, status, seqStatus, collection, queue, handlers>>
unitVars  == <<working, powered, halted, seCtrlPowerStatus, mains>>
devVars   == <<progress, dev, reading>>
vars == <<schedVars, pc, current, unitVars, devVars, scenario>>

Number == 1..MaxSequences
Unit == {"rx", "spf"}

\* The thread between tasks, in a task, or in the middle of a handler.
PC == {"idle", "run", "cutFlush", "cutAdd", "cutDone", "restoreRevoke",
       "restoreAdd", "restoreDone", "estopFlush", "estopAdd", "estopDone"}

\* No command under way; ResetDishTasks, ResetDishMode or the handling of the
\* loss of the telescope manager has flushed the queue; UpdateStatusAttrs has
\* read a status.
Dev == {"free", "resetTasks", "resetMode", "tmLoss", "update"}

NoReading == [of |-> NoKind, status |-> "UNKNOWN"]

\* The formula of seCtrlPowerStatus.
PowerStatus(on) == IF on = Unit THEN "ON" ELSE IF on = {} THEN "OFF" ELSE "CHANGING"

\* The device may be started at any time: also after a power cut, or during one.
Init ==
    /\ submitted = 0
    /\ kind = [i \in Number |-> NoKind]
    /\ status = [i \in Number |-> [n \in Name |-> "INIT"]]
    /\ seqStatus = [i \in Number |-> "INIT"]
    /\ collection = {} /\ queue = {} /\ handlers = {}
    /\ pc = "idle" /\ current = NoTask
    /\ working = {}
    /\ progress = [k \in Kind |-> "UNKNOWN"]
    /\ dev = "free" /\ reading = NoReading
    /\ scenario \in Scenarios
    /\ mains \in (IF "mains" \in scenario THEN BOOLEAN ELSE {TRUE})
    /\ powered \in (IF "mains" \in scenario THEN {Unit, {}} ELSE {Unit})
    /\ halted = Unit \ powered
    /\ seCtrlPowerStatus = PowerStatus(powered)

-----------------------------------------------------------------------------
(* The scheduler *)

\* The status of a collected sequence after its tasks got newStatus.
Recomputed(i, newStatus) == ComputeStatus({newStatus[m] : m \in Tasks[kind[i]]})

\* The collected tasks of S get status st and their sequences recompute theirs.
SetStatus(S, st) ==
    LET new(i) == [n \in Name |-> IF <<i, n>> \in S THEN st ELSE status[i][n]]
        touched == {i \in collection : \E n \in Tasks[kind[i]] : <<i, n>> \in S}
    IN  /\ status' = [i \in Number |-> IF i \in touched THEN new(i) ELSE status[i]]
        /\ seqStatus' = [i \in Number |-> IF i \in touched THEN Recomputed(i, new(i))
                                                       ELSE seqStatus[i]]

\* Bound: there is room for another sequence, besides those that a handler and
\* ResetDishMode are about to submit.
Room ==
    LET handlerAdds == pc \in {"cutFlush", "cutAdd", "restoreRevoke", "restoreAdd",
                               "estopFlush", "estopAdd"}
    IN  submitted + (IF handlerAdds THEN 1 ELSE 0)
                  + (IF dev = "resetMode" THEN 1 ELSE 0) < MaxSequences

\* AddTaskSequence: the tasks are queued, the sequence is collected, and its
\* status stays what it was made with.
AddTaskSequence(k) ==
    LET i == submitted + 1 IN
    /\ submitted < MaxSequences
    /\ submitted' = i
    /\ kind' = [kind EXCEPT ![i] = k]
    /\ status' = [status EXCEPT ![i] = [n \in Name |-> IF n \in Tasks[k] THEN "IDLE"
                                                                        ELSE "INIT"]]
    /\ collection' = collection \cup {i}
    /\ queue' = queue \cup {<<i, n>> : n \in Tasks[k]}
    /\ UNCHANGED <<seqStatus, handlers>>

\* FlushQueue: event handlers go with the rest, the statuses stay.
FlushQueue ==
    /\ queue' = {} /\ handlers' = {}
    /\ UNCHANGED <<submitted, kind, status, seqStatus, collection>>

\* Faulty: leave the status of the sequence as it was.
RevokeTasksOnly(N) ==
    /\ queue' = {t \in queue : t[2] \notin N}
    /\ status' = [i \in Number |-> [n \in Name |->
                      IF i \in collection /\ n \in N /\ status[i][n] = "IDLE"
                      THEN "CANCELED" ELSE status[i][n]]]
    /\ UNCHANGED <<submitted, kind, seqStatus, collection, handlers>>

\* RevokeTask for each name of N: out of the queue, and IDLE becomes CANCELED.
RevokeTasks(N) ==
    /\ queue' = {t \in queue : t[2] \notin N}
    /\ SetStatus({t \in Number \X N : status[t[1]][t[2]] = "IDLE"}, "CANCELED")
    /\ UNCHANGED <<submitted, kind, collection, handlers>>

CanRun(i, n) ==
    /\ status[i][n] = "IDLE"
    /\ Needs(kind[i], n) # {} =>
          i \in collection /\ \A d \in Needs(kind[i], n) : status[i][d] = "COMPLETED"

\* PopTask hands out a task.
PopTask(i, n) ==
    /\ pc = "idle"
    /\ <<i, n>> \in queue /\ CanRun(i, n)
    /\ queue' = queue \ {<<i, n>>}
    /\ current' = <<i, n>> /\ pc' = "run"
    /\ UNCHANGED <<submitted, kind, status, seqStatus, collection, handlers,
                   unitVars, devVars, scenario>>

\* What a power order does: the system of a controller is shut down, its power
\* goes off or comes on, and with the power its system starts.
PowerOrder(n) ==
    CASE n = "ShutdownRXPUTask" -> halted' = halted \cup {"rx"} /\ UNCHANGED powered
      [] n = "ShutdownSPFCTask" -> halted' = halted \cup {"spf"} /\ UNCHANGED powered
      [] n = "PowerOffRXPUTask" -> powered' = powered \ {"rx"} /\ UNCHANGED halted
      [] n = "PowerOffSPFCTask" -> powered' = powered \ {"spf"} /\ UNCHANGED halted
      [] n = "PowerOnRXPUTask"  -> /\ powered' = powered \cup {"rx"}
                                   /\ halted' = halted \ ({"rx"} \ powered)
      [] n = "PowerOnSPFCTask"  -> /\ powered' = powered \cup {"spf"}
                                   /\ halted' = halted \ ({"spf"} \ powered)
      [] OTHER                  -> UNCHANGED <<powered, halted>>

\* The command of the task returns and ExecuteTask records the outcome: the
\* work of a synchronous task is done, that of an asynchronous one has begun.
TaskReturns ==
    /\ pc = "run"
    /\ PowerOrder(current[2])
    /\ IF current[2] \in Asynch
       THEN SetStatus({current}, "RUNNING") /\ working' = working \cup {current[2]}
       ELSE SetStatus({current}, "COMPLETED") /\ UNCHANGED working
    /\ pc' = "idle" /\ current' = NoTask
    /\ UNCHANGED <<submitted, kind, collection, queue, handlers, seCtrlPowerStatus,
                   mains, devVars, scenario>>

\* The command is refused, and nothing is done.
TaskFails ==
    /\ pc = "run" /\ "fail" \in scenario
    /\ SetStatus({current}, "FAILED")
    /\ pc' = "idle" /\ current' = NoTask
    /\ UNCHANGED <<submitted, kind, collection, queue, handlers, unitVars, devVars,
                   scenario>>

\* PopTask finds a task that has timed out: its sequence recomputes nothing.
TaskExpires(i, n) ==
    /\ pc = "idle" /\ "expire" \in scenario
    /\ <<i, n>> \in queue
    /\ queue' = queue \ {<<i, n>>}
    /\ status' = [status EXCEPT ![i][n] = "EXPIRED"]
    /\ UNCHANGED <<submitted, kind, seqStatus, collection, handlers, pc, current,
                   unitVars, devVars, scenario>>

\* A sub-element reports on the work of task n in its progress attribute, and
\* UpdateAsynchTaskStatus hands the report to every collected sequence that has
\* a task of this name, whatever the status of that task.
ReportProgress(n, report) ==
    /\ n \in working
    /\ report = "FAILED" => "fail" \in scenario
    /\ SetStatus(Number \X {n}, report)
    /\ working' = IF report = "RUNNING" THEN working ELSE working \ {n}
    /\ UNCHANGED <<submitted, kind, collection, queue, handlers, pc, current,
                   powered, halted, seCtrlPowerStatus, mains, devVars, scenario>>

-----------------------------------------------------------------------------
(* Commands of clients and polled commands *)

devOnly == UNCHANGED <<pc, current, powered, halted, seCtrlPowerStatus, mains, scenario>>

\* taskSequence_progress_ongoing.
Ongoing(k) == progress[k] \in {"INIT", "IDLE", "RUNNING"}

\* The body of a mode command, once its own progress attribute lets it in.
SubmitMode(k, mode) ==
    IF IsTargetMode(k, mode)
    THEN progress' = [progress EXCEPT ![k] = "COMPLETED"] /\ UNCHANGED schedVars
    ELSE progress' = [progress EXCEPT ![k] = "IDLE"] /\ AddTaskSequence(k)

\* A dish command: refused in the wrong mode and while its last sequence seems
\* to be ongoing, superfluous if the dish is in the target mode already.
ModeCommand(k, mode) ==
    /\ dev = "free" /\ k \in scenario
    /\ Room
    /\ mode \in AllowedModes(k)
    /\ ~Ongoing(k)
    /\ SubmitMode(k, mode)
    /\ UNCHANGED <<working, dev, reading>> /\ devOnly

\* flush_command_queue.
FlushCommandQueue ==
    /\ "flush" \in scenario
    /\ dev = "free"
    /\ FlushQueue
    /\ UNCHANGED <<working, devVars>> /\ devOnly

ModeKinds  == {"SetStowMode", "SetStandbyLPMode", "SetStandbyFPMode",
               "SetMaintenanceMode", "SetOperateMode", "ConfigureBand"}
ResetKinds == ModeKinds \cup {"StartupOnPowerRestore", "ShutdownOnPowerCut"}
ResetOf(K) == [k \in Kind |-> IF k \in K THEN "UNKNOWN" ELSE progress[k]]

\* Faulty: reset the attributes and leave the queue alone.
ResetNothingFlushed(next) ==
    /\ next \in scenario
    /\ dev = "free"
    /\ dev' = next
    /\ UNCHANGED <<schedVars, working, progress, reading>> /\ devOnly

\* The first half of ResetDishMode, ResetDishTasks and handle_tmcomm_loss_event.
ResetFlush(next) ==
    /\ next \in scenario
    /\ dev = "free"
    /\ next = "resetMode" => Room
    /\ FlushQueue
    /\ dev' = next
    /\ UNCHANGED <<working, progress, reading>> /\ devOnly

\* The progress attributes of the sequences that may have been flushed.
ResetDishTasks ==
    /\ dev = "resetTasks"
    /\ progress' = ResetOf(ResetKinds)
    /\ dev' = "free"
    /\ UNCHANGED <<schedVars, working, reading>> /\ devOnly

\* ResetDishMode leaves those of the event handlers out and sends the dish to
\* STANDBY-LP.
ResetDishMode(mode) ==
    /\ dev = "resetMode"
    /\ progress' = [ResetOf(ModeKinds) EXCEPT !["SetStandbyLPMode"] =
                       IF IsTargetMode("SetStandbyLPMode", mode) THEN "COMPLETED"
                                                                 ELSE "IDLE"]
    /\ IF IsTargetMode("SetStandbyLPMode", mode) THEN UNCHANGED schedVars
       ELSE AddTaskSequence("SetStandbyLPMode")
    /\ dev' = "free"
    /\ UNCHANGED <<working, reading>> /\ devOnly

\* handle_tmcomm_loss_event, called by the polled MonitorProxies: the tasks are
\* reset and the dish structure is told to stow, without a task of ours.
HandleTMCommLoss ==
    /\ dev = "tmLoss"
    /\ progress' = ResetOf(ResetKinds)
    /\ working' = working \cup {"SetDSStowModeTask"}
    /\ dev' = "free"
    /\ UNCHANGED <<schedVars, reading>> /\ devOnly

\* The collected sequences of kind k, and the one submitted last.
OfKind(k)    == {i \in collection : kind[i] = k}
Latest(k, i) == i \in OfKind(k) /\ \A j \in OfKind(k) : j <= i

\* UpdateStatusAttrs, for one attribute: the status of the latest sequence is
\* read under the mutex of the scheduler, and written later.
ReadSequenceStatus(k) ==
    /\ dev = "free"
    /\ \E i \in OfKind(k) : /\ Latest(k, i)
                            /\ reading' = [of |-> k, status |-> seqStatus[i]]
    /\ dev' = "update"
    /\ UNCHANGED <<schedVars, working, progress>> /\ devOnly

WriteStatusAttr ==
    /\ dev = "update"
    /\ progress' = [progress EXCEPT ![reading.of] = reading.status]
    /\ dev' = "free" /\ reading' = NoReading
    /\ UNCHANGED <<schedVars, working>> /\ devOnly

\* ClearTasks, polled: sequences submitted long ago leave the list unless they
\* are RUNNING.  The history is much deeper than any timeout and period: their
\* tasks have left the queue by then, and their status was polled since.
ClearTasks(old) ==
    /\ dev = "free" /\ current = NoTask
    /\ old # {}
    /\ \A i \in old :
          /\ i \in collection /\ seqStatus[i] # "RUNNING"
          /\ \A t \in queue : t[1] > i
          /\ Latest(kind[i], i) => progress[kind[i]] = seqStatus[i]
    /\ collection' = collection \ old
    /\ UNCHANGED <<submitted, kind, status, seqStatus, queue, handlers, pc, current,
                   unitVars, devVars, scenario>>

DevStep ==
    \/ \E k \in Kind \ HandlerKind, mode \in Modes : ModeCommand(k, mode)
    \/ FlushCommandQueue
    \/ \E next \in {"resetTasks", "resetMode", "tmLoss"} : ResetFlush(next)
    \/ ResetDishTasks \/ HandleTMCommLoss
    \/ \E mode \in Modes : ResetDishMode(mode)
    \/ \E k \in Kind : ReadSequenceStatus(k)
    \/ WriteStatusAttr
    \/ \E old \in SUBSET collection : ClearTasks(old)

-----------------------------------------------------------------------------
(* Event handlers, run by the task thread *)

handlerUnchanged == UNCHANGED <<current, unitVars, dev, reading, scenario>>

\* The thread takes handler h from the queue, is done with it or goes on at next.
TakeHandler(h, next) ==
    /\ pc = "idle" /\ h \in handlers
    /\ handlers' = handlers \ {h}
    /\ pc' = next
    /\ UNCHANGED <<submitted, kind, status, seqStatus, collection, queue>>

\* The thread goes from one place in a handler to the next.
HandlerAt(here, next) == pc = here /\ pc' = next

\* Its last step: the progress attribute says that the work is scheduled.
HandlerDone(here, k) ==
    /\ HandlerAt(here, "idle")
    /\ progress' = [progress EXCEPT ![k] = "IDLE"]
    /\ UNCHANGED schedVars /\ handlerUnchanged

\* handle_power_cut_event: ignored while a shutdown seems to be ongoing, and when
\* the controllers seem to have no power.
PowerCutIgnored ==
    /\ Ongoing("ShutdownOnPowerCut") \/ seCtrlPowerStatus = "OFF"
    /\ TakeHandler("ShutdownOnPowerCut", "idle")
    /\ UNCHANGED progress /\ handlerUnchanged

PowerCutAccepted ==
    /\ Room /\ ~Ongoing("ShutdownOnPowerCut") /\ seCtrlPowerStatus # "OFF"
    /\ TakeHandler("ShutdownOnPowerCut", "cutFlush")
    /\ progress' = [progress EXCEPT !["ShutdownOnPowerCut"] = "INIT"]
    /\ handlerUnchanged

PowerCutFlush ==
    /\ HandlerAt("cutFlush", "cutAdd")
    /\ FlushQueue
    /\ UNCHANGED progress /\ handlerUnchanged

PowerCutAdd ==
    /\ HandlerAt("cutAdd", "cutDone")
    /\ AddTaskSequence("ShutdownOnPowerCut")
    /\ UNCHANGED progress /\ handlerUnchanged

PowerCutDone == HandlerDone("cutDone", "ShutdownOnPowerCut")

\* handle_power_restore_event: ignored while a startup seems to be ongoing, and
\* when the controllers seem to have power.
PowerRestoreIgnored ==
    /\ Ongoing("StartupOnPowerRestore") \/ seCtrlPowerStatus = "ON"
    /\ TakeHandler("StartupOnPowerRestore", "idle")
    /\ UNCHANGED progress /\ handlerUnchanged

PowerRestoreAccepted ==
    /\ Room /\ ~Ongoing("StartupOnPowerRestore") /\ seCtrlPowerStatus # "ON"
    /\ TakeHandler("StartupOnPowerRestore", "restoreRevoke")
    /\ UNCHANGED progress /\ handlerUnchanged

\* Faulty: leave the last of the names out.
PowerRestoreRevokeSome ==
    /\ HandlerAt("restoreRevoke", "restoreAdd")
    /\ RevokeTasks(PowerDown \ {"PowerOffSPFCTask"})
    /\ UNCHANGED progress /\ handlerUnchanged

\* Tasks run in this thread only, so the four calls of RevokeTask are one step.
PowerRestoreRevoke ==
    /\ HandlerAt("restoreRevoke", "restoreAdd")
    /\ RevokeTasks(PowerDown)
    /\ UNCHANGED progress /\ handlerUnchanged

PowerRestoreAdd ==
    /\ HandlerAt("restoreAdd", "restoreDone")
    /\ AddTaskSequence("StartupOnPowerRestore")
    /\ UNCHANGED progress /\ handlerUnchanged

PowerRestoreDone == HandlerDone("restoreDone", "StartupOnPowerRestore")

\* handle_estop_event: there is nothing to do outside CONFIG and OPERATE, and
\* while an earlier stop seems to be handled still.
EStopIgnored ==
    /\ TakeHandler("HandleESTOPEvent", "idle")
    /\ UNCHANGED progress /\ handlerUnchanged

EStopAccepted ==
    /\ Room /\ "OPERATE" \in Modes
    /\ ~Ongoing("HandleESTOPEvent")
    /\ TakeHandler("HandleESTOPEvent", "estopFlush")
    /\ UNCHANGED progress /\ handlerUnchanged

EStopFlush ==
    /\ HandlerAt("estopFlush", "estopAdd")
    /\ FlushQueue
    /\ UNCHANGED progress /\ handlerUnchanged

EStopAdd ==
    /\ HandlerAt("estopAdd", "estopDone")
    /\ AddTaskSequence("HandleESTOPEvent")
    /\ UNCHANGED progress /\ handlerUnchanged

EStopDone == HandlerDone("estopDone", "HandleESTOPEvent")

HandlerStep ==
    \/ PowerCutIgnored \/ PowerCutAccepted \/ PowerCutFlush \/ PowerCutAdd \/ PowerCutDone
    \/ PowerRestoreIgnored \/ PowerRestoreAccepted \/ PowerRestoreRevoke
    \/ PowerRestoreAdd \/ PowerRestoreDone
    \/ EStopIgnored \/ EStopAccepted \/ EStopFlush \/ EStopAdd \/ EStopDone

-----------------------------------------------------------------------------
(* The sub-elements and the mains *)

\* An event of powerCut or powerRestored, pushed when the mains change and
\* periodically, queues its handler (ExecuteEventCmdHandlers).  Several pending
\* runs of one handler are as good as one.
PushHandler(h) ==
    /\ CASE h = "ShutdownOnPowerCut"    -> ~mains
         [] h = "StartupOnPowerRestore" -> mains
         [] h = "HandleESTOPEvent"      -> "estop" \in scenario
    /\ Cardinality(handlers) < MaxHandlers
    /\ handlers' = handlers \cup {h}
    /\ UNCHANGED <<submitted, kind, status, seqStatus, collection, queue, pc, current,
                   unitVars, devVars, scenario>>

\* An event of the power distribution unit: the formula of seCtrlPowerStatus is
\* evaluated with what is on.
PowerStatusEvent ==
    /\ seCtrlPowerStatus' = PowerStatus(powered)
    /\ UNCHANGED <<schedVars, pc, current, working, powered, halted, mains, devVars, scenario>>

MainsChange ==
    /\ "mains" \in scenario
    /\ mains' = ~mains
    /\ UNCHANGED <<schedVars, pc, current, working, powered, halted, seCtrlPowerStatus,
                   devVars, scenario>>

ThreadStep ==
    \/ \E t \in queue : PopTask(t[1], t[2]) \/ TaskExpires(t[1], t[2])
    \/ TaskReturns \/ TaskFails
    \/ HandlerStep

Next ==
    \/ ThreadStep \/ DevStep
    \/ \E n \in Asynch, report \in {"RUNNING", "COMPLETED", "FAILED"} :
          ReportProgress(n, report)
    \/ \E h \in HandlerKind : PushHandler(h)
    \/ PowerStatusEvent \/ MainsChange

\* The task thread runs: it takes a task or a handler it can take, and finishes
\* what it has begun.  So do commands, and the polls of the progress attributes
\* come to their turn although the monitor is free only now and then: Tango
\* serves in turn who waits for it.  Sub-elements complete their work, and the
\* periodic events of the power attributes arrive.
Fairness ==
    /\ WF_vars(pc # "idle" /\ ThreadStep)
    /\ WF_vars(\E t \in queue : PopTask(t[1], t[2]))
    /\ WF_vars(PowerCutIgnored \/ PowerCutAccepted)
    /\ WF_vars(PowerRestoreIgnored \/ PowerRestoreAccepted)
    /\ WF_vars(dev # "free" /\ DevStep)
    /\ SF_vars(ReadSequenceStatus("ShutdownOnPowerCut"))
    /\ SF_vars(ReadSequenceStatus("StartupOnPowerRestore"))
    /\ \A n \in Asynch : WF_vars(ReportProgress(n, "COMPLETED"))
    /\ WF_vars(PowerStatusEvent)
    /\ WF_vars(PushHandler("ShutdownOnPowerCut"))
    /\ WF_vars(PushHandler("StartupOnPowerRestore"))

Spec == Init /\ [][Next]_vars
FairSpec == Spec /\ Fairness

-----------------------------------------------------------------------------
(* Properties *)

TypeOK ==
    /\ submitted \in 0..MaxSequences
    /\ kind \in [Number -> Kind \cup {NoKind}]
    /\ status \in [Number -> [Name -> Status]]
    /\ seqStatus \in [Number -> Status]
    /\ collection \subseteq 1..submitted
    /\ queue \subseteq (1..submitted) \X Name
    /\ handlers \subseteq HandlerKind
    /\ pc \in PC
    /\ current \in (IF pc = "run" THEN (1..submitted) \X Name ELSE {NoTask})
    /\ working \subseteq Asynch
    /\ progress \in [Kind -> Status]
    /\ dev \in Dev
    /\ reading \in [of : Kind \cup {NoKind}, status : Status]
    /\ dev = "update" => reading.of \in Kind
    /\ powered \subseteq Unit /\ halted \subseteq Unit
    /\ seCtrlPowerStatus \in {"ON", "OFF", "CHANGING"}
    /\ mains \in BOOLEAN
    /\ scenario \in Scenarios
    /\ \A i \in Number : i <= submitted <=> kind[i] \in Kind

\* The orders the thread may still give, or is giving.
Orders == queue \cup ({current} \ {NoTask})

\* No order to switch a controller off outlives the handling of a power restore,
\* none to switch it on that of a power cut: whatever was flushed, revoked,
\* failed or expired, what is queued or being run is newer than every sequence
\* of the opposite kind (handle_power_cut_event, handle_power_restore_event).
PowerOrdersCurrent ==
    \A t \in Orders, j \in 1..submitted : t[1] < j =>
        /\ t[2] \in PowerDown => kind[j] # "StartupOnPowerRestore"
        /\ t[2] \in PowerUp   => kind[j] # "ShutdownOnPowerCut"

\* The power of a controller goes off only when its system was shut down, also
\* across a restore of the power between the two (the dependency matrix of
\* handle_power_cut_event and the revocations of handle_power_restore_event).
NeverCutOff == \A u \in Unit : u \notin powered => u \in halted

\* Why the power orders are what they should be.  A handler has emptied the queue
\* of the orders of the opposite kind before it adds its own; a unit is halted
\* when an order to switch it off can run, and stays so until the order has run.
HandlerPrepared ==
    /\ pc = "cutAdd"     => \A t \in queue : t[2] \notin PowerUp
    /\ pc = "restoreAdd" => \A t \in queue : t[2] \notin PowerDown

OrdersKnown == \A t \in Orders : t[2] \in Tasks[kind[t[1]]]

Shutdown(u) == IF u = "rx" THEN "ShutdownRXPUTask" ELSE "ShutdownSPFCTask"
PowerOff(u) == IF u = "rx" THEN "PowerOffRXPUTask" ELSE "PowerOffSPFCTask"

SwitchOffPrepared ==
    \A u \in Unit, i \in 1..submitted : <<i, PowerOff(u)>> \in Orders =>
        /\ status[i][Shutdown(u)] = "COMPLETED" => u \in halted
        /\ current = <<i, PowerOff(u)>> => status[i][Shutdown(u)] = "COMPLETED"

\* Unless a task fails or expires, two sequences of one dish command never have
\* tasks waiting at the same time: neither polls nor resets of the progress
\* attribute, flushes or reports on other commands' tasks let a second one in.
OneSequencePerCommand ==
    scenario \cap {"fail", "expire"} = {} =>
        \A t, u \in queue : kind[t[1]] = kind[u[1]] /\ kind[t[1]] \in ModeKinds
                               /\ {status[t[1]][t[2]], status[u[1]][u[2]]} = {"IDLE"}
                            => t[1] = u[1]

\* As long as nothing fails and nobody interferes, a power cut that lasts ends
\* with both controllers switched off: no interleaving with power restores,
\* polls and dish commands makes the handler ignore the cut for good.
PowerCutHandled ==
    scenario \subseteq {"mains"} \cup ModeKinds =>
        ([]<>(powered = {}) \/ ~<>[]~mains
            \/ []<>(submitted = MaxSequences /\ ~Ongoing("ShutdownOnPowerCut")))

-----------------------------------------------------------------------------
(* The commands and handlers use the scheduler as Scheduler says *)

\* Sequence i of command k, and its tasks.
SchedulerSeq  == Number \X Kind
SchedulerTask == {t \in Number \X Kind \X Name : t[3] \in Tasks[t[2]]}

seqOf    == [t \in SchedulerTask |-> <<t[1], t[2]>>]
deps     == [t \in SchedulerTask |-> {<<t[1], t[2], n>> : n \in Needs(t[2], t[3])}]
watching == [n \in Asynch |-> {t \in SchedulerTask : t[3] = n}]

\* How a task, and how a sequence is known there.
Known(t)    == <<t[1], kind[t[1]], t[2]>>
KnownSeq(i) == <<i, kind[i]>>

taskStatus ==
    [t \in SchedulerTask |-> IF kind[t[1]] = t[2] THEN status[t[1]][t[3]] ELSE "INIT"]
sequenceStatus ==
    [s \in SchedulerSeq |-> IF kind[s[1]] = s[2] THEN seqStatus[s[1]] ELSE "INIT"]
heldTask == IF current = NoTask THEN <<>> ELSE Known(current)

Sched == INSTANCE Scheduler
    WITH Task       <- SchedulerTask,
         TaskSeq    <- SchedulerSeq,
         SeqOf      <- seqOf,
         Deps       <- deps,
         Asynch     <- {t \in SchedulerTask : t[3] \in Asynch},
         Watching   <- watching,
         Attr       <- Asynch,
         Reports    <- {"RUNNING", "COMPLETED", "FAILED"},
         status     <- taskStatus,
         seqStatus  <- sequenceStatus,
         queue      <- {Known(t) : t \in queue},
         collection <- {KnownSeq(i) : i \in collection},
         offered    <- {KnownSeq(i) : i \in 1..submitted},
         held       <- heldTask,
         NoTask     <- <<>>

\* Whatever commands, handlers, polls and reports do with sequences and tasks,
\* between the steps of each other and of the thread, is something that
\* Scheduler allows, as it allows whatever TaskManager does.
ImplementsScheduler == Sched!Spec

-----------------------------------------------------------------------------
(* What a comment says, and the code does not do *)

\* handle_power_restore_event restores the power of the controllers, says its
\* comment.  A cut that comes while a startup is under way flushes the startup,
\* whose progress attribute says RUNNING ever after.
PowerRestoreHandled ==
    <>[]mains => \/ <>(powered = Unit)
                 \/ []<>(submitted = MaxSequences /\ ~Ongoing("StartupOnPowerRestore"))
=============================================================================
