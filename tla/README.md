# Formal models of the Dish LMC

TLA+ models of dsh.lmc, the local monitoring and control of a SKA dish: a set
of Tango device servers around a common base device, `LMCDevice`. Every
definition that stands for code is listed under `map` in `PROJECT.json` with
the lines it was read from. Abbreviations of paths used below:
`utils/` is `src/src/utils/`, `devices/` is `src/src/devices/`.

Run a model with `tlc -config MC_X.cfg MC_Module`, check the proofs of a module
with `tlapm M_proofs.tla`.

## 1. The system

### Parts, state, operations

| Part | State | Operations | What makes it correct |
|---|---|---|---|
| Task scheduler: `utils/TaskManager`, `devices/core/LMCDevice/TaskThread` | `m_taskQueue` (ordered set), `m_taskSequences`, task and sequence statuses, wake-up and end signals, `m_stopThread` | `AddTaskSequence`, `Remove`/`RevokeTaskSequence`, `RevokeTask`, `FlushQueue`, `ClearAll`/`Clear`/`ClearCompletedSequenceTasks`, `PopTask`, `ExecuteTask`, `SetAsynchTaskStatus`, `WakeUp`, `End` | no command started twice; dependents wait for the work they need; statuses say the truth; nothing slept over; the thread can be joined |
| Tasks and sequences: `utils/Task` | times, priority, dependencies, status, progress attribute | setters of times, `SetTaskDependency`, `CompareTask`, `ComputeStatus`, `Run` | cycles refused, topological order, consistent times, a strict total order |
| `LMCDevice` | dynamic attributes, managers, threads | commands, `init_device`, `delete_device`, event dispatch, `UpdateAsynchTaskStatus`, `UpdateStatusAttrs`, `UpdateFormulaAttrs`, `MonitorProxies` | deletion completes; events reach attributes, formulas and tasks |
| Event path: `EventCallBack`, `EventHandlerTask` in `devices/core/LMCDevice` | yat message queue with a high water mark | push event, handle event | readings in order; the last one arrives |
| Proxies: `utils/TangoProxyHelper`, `utils/TangoProxyManager` | helpers by name, online flag, downtime timer, subscriptions | register, unregister, subscribe, monitor, command | subscribed in the end; a proxy that is down is told |
| Formulas: `utils/FormulaManager`, `FormulaData`, `FormulaVar` | formulas, variables, attributes they depend on | register, initialise, update on event, evaluate | attributes follow their variables |
| `DishManager` | modes, progress attributes, power status | mode commands, `ConfigureBand`, resets, flush, event handlers for power, emergency stop and loss of the telescope manager | one sequence per command; no power cut without shutdown; handlers agree |
| `LMCStarter` | controlled servers, start-up levels and their threads, ping results | `DevStart`, `DevStartAll`, `DevStop`, `DevStopAll`, `HardKillServer`, polling of `Servers` | levels in order; none left behind; a failed server is started again, a stopped one is not |
| `AlarmHandler` (`AlarmHandler_last`) | alarm table, event list, `alarmed`, lists by state | evaluate on event, timer, `Ack`, `Silence`, `Shelve`, `Enable`, `Disable`, `Load`, `Remove`, `Modify` | an alarm follows its formula, and lists and entries follow the alarm |
| `HdbEventSubscriber` | list of attributes with their flags, proxies and subscriptions, counter of changes to store, subscribing thread | `AttributeAdd`, `AttributeRemove`, `AttributeStart`, `AttributeStop`, `AttributePause`, `SetAttributeStrategy`, `SetAttributeTTL`, events, rounds and waits of the thread | what runs is subscribed in the end, what is stopped is not; the numbers shown are right; changes are stored |
| `HdbConfigurationManager` | addresses of archivers | forwards commands | |
| `LMCMonitor`, `ElementLogger`, `LogPrinter` | Nagios state, log targets and levels | read, forward, set | targets follow levels |
| `DSManager`, `PDUManager`, the five emulators | sub-element modes, OPC-UA and simulated state | sub-element commands, progress reports | environment of the scheduler |

### How they interact

A mode command of `DishManager` looks at its progress attribute, builds a task
sequence and gives it to the task manager of its device (`AddTaskSequence`).
The device's task thread pops one task at a time (`PopTask`) and sends its
command to a sub-element by a Tango proxy (`ExecuteTask`), without the
manager's mutex. A synchronous task is finished when the command returns. An
asynchronous one has only been started: the sub-element goes on and writes
its state to a progress attribute. The event of that attribute is posted by the
callback to the queue of `EventHandlerTask`, whose thread sets the variables of
the formulas that use it, evaluates them, writes the device's attributes, reads
them back and gives what it read to whichever tasks watch an attribute of that
name (`UpdateAsynchTaskStatus`). A status change of a task makes its sequence
recompute its own status. A polled command copies it into the progress
attribute (`UpdateStatusAttrs`), by which the mode commands guard themselves.
Event handlers of `DishManager` (power, emergency stop) are tasks of the same
queue, so the task thread runs them: they flush, revoke and submit. Operators
revoke, flush and clear tasks at any moment. `delete_device` signals the end,
stops and joins the thread. Servers may hold several devices, each with its own
task manager and thread, but with one pair of static signals for all of them.

Tango lets one client command, polled command or polled attribute into a device
at a time. Outside this monitor run the task thread, the thread of
`EventHandlerTask` and the callback threads of Tango.

`LMCStarter` polls its servers, starts those of a level by one
`StartProcessThread` per level, which wait for each other by a shared list of
levels, and restarts what has failed. `AlarmHandler` has a thread for
events and one for time beside the commands, which share the table of alarms.
The commands of `HdbEventSubscriber` change its list of attributes, and its
`SubscribeThread` subscribes, in rounds, what is not subscribed yet and stores
the list in the data base.

### What is hard here

- The task thread is outside the mutex while a command runs; everything else may
  happen meanwhile, and the outcome is written afterwards.
- Progress events race with the RUNNING that `ExecuteTask` writes, may repeat
  or arrive late, and are matched by attribute name alone.
- `PopTask` waits in two places; signals, time and spurious wake-ups end the
  waits; dependencies that become complete signal nobody.
- `AddTaskSequence` may fail half way and keeps what it has queued.
- Signals shared by all devices of a process, under one mutex per device.
- Guards read polled copies of statuses; handlers flush and revoke the
  sequences of each other.
- Events may be lost, come before the formula is ready or find the queue full;
  polls and events evaluate the same formulas without a common lock.
- Levels are started by threads while commands stop and start servers.
- The threads of the alarm handler write an alarm under reader locks.
- The subscribing thread of the archiver gives up the lock of an attribute before
  each remote call, and commands stop, start and remove the attribute meanwhile; signals
  are not kept for a thread that does not wait yet.

Under `hazards` in `PROJECT.json` each of these is listed at its line, with
the properties that would catch it going wrong.

## 2. Modules

| Module | Models |
|---|---|
| `TaskData` | status codes, `CompareTask` (`Before`), `TaskSequence::ComputeStatus`; no state |
| `TaskDispatch` | abstract specification: what becomes of a task once it is dispatched |
| `Scheduler` | abstract specification: the scheduler as its users see it; implemented by `TaskManager` and `DishManager` |
| `TaskManager` | the task manager, its thread, its callers, the sub-elements and time |
| `TaskServer` | the task managers of several devices with shared signals; init and deletion of devices |
| `TaskDependency` | one call of `SetTaskDependency` in steps: its two depth-first searches with their call stack, the sorting, the times |
| `DishManager` | dish commands and event handlers, their sequences, guards and progress attributes, over the scheduler; the power distribution unit |
| `FormulaEvents` | proxies, subscriptions, event queue, formulas, attributes and the tasks that watch them |
| `Starter` | levels, start threads, ping threads, restart |
| `AlarmTable` | an alarm with its three writers, the lists and the alarmed list |
| `Archiver` | the attributes of `HdbEventSubscriber`, its commands, its subscribing thread and the events |
| `*_proofs` | theorems about the module of that name |
| `MC_*` | values of constants for TLC |

Definitions marked *Faulty* are variants of the one after them with a mistake
somebody could have made in the code; each breaks a property.

### TaskManager

The constants describe the tasks clients may submit (`Info`: sequence, index,
dependencies, activation, latest start, expiration, priority, progress
attribute). State and code:

- `status`, `seqStatus`: `Task::status`, `TaskSequence::status`;
  `queue`, `collection`: `m_taskQueue`, `m_taskSequences`; `wakeUp`, `ended`,
  `stop`: `m_wakeUpSignal`, `m_endSignal`, `m_stopThread`.
- `pc`, `current`: where the task thread is. One step of the thread is what it
  does with the mutex held, or one command: `PopTask` is split at its two waits
  (`asleep`, `timed`), `ExecuteTask` before the command (`run`) and before the
  status is written (`ran`, `raised`). All other operations hold the mutex from
  beginning to end and are one step each.
- `launched`, `job`, `attrValue`: what the sub-elements do. `launched` is a
  history variable; `job` is the truth that statuses are compared with.
- `offered`: the sequences that were submitted. A sequence is submitted once;
  submitting one again in the program creates new task objects, which here are
  other tasks, if they have the same name (`SeqName`, `Info.name`).

`PopTask` picks, among the tasks that may run (`CanPop`), the first in the
order of the queue; only when there is none, the first whose activation it can
wait for (`CanWaitFor`); with dependent tasks alone it comes back at once
(`PopBlocked`). Tasks found expired are erased on the way without recomputing
the status of their sequence, as in the code. `RunReturns` and `RunThrows`
are the outcomes of a command: accepted, answered with the result, refused,
failed, or lost with the work going on or not. `UpdateAsynchTaskStatus` reads the
value of the attribute when the event is handled, not when it was sent, and
may be repeated, delayed or never happen.

Tasks may share a progress attribute, as those of two mode commands of `DishManager` do and
those of two runs of one command; an event is for all of them. `vouchersOf` gives for a task those whose
work passes for its own then, `Accomplished` says that one of them is complete, and `Reported` that
somebody's report has come.

### TaskServer

Cuts the scheduler down to work that may run at once or has an activation
time, and keeps what concerns the signals: per device the position of the
thread, the queue, and how far `delete_device` has come; and one `wakeUp` and
one `ended` for all. Notification and the evaluation of the condition are two
steps here, for between them another device may change the flags. `Join` is only
possible once the thread is gone. Devices are initialised and deleted at any time:
Tango only serialises calls per device, and `Init` is a command of every device.
`InitDevice` resets the end signal of every device that is being deleted then;
the history variable `overruled` remembers which.

### TaskDependency

`Init` chooses any dependency matrix and any set-up of the tasks; the steps
are those of one call of `SetTaskDependency`, whose place in the code is `stage` (the two
searches, the times, the two outcomes). The recursion of `CheckCyclicDependencies`
and `Sorter` is written as its call stack, so that it can be reasoned about:
`path` holds the tasks whose calls are under way (`recStack` is the set of them),
`at` the position of each in its row of the matrix, `visited` is the array
of that name, `order` is `sorting_index`, `latest` is `max_expiration_time`.
`loop` counts the outer loops, in which a search is started from each task and
the times are set. The setters of `Task` refuse times in the past, hence
`act + dur >= Now` in `DependencyAssumption`. Deadlock is not checked in its run: the model
stops after the call.

### DishManager

One operator per command or handler names the tasks of its sequence;
`Needs` is the dependency matrix, `Asynch` tells which tasks only start work.
Sequences are numbered as they are submitted. `status`, `seqStatus`,
`collection` and `queue` are those of the task manager, whose scheduling is
cut down: any runnable task may be next, delays are over at any time, a queued task may
expire. That this is the scheduler of the code is what `ImplementsScheduler` is about, see
`Scheduler`.

`handlers` and `pc` are the handlers that are due and the place the thread has
reached in one: flush or revocation, wake-up and submission are separate steps, since commands
may come in between. `dev` is the monitor of Tango and what the command
that holds it has still to do: the reading of a sequence status and the writing of its attribute
(`ReadSequenceStatus`, `WriteStatusAttr`) are two steps with the task thread
between them, and so are the flush of a reset and the attributes it writes. The guard of a mode command
and its submission are one step (`ModeCommand`): the guard reads an attribute that is only written under the
monitor, which the command holds. `powered`, `halted`, `seCtrlPowerStatus` and `mains` are the
environment: controllers, what was shut down, the formula of the power status.
A scenario is the set of kinds of trouble one behaviour may have.

### Scheduler

What `TaskManager` and `DishManager` have in common, without the order of the queue, signals,
quota, clock and the values of attributes: a sequence is submitted once, and listed
if no task is turned down; tasks are revoked with a trace in the statuses, flushed, removed and cleared
without; the thread takes one IDLE task at a time, out of the queue and after those it depends on, may expire
others on the way without telling their sequences, and records the outcome unless the sequence
was cleared; an event of a progress attribute is for all listed tasks that watch it. Both modules implement it, by a
mapping of their own: `heldTask` is the task whose command runs (in `TaskManager` by
the position of the thread); in `DishManager` tasks and sequences go by number and kind.

`TaskManager` implementing it means that the code's scheduler can do nothing beyond it to statuses, queue and
list; `DishManager` implementing it, that the dish model stays within the same rules.
What it does not show is that `DishManager` includes all
steps the task manager may take. That part is by construction, and has limits: the queue has room for
every sequence of the dish and the progress attributes it needs exist, so that none is refused half way; and
the commands by which clients revoke or clear sequences one by one are left out.

### FormulaEvents

A proxy has one attribute, whose readings are numbered. `link` is how the
proxy answers to pings, `online` and `timeout` what its helper makes of it
(`Monitored`, `RunStatusOf`). `RegisterProxy` sets the timer before it first pings, so
that there is one whatever those pings say; `Init` is after the first ping, which may have been
unclear. The downtime before a proxy is HARD_OFFLINE is taken to be positive. `subscribed` is renewed by polls, `queue` is bounded by
its high water mark and a post that times out loses the event. The handler thread and the polls go
through the formulas in the same small steps: evaluate, write the attribute,
read it back, tell the tasks (`PC`), and any of them may be overtaken by the
other thread. `created` is the variables that have their attribute data; an
event before that is dropped. The progress attributes of the dish have formulas
of one variable, and events in the modes CHANGE, PERIODIC and USER
(`dish_manager_cfg.j2:4561`), of which the periodic ones repeat a reading.

### Starter

`proc` is the truth about a server's process, `ping` what its ping thread found last, `state`
what the polled attribute made of it; commands and restarts decide on `state`.
`levels` is the shared list (`StartProcessShared`), `threads` the
`StartProcessThread`s with the level and the servers they still have to start.
A thread waits until the first level of the list is not below its own, goes
through its servers in their order (`First`), waits after the last and removes
the first entry of its level. The stop command of a level (`DevStopAll`) removes the
level from the list, and ends at the first server that does not answer (`StopsAt`). The commands
take any level, also 0, which stands for a single server.

A start may come to nothing in three ways, each of which uses up `trouble`: `processCouldStart` does not
find the executable (`TryToStart`), the level is announced and then the thread cannot be created or started
(`unborn`), fork or exec fails (`Fork`). `thwarted` remembers the servers concerned, and those whose level was removed
before their turn.

### AlarmTable

One alarm. `stat`, `ack`, `enabled`, `shelved`, `silenced`, the counters
and the two times (as "has passed") are its fields in the table; `entry` is its
copy in `alarmed`, by which `Ack` finds it; `listed` the list that clients
read. Three threads write: the alarm thread (`TakeEvent`, `Update*`), the
update thread (`TimerLook`, `TimerMark`, `TimerStat`) and commands. All hold
only the reader's side of the table's lock while they write, so the model lets
them interleave between any two groups of assignments. Assignments that
belong together and are made one after the other without anything in between
are one step, and a field has either its old or its new value: stat and ack are
strings in the code, whose assignment is not atomic.

`prepare_alarm_attr` holds a mutex of its own. It tests the alarm for one list after the other
(`Lists`, `Test`), then looks whether it is on or off (`Alarmed`) and finds its entry (`FindActive`,
`FindNormal`); it adds or erases an entry after changing the reader's side of
`alarmedlock` for the writer's (`Push`, `Erase`), in steps of their own, since commands may write
table and `alarmed` in between. The two fields a test reads are read together. An iterator that is
used after a command has erased an entry may erase anything (`Erase`, `OtherErase`): `stale` is set
then. It is called when `update` or
`timer_update` say that something has changed, at the end of each command, and
because of other alarms (`OtherAlarm`), for it goes through all of them. `Ack` is three steps: the
table, the entry after the event pushes, the removal of entries that are back
to normal.

### Archiver

`running`, `paused` and `stopped` are the flags of the listed attributes, and they
overlap while one is being stopped; `numbers` is what the device shows of them. `proxy`,
`eventId` and `heard` are the fields `attr`, `event_id` and `evstate` of a
signal; `live` is the truth about its subscription, which the thread writes to
`eventId` only after both calls of `subscribe_event` (`Subscribe`,
`SubscribeConf`, `Note`). When the second of them fails the callback is deleted and the first
subscription stays (`Failed`): it remains in `live` and is `dangling`, until a stop deletes the proxy.

`sub` is the thread: storing (`Top` to `Lower`), a round over the attributes
(`Visit` to `Failed`) with `veclock` held for reading, so that `AttributeAdd` and
`Erase` wait for its end, then `Count`, `Decide` and `Wait`. `Woken` is
`signal()`: who waits is woken, who is about to wait hears nothing. `action++` and
`action--` are a read and a write each (`Load`, `Store`, `LowerRead`, `Lower`).
`action += HDB_NOTHING`, when an attribute is started again, is left out: like them
it may only write back a value that has been read.

`cmd` is the one command under way. `stop` releases `siglock` while it undoes a
subscription, so `Halt` and `Dropped` are two steps. `AttributeAdd` and
`SetAttributeStrategy` start or stop the attribute at their end (`choose`), depending on
the context. `Init` is the moment `initialize` returns: the thread has made its first
round and everything is stopped. A proxy or callback that is used after
its deletion ends the process (`alive`).

## 3. Runs

Passing runs:

| Run | Checks | Instance |
|---|---|---|
| `scheduler` | `DependenciesComplete`, `NoRelaunch`, `CompletionSound`, `SequenceStatusCurrent`, `NoSequenceForgotten`, `NoIndependentTaskOverslept`, `ImplementsDispatch`, `ImplementsScheduler` | an asynchronous task and a dependent one in a sequence; another of the same name with a delayed task and one whose progress attribute is missing; a queue of three; reports RUNNING, COMPLETED, FAILED; clock to 4 |
| `liveness` | `QueueDrains`, `ThreadStops` | delayed and dependent synchronous tasks, one immediate |
| `server` | `DeletionCompletes` | two devices, immediate and delayed work, deleted and initialised at any time |
| `dependency` | `CyclesRefused`, `SortedTopologically`, `TimesFit`, `QueueOrderTotal` | three tasks, rows of up to two entries, four set-ups |
| `dish` | `PowerOrdersCurrent`, `NeverCutOff`, `OneSequencePerCommand`, `PowerCutHandled`, `ImplementsScheduler` | two modes, seven scenarios, two sequences, one handler pending |
| `events` | `TypeOK`, `EventsInOrder`, `FormulaFollows`, `TasksFollow`, `DownIsTold` | one proxy, one formula, two readings, a queue of two, one change of the link |
| `starter` | `TypeOK`, `LevelsOwned`, `LevelsInOrder`, `StoppedStaysDown`, `RestartUnlessStopped`, `EveryThreadEnds`, `HostSettles` | a server on each of two levels, three threads, one command, one failure of a server or a start |
| `archiver` | `TypeOK`, `CountersRight`, `StoppedIsSilent`, `SubscriptionKnown`, `FailedIsRetried` | two attributes, any of them listed at the start, three commands, a data base that may fail |
| `alarm` | `TypeOK`, `AlarmShown`, `StatusFollows` | no delay, with two changes and a command; silence, disable or shelve with a change and a command, and other alarms beside the first two; on delay or both with a change and events that go on |

What they show:

- *No command is started twice* (`NoRelaunch`), and the scheduler refines
  `TaskDispatch`: at most one dispatch per task, one at a time, after the work
  it needs, never after it was dropped.
- *One scheduler* (`ImplementsScheduler`, in both runs): task manager and dish do to statuses, queue and
  list only what `Scheduler` allows.
- *COMPLETED is the truth* (`CompletionSound`): of the task itself or, where a progress
  attribute is shared, of a task that shares it; and dependents wait for it. That *dependents wait for
  the work of their own dependencies* (`DependenciesComplete`) holds in this instance, in which no two tasks
  watch the same attribute, and not in the run `shared_attribute`.
- *Sequence statuses* are what `ComputeStatus` says, but for tasks found expired
  since and for sequences that have had no status change yet
  (`SequenceStatusCurrent`): these two exceptions are the code's. What the statuses of the tasks are
  worth is another matter, see below.
- *Nothing is slept over* but dependent tasks in the timed wait, tasks whose attribute another task
  has reported in, and tasks a failed `AddTaskSequence` left behind. *Every task leaves the queue* and *the
  thread can be joined*.
- *Power.* Orders to switch power are never older than the last handling of the
  opposite event, no controller loses its power before its system was shut down, and
  a power cut that lasts is handled, though the handlers flush and revoke each
  other's sequences at any step.
- *Deletion* of a device comes to its end, unless another device of the process is initialised in between.
- *Guards.* Polls, resets and reports of other commands' tasks let no second
  sequence of a dish command wait beside the first, unless a task fails or expires.
- *Readings* stay in order from the sub-element to the formula's variable, the last
  one arrives in the attribute and at the tasks, and a proxy that is down for
  good is told to them, whichever event was lost and whichever thread wrote
  last.
- *Levels* start in order until somebody calls `DevStartAll`; every level in the list has its
  thread, or had one that could not be created, which is the only way for a level to stay behind; a server at rest
  is only started by a command; threads end, and a failed server is started again although state,
  ping and process disagree for a while.
- *An alarm* ends up as its formula says. One without delays or shelving, when nothing is left to be shown, is
  in no list of the other status and has its entry while it is on; what has to be acknowledged is
  listed as such. An alarm whose silence has just ended may be missing in the list it belongs to.
- *An archived attribute* that is stopped has nothing left of its subscription, unless the process has ended because
  the thread was inside a call of the proxy that the stop deleted (`UseProxy`);
  a subscription lacks its `event_id`, and is made a second time, only when
  its second call has failed; the numbers of started, paused and stopped attributes are right between the
  steps of any command; and a subscription that failed is tried again.

Runs that end in a counterexample, where the code does not do what its
documentation says (`findings` quotes the lines):

| Run | Property | Behaviour |
|---|---|---|
| `shared_attribute` | `DependenciesComplete` | with two watchers of one attribute a dependent task runs before the work it needs |
| `power_comes_back` | `PowerRestoreHandled` | a cut during a startup flushes it; its progress attribute goes on saying RUNNING and later restores are ignored |
| `hard_offline` | `FallbackKept` | the attribute of a proxy that is down for good neither keeps the safe value nor gets the quality INVALID |

Met while modelling and not given a run of its own:

- Scheduler. `RevokeTask` cancels a task the thread holds, which runs all the
  same (`LMCDevice.cpp:3121`, `utils/TaskManager.cc:754`); a progress event that is handled before
  `ExecuteTask` has written RUNNING is overwritten, so that a task that is COMPLETED says RUNNING until the
  event is repeated (`utils/TaskManager.cc:187`); flushed tasks stay IDLE for ever
  (`LMCDevice.cpp:2785`); the filter of `ClearCompletedSequenceTasks` is
  inverted (`utils/TaskManager.h:279`); `m_maxTasksInCollection` is never
  enforced (`utils/TaskManager.cc:228`); `PopTask` spins while only dependent
  tasks that wait are queued (`utils/TaskManager.cc:412`).
- Static signals. Initialising a device resets the end signal of another, whose
  join may hang (`utils/TaskManager.cc:67`); a second
  device may consume the wake-up signal of the first (`utils/TaskManager.cc:452`).
- `DishManager`. A dish command is refused for ever after its sequence was flushed or has
  expired half way, because its progress attribute goes on saying INIT or RUNNING
  and `UpdateStatusAttrs` undoes even `ResetDishTasks`
  (`DishManager.cpp:1474`); EXPIRED and FAILED dominate in `ComputeStatus`, so that
  a second sequence may be let in while the first goes on; the restore handler
  returns before it revokes when the status is still ON, so a pending shutdown
  proceeds (`DishManager.cpp:4018`, against its comment at 3857).
- Events. The handler for the loss of the telescope manager runs again at every period of `MonitorProxies`;
  `utils/FormulaManager.cc:198` tests `attr_name` where `proxy_attr_name` is
  meant; `SubscribeProxyToEvents` has an inverted test, but no caller
  (`utils/TangoProxyManager.cc:292`).
- `LMCStarter`. `DevStartAll` leaves a server marked as stopped, which is then
  not started again when it fails (against `LMCStarter.h:152`); `DevStopAll` ends at the first server
  that does not answer (against `LMCStarter.h:352`); after `DevStartAll` threads of two
  levels may run at once (against `LMCStarter.h:497`); a thread that waits for its level
  starts a server that `DevStop` has ended meanwhile (`StartProcessThread.cpp:90`); `DevStopAll` of level 0 takes
  away the level of a single start under way, which then comes to nothing (`LMCStarter.cpp:1840`); a level
  whose thread cannot be created stays in the list, later levels wait for it for ever, and the host says
  MOVING (`LMCStarter.cpp:2271`);
  `get_current_level` reads the first element of an empty vector
  (`StartProcessThread.cpp:354`).
- `AlarmHandler`. The lists are empty until the first change after the start. With a
  delay, the update thread may find the delay over, the alarm thread handle the
  event that ends the alarm, and the update thread then write ALARM: if no
  other event comes the alarm stays on; in the same way a change may be written by a thread
  that found none, and is not shown. The end of silence or shelving that `update` notices is no
  change, and is shown only with the next one; when it falls between two tests of `prepare_alarm_attr`,
  an alarm that is on is in no list until then (`alarm_table.cpp:358`, `AlarmHandler.cpp:5758`). The end of a silence acknowledges an
  alarm nobody has acknowledged. An unacknowledged alarm that is disabled or shelved
  and goes back to normal cannot be acknowledged any more, for it is not in
  `alarmed`. `Ack` may remove the entry of an occurrence that began while it
  pushed its events. `prepare_alarm_attr` gives up the reader's lock before it takes the
  writer's, and its iterator may be invalid by then (`AlarmHandler.cpp:5985`). The
  counter of a delay is incremented before its time is set, so that the update thread
  may raise the alarm without delay.

- `HdbEventSubscriber`. A command that stops an attribute while the thread is
  subscribing it deletes the proxy the thread uses (`SubscribeThread.cpp:1325`);
  the callback of a live subscription is deleted when the second call of
  `subscribe_event` fails (`SubscribeThread.cpp:1355`); `delete_device` hangs in
  `join` when its signal comes before the thread waits (`HdbDevice.cpp:84`); a list
  that could not be stored is not stored again (`HdbDevice.cpp:455`). When an attribute is
  started and its proxy cannot be made, `add` throws before its `signal()`, and a thread that waits
  without limit goes on waiting (`SubscribeThread.cpp:295`, against its comment at 2712).
  `state()` looks only at `evstate`, so that an attribute that runs without
  subscription leaves the device ON when an event came with the first call of
  `subscribe_event` and the second failed (`SubscribeThread.cpp:2653`, against 2643).
  `action++` of a command and `action--` of the thread hold no common lock: an update may be
  lost, and a change of the list is then not stored (`SubscribeThread.cpp:1441`).

### Bounds and why they are enough

- Scheduler: four tasks in two sequences of one name: a dependency, an unrelated
  task that can come first, between or last, and one that is refused. Interaction in this
  code is pairwise (dependency, attribute, name, order), and the thread holds one
  task at a time. `MaxTime` (4) lets every activation and expiration in `Info` fall
  before, between and after the steps of the others. The clock stops there. `Reports` leaves out
  IDLE, which the theorems have and which like RUNNING is not final. A queue of three (`MaxTasksInQueue`) turns the
  second sequence away while both tasks of the first are queued, and lets it meet one of them (95,933 states).
- `TaskServer`: two devices are enough for one to disturb another; `now` and
  `later` put an immediate task and one with an activation into one queue (95,013 states).
- `TaskDependency`: with three tasks there are chains, joins, forks, transitive
  and repeated edges, and cycles of length one to three (140,608 initial states, 694,720 states).
  The theorems hold for any number of tasks and any rows.
- `dish`: two sequences, for guards, flushes and revocations concern a pair of them; one
  kind of trouble at a time, each with the command or handler it can disturb: a flush and a
  reset of the tasks with a mode command of several sub-elements, the loss of the telescope manager
  with another (223,215 states).
  The theorems have no such bounds.
- `events`: two readings make an old and a new one, a queue of two can be full, one change of
  the link is a fault or its end (131,613 states). Larger by hand: two proxies in one formula
  without faults, safety only, 5,454,087 states.
- `starter`: two levels and three threads let a level wait, a single server start
  beside it, and threads of one level meet; the failure may be one of a start (306,543 states). Larger by hand:
  two commands, safety, 4,343,896 states; one server and three commands with liveness,
  254,148 states.
- `alarm`: two changes let an alarm go on and off behind the back of a thread that
  is between test and write, or between two tests; one command meets a change. With delays and events that go
  on, one change is followed by any number of events. Counters count to two (`Many`),
  for the code asks only for zero, one or more. Larger by hand: two commands
  and two changes, with delays one command, safety, 1,113,755 states.
- `archiver`: the thread works on one attribute while a command concerns the same or
  another; three commands are a stop, a start and one to disturb them, or the three
  that raise `action` to its limit (1,367,640 states).
- No symmetry is used: tasks, servers and devices differ, or liveness is checked.
- `CHECK_DEADLOCK FALSE` in `dependency`, `dish`, `events`, `starter`, `alarm`
  and `archiver`: what ends there is the supply of commands, faults and changes.

### Fairness

- `TaskManager`: weak fairness of the thread and of the clock. The operating
  system runs the thread; a Tango command returns or times out
  (`TangoProxyHelper`); the mutex is released after finitely many steps. Clients,
  sub-elements, events and spurious wake-ups get none. Since the clock stops at
  `MaxTime`, all expirations in an instance lie before it.
- `TaskServer`: also of `Stop` and `Join`, for `delete_device` goes on once begun, and
  of `Activate` (the clock), but not of calls.
- `DishManager`: the thread, handlers and a command once begun; strong fairness of
  the polls of the power sequences' status, which wait for a monitor that is free now and then;
  completion of work by sub-elements, and the periodic events of the power
  attributes. Not of failures, expiry, clients or the mains.
- `FormulaEvents`: the handler thread and a poll once begun; strong fairness of the
  polls and of the events, which are periodic, as the monitor and room in the queue come and go.
  Not of faults.
- `Starter`: the threads, pings that find the truth, and the polling of
  `Servers`. Not of commands or failures.
- `AlarmTable`: the steps of an operation once begun, of each thread for itself (`GoesOn`), the passing of a delay,
  and, where events go on, `Repeat`. Strong fairness of taking events (the
  list is first in, first out, and events of other alarms come in between), of
  the update thread's look (each of its rounds looks at all alarms) and of
  `Lists` (a mutex others hold now and then). Not of changes, of the end of a silence, or of commands.

- `Archiver`: the thread, whose remote calls answer or time out, the end of its
  retry period, and a command once begun. Not of commands, events or deletion.

## 4. Proofs

All theorems hold for any number of tasks, sequences, attributes, devices,
proxies, formulas, servers, levels, changes or commands.

From the assumptions in the modules (`InfoAssumption`: what the setters of
`Task` and `AddTask` guarantee of tasks; `OrderAssumption`: distinct tasks, and
dependent ones start later, which `ReadyTheorem` proves of what `SetTaskDependency`
accepts; the other `...Assumption`s give constants their types):

`TaskDependency_proofs` has one invariant, `Inv`, for the whole call:

- `QueueOrder`, `DependenciesFirst`, about any set of tasks. A task is compared by its
  rank (start, priority, expiration, key); with latest starts after those of the
  dependencies, the rule "dependencies first" follows from the rank, and the
  order of ranks is strict and total. `BeforeIsOutranks` is the step that matters.
- `CyclesRefusedTheorem`. `SearchInv`: the call stack is a chain of
  dependencies, so that coming back to it closes a cycle (`BackOnStack`). The tasks visited
  and no longer on the stack depend only on such tasks, and hold no
  cycle: a new one would have to contain the task left last
  (`LeavingNoCycle`). At the end all tasks are of this kind. The converse matters as
  much: what is refused has a cycle, so that shared or repeated dependencies are never refused.
- `SortedTheorem`. `SortInv`: `order` lists once each task left behind, each after all it
  depends on. That a task on the stack is not met in the second search rests on the
  verdict of the first (`VerdictInv`), as the code has it.
- `TimesFitTheorem`, `QueueOrderTheorem`. `TimesInv`: the times of the tasks before `loop` in
  `order` are final and fit, and `latest` is at least the due time of every dependency looked
  at so far; the order ensures that these had their times before.
- `ReadyTheorem`: the accepted tasks of a sequence meet the assumptions that `TaskManager`
  makes of tasks. Across sequences nothing but unique keys is left to assume, for `deps` are
  indexes within a sequence; so the theorems below apply to what clients can submit.

`TaskManager_proofs`:

- `TypeCorrect`, then `DispatchInvariant`. `NoRelaunch` alone is not inductive: an
  `AddTaskSequence` could queue what was started. `DispatchInv` adds that
  everything queued, held or started belongs to a submitted sequence, and that work
  only begins when a command is started.
- `QueueIsBounded`: cardinality of finite sets, the quota in `AddTaskSequence`.
- `NothingForgotten`: only an `AddTaskSequence` that fails half way queues without
  signal.

- `CompletionInvariant`. That dependents only start after finished work needs that every
  status and every attribute that says COMPLETED says so of finished work, and that the
  thread carries no false outcome to `RecordOutcome`: that is
  `CompletionSound`, inductive with `TypeOK` and `DispatchInv`. An event gives the status to all that watch
  the attribute, which is why it speaks of the work of those that share it (`Accomplished`); a task that
  shares its attribute with nobody has only its own. `DependenciesComplete`, which speaks of the work of the
  dependencies themselves, is no theorem: see the run `shared_attribute`.
- `NoneOverslept`. The timed wait is right because the awaited task is the
  first of those without dependencies to become due (`AwaitedFirst`), and
  stays so because only a report can make a queued task IDLE (`BecomesIdle`), and what has been reported
  stays (`ReportedStays`).
- `SequencesFollow`. `SequenceStatusCurrent` lets a sequence be behind only by expirations that
  `PopTask` has not told it of. To be inductive (`SequenceInv`) it needs to know what a task was before
  it is marked EXPIRED: a queued task is IDLE or what a report has made of it (`QueuedStatus`), for
  nobody else writes its status; and that a sequence that was not submitted still
  says INIT, so that `AddTaskSequence` starts from statuses that agree.
- `Refinement`: every step maps to one of `TaskDispatch` or to a stutter under
  `stageOf`; that a task is taken after the work it needs is `CompletionInvariant`.
- `SchedulerRefinement`: every step maps to one of `Scheduler` or to a stutter, from
  `TypeOK` and `DispatchInv`. A queued task belongs to a submitted sequence, so that a
  submission queues only what was not; a scan that finds nothing runnable is a `Scan`, and so is
  the way of `PopTask` to a task it waits for; a report is `Report` whichever task started the
  work. Two steps of the thread that touch nothing of this (sleeping, waking) are stutters.

`TaskServer_proofs`: `ServerTypeCorrect`; `EndIsHeeded`: after `End` only the initialisation of
another device takes the flag down, and a thread that finds it up goes into no wait;
`AloneNotOverslept` for a process with one device, where `ImmediateWorkNotOverslept`
holds.

`DishManager_proofs`: `DishTypeCorrect`.

- `PowerOrdersTheorem`. `PowerOrdersCurrent` is not inductive: between the flush or
  revocation of a handler and the submission of its own orders nothing may queue an order
  of the opposite kind (`HandlerPrepared`), and an order belongs to a sequence
  of its own kind (`OrdersKnown`). No other thread submits power orders, which is why the three steps
  of a handler need no lock.
- `NeverCutOffTheorem`. `SwitchOffPrepared`: while an order to switch off is queued, its
  shutdown says COMPLETED only if the system is halted, and the order in work has seen
  that; whatever switches the power on revokes first.

- `OneSequenceTheorem`, in runs without failures and expiry (`Calm`). The guard of a
  command reads a progress attribute that the polling thread and the resets write. `OneInv`:
  as long as a task of a command waits (`ModeWaiting`), its sequence is the last of its
  kind, so that it is the one that is polled, and its status, the attribute, and what a
  poll under way has read and not yet written all say that it is going (`Guarded`); a reset has
  flushed the queue before it writes the attribute.

- `DishImplementsScheduler`: every command, handler, poll and report maps to a step of `Scheduler`
  or to a stutter, for any modes, scenarios and numbers of sequences. It needs `SchedInv`: the
  invariants behind `PowerOrdersCurrent`, of which `OrdersKnown` says that what is queued or run belongs to a
  sequence of its own kind, and that a sequence not yet submitted has the status INIT (`Unsubmitted`).

`FormulaEvents_proofs`: `EventsTypeCorrect`; `EventsOrdered` splits
`EventsInOrder` into the order within the queue, of the queue after the
event in work, of that after the variables, and of all before the reading of the
sub-element (`OrderInv`); `NeverStepsBack` follows, since only the event in work sets variables.

`Starter_proofs`: `StarterTypeCorrect`; `LevelsOwnedTheorem` (the owner of an entry is
given for each step, also the slot of a thread that could not be created; `FirstRemoved` says what
`RemoveFirst` leaves);
`LevelsInOrderTheorem` (with `LevelsAscend`: without `DevStartAll` the levels other than
0 are listed in ascending order); `StoppedStaysDownTheorem` (`StoppedKnown`: a server
down by `DevStop` is marked as stopped until the polled state says FAULT, and then its
ping says so too; so no poll restarts it, and a thread only forks what it has to start).

`AlarmTable_proofs`: `AlarmTypeCorrect`, which includes that one thread at a time is in
`prepare_alarm_attr` and that the entry `Ack` works on stays.
`AlarmShownTheorem`: `AlarmShown` speaks of moments when nothing is to be shown,
`ShownInv` of all. Without delays and shelving the alarm thread alone writes the status, and knows
from its test whether that changes it (`OneWriter`); so while no thread has still to call
`prepare_alarm_attr` (`NoneToList`) the status stays, and a thread that has come to a test knows what
the tests before it have excluded (`Passed`), up to an acknowledgement by the end of a silence. From that
the list is right after the last test (`ListRight`, `ListShown`). The entry follows in later steps of
the same call (`EntryShown`).

`Archiver_proofs`: one invariant (`Inv`) for `ArchiverTypeCorrect`,
`ArchiverStoppedIsSilent` and `ArchiverSubscriptionKnown`. `Accounted` says that a subscription
with its callback has its `event_id` or is being noted. `Held` is what makes them
inductive: an attribute is running or paused and stopped at once only while the command
under way undoes its subscription, and the attribute the thread works on has no
`event_id`, so that such a stop does not find it. `ArchiverCountersRight`
follows each command through the sets that are counted (`CountersChange`), with
finite cardinalities; a stop changes the numbers at its first step, when the attribute
leaves `running \ stopped`, and nothing at its second (`DroppedCounted`).

`Invariance`, `ReadyTheorem`, `QueueOrder`, `DependenciesFirst`, `DispatchInvariant`,
`QueueIsBounded`, `EndIsHeeded` and `NeverStepsBack` are proved and in no run: the first
four are described above, `DispatchInv` is the invariant behind `NoRelaunch`, `EndHeeded` is a step on the
way to `DeletionCompletes`, `NoStepBack` follows from `EventsInOrder`, and the bound of the
queue from the quota.

Every invariant of the passing runs but `DependenciesComplete`, which holds only where no attribute is
shared, is a theorem, and so are the three refinements. The type invariants of
`TaskManager` and `DishManager` are proved (`TypeCorrect`, `DishTypeCorrect`) and in no run. Only model-checked: liveness (`QueueDrains`, `ThreadStops`, `DeletionCompletes`,
`PowerCutHandled`, `FormulaFollows`, `TasksFollow`, `DownIsTold`,
`RestartUnlessStopped`, `EveryThreadEnds`, `HostSettles`, `StatusFollows`,
`FailedIsRetried`),
which the proof system cannot do under fairness.

## 5. Not modelled, and the plan

Left out of the modules above:

- Scheduler: `ModifyTaskAttr` and the accessors that hand
  out pointers to collected sequences; the text of statuses; times below a
  second (durations are divided to whole seconds by the code, and a duration below
  one becomes zero, see `hazards`); command arguments and formats; the ageing
  threshold of the clear operations (any set of sequences may be old enough).
- `DishManager`: pointing, tracking, capture and single sub-element commands, which go
  straight to a proxy, and the capability attributes.
- Events: what formulas compute, registration at run time, group commands,
  destruction of the device. `ProxyMonitorTask` is dead code: its
  initialisation has no caller.
- `LMCStarter`: `UpdateServersInfo` (changes of the data base at run time), log files, statistics.
- `AlarmHandler`: loading, changing and removing alarms, events that carry errors,
  forced evaluation (which happens only after another event), commands run by
  alarms, sound, each alarm's own attribute, alarms stored from an earlier run. The directory
  `AlarmHandler` is an older copy that is not built.

- `HdbEventSubscriber`: the push thread with its queue to the data base, statistics, polling,
  contexts, names and ttl values, the reading of attribute lists and of the configuration
  file. `Start`, `Stop`, `Pause` and a change of context are the commands for single
  attributes, one after the other.

Done, in this order: scheduler, dependencies, shared signals, `DishManager`, event
path with formulas and proxies, `LMCStarter`, `AlarmHandler`, `HdbEventSubscriber`, each
with its proofs, and the scheduler that task manager and dish share.
Next, most important first:

1. The push thread of `HdbEventSubscriber`: its queue and the state of the data base.
2. `UpdateServersInfo` of `LMCStarter`; `Load`, `Remove` and `Modify` of `AlarmHandler`
   against the threads.
3. Destruction of `LMCDevice` against task thread and callbacks.

Not to be modelled, with reasons, under `components` in `PROJECT.json`: generated
device classes, drivers that copy values (`DSManager` is most of the lines of the repository that are
not generated), parsing and logging utilities, deployment scripts, vendored code in `src/external`.
