----------------------------- MODULE TaskServer ------------------------------
(***************************************************************************)
(* The task schedulers of all devices in one server process.  Each device  *)
(* has a TaskManager and a task thread of its own, created by init_device  *)
(* and destroyed by delete_device; but m_wakeUpSignal and m_endSignal are  *)
(* static members, one pair for all of them, while each manager has its    *)
(* own mutex and condition variable.  A server like that of the archivers  *)
(* holds four devices.                                                     *)
(*                                                                         *)
(* What TaskManager says of one queue is cut down here to work that may    *)
(* run at once or has to wait for its activation.  A notified thread and   *)
(* the flags it was notified about are separate: by the time it has the    *)
(* mutex again, another device may have changed them.                      *)
(***************************************************************************)
EXTENDS Naturals, FiniteSets

CONSTANTS
    Device,          \* the devices of the process
    Work,            \* the tasks a device may be given
    Delayed          \* those of them that have an activation time

ASSUME WorkAssumption == Delayed \subseteq Work

VARIABLES
    wakeUp,     \* m_wakeUpSignal, static
    ended,      \* m_endSignal, static
    phase,      \* phase[d]: how far delete_device has come, or "up"
    pc,         \* pc[d]: where the task thread of d is
    queue,      \* queue[d]: the queue of its manager
    due,        \* due[d]: the delayed work whose activation time has come
    awaited,    \* awaited[d]: the work whose first activation ends a timed wait
    overruled   \* history: the devices that are being deleted and whose end
                \* signal another one's init_device has reset

vars == <<wakeUp, ended, phase, pc, queue, due, awaited, overruled>>

\* delete_device calls End (ended) and Stop (stopping), and joins the thread
\* before it deletes the manager (down).
Phase == {"down", "up", "ended", "stopping"}

\* As in TaskManager; a thread notified in the first wait of PopTask evaluates
\* its condition (pop), one notified in the timed wait does so, too (woken).
PC == {"loop", "pop", "asleep", "timed", "woken", "run", "done"}
InWait == {"asleep", "timed"}

Init ==
    /\ wakeUp = FALSE /\ ended = FALSE
    /\ phase = [d \in Device |-> "down"]
    /\ pc = [d \in Device |-> "done"]
    /\ queue = [d \in Device |-> {}]
    /\ due = [d \in Device |-> {}]
    /\ awaited = [d \in Device |-> {}]
    /\ overruled = {}

Ready(d) == {w \in queue[d] : w \in Delayed => w \in due[d]}

Move(d, from, to) == pc[d] = from /\ pc' = [pc EXCEPT ![d] = to]

-----------------------------------------------------------------------------
(* The task thread of d *)

CheckStop(d) ==
    /\ Move(d, "loop", IF phase[d] = "stopping" THEN "done" ELSE "pop")
    /\ UNCHANGED <<wakeUp, ended, phase, queue, due, awaited, overruled>>

\* Faulty: sleep on an empty queue although the manager has ended.
PopSleepForEver(d) ==
    /\ queue[d] = {} /\ ~wakeUp
    /\ Move(d, "pop", "asleep")
    /\ UNCHANGED <<wakeUp, ended, phase, queue, due, awaited, overruled>>

PopSleep(d) ==
    /\ queue[d] = {} /\ ~wakeUp /\ ~ended
    /\ Move(d, "pop", "asleep")
    /\ UNCHANGED <<wakeUp, ended, phase, queue, due, awaited, overruled>>

\* The flag that is reset may have been meant for another device.
PopNothing(d) ==
    /\ ended \/ (wakeUp /\ queue[d] = {})
    /\ Move(d, "pop", "loop")
    /\ wakeUp' = FALSE
    /\ UNCHANGED <<ended, phase, queue, due, awaited, overruled>>

PopWork(d, w) ==
    /\ ~ended /\ w \in Ready(d)
    /\ Move(d, "pop", "run")
    /\ wakeUp' = FALSE
    /\ queue' = [queue EXCEPT ![d] = @ \ {w}]
    /\ due' = [due EXCEPT ![d] = @ \ {w}]
    /\ UNCHANGED <<ended, phase, awaited, overruled>>

PopAndWait(d) ==
    /\ ~ended /\ queue[d] # {} /\ Ready(d) = {}
    /\ Move(d, "pop", "timed")
    /\ wakeUp' = FALSE
    /\ awaited' = [awaited EXCEPT ![d] = queue[d]]
    /\ UNCHANGED <<ended, phase, queue, due, overruled>>

\* The activation time has come: the timed wait is over.
TimedOut(d) ==
    /\ awaited[d] \cap due[d] # {}
    /\ Move(d, "timed", "loop")
    /\ wakeUp' = FALSE
    /\ UNCHANGED <<ended, phase, queue, due, awaited, overruled>>

\* Notified in the timed wait: the thread evaluates the condition once it has
\* the mutex, and goes on waiting when both flags are down again.
WokenReturns(d) ==
    /\ wakeUp \/ ended
    /\ Move(d, "woken", "loop")
    /\ wakeUp' = FALSE
    /\ UNCHANGED <<ended, phase, queue, due, awaited, overruled>>

WokenWaits(d) ==
    /\ ~wakeUp /\ ~ended
    /\ Move(d, "woken", "timed")
    /\ UNCHANGED <<wakeUp, ended, phase, queue, due, awaited, overruled>>

\* ExecuteTask comes back.
Executed(d) ==
    /\ Move(d, "run", "loop")
    /\ UNCHANGED <<wakeUp, ended, phase, queue, due, awaited, overruled>>

ThreadStep(d) ==
    \/ CheckStop(d) \/ PopSleep(d) \/ PopNothing(d) \/ PopAndWait(d)
    \/ TimedOut(d) \/ WokenReturns(d) \/ WokenWaits(d) \/ Executed(d)
    \/ \E w \in Work : PopWork(d, w)

-----------------------------------------------------------------------------
(* The callers of the managers *)

\* notify_all on the condition variable of d wakes no other device's thread.
Notified(d) == [pc EXCEPT ![d] = CASE @ = "asleep" -> "pop"
                                   [] @ = "timed"  -> "woken"
                                   [] OTHER        -> @]

Signal(d) == wakeUp' = TRUE /\ pc' = Notified(d)

AddTaskSequence(d, w) ==
    /\ phase[d] = "up" /\ w \notin queue[d]
    /\ queue' = [queue EXCEPT ![d] = @ \cup {w}]
    /\ Signal(d)
    /\ UNCHANGED <<ended, phase, due, awaited, overruled>>

WakeUp(d) ==
    /\ phase[d] = "up"
    /\ Signal(d)
    /\ UNCHANGED <<ended, phase, queue, due, awaited, overruled>>

\* delete_device: End ...
End(d) ==
    /\ phase[d] = "up"
    /\ phase' = [phase EXCEPT ![d] = "ended"]
    /\ ended' = TRUE
    /\ pc' = Notified(d)
    /\ UNCHANGED <<wakeUp, queue, due, awaited, overruled>>

\* ... Stop ...
Stop(d) ==
    /\ phase[d] = "ended"
    /\ phase' = [phase EXCEPT ![d] = "stopping"]
    /\ UNCHANGED <<wakeUp, ended, pc, queue, due, awaited, overruled>>

\* ... and, once the thread is joined, the end of the manager and its queue.
Join(d) ==
    /\ phase[d] = "stopping" /\ pc[d] = "done"
    /\ phase' = [phase EXCEPT ![d] = "down"]
    /\ queue' = [queue EXCEPT ![d] = {}]
    /\ due' = [due EXCEPT ![d] = {}]
    /\ overruled' = overruled \ {d}
    /\ UNCHANGED <<wakeUp, ended, pc, awaited>>

Ending == {d \in Device : phase[d] \in {"ended", "stopping"}}

\* init_device: the constructor of the manager resets both flags, whoever they
\* were set for, and the thread starts.
InitDevice(d) ==
    /\ phase[d] = "down"
    /\ phase' = [phase EXCEPT ![d] = "up"]
    /\ wakeUp' = FALSE /\ ended' = FALSE
    /\ pc' = [pc EXCEPT ![d] = "loop"]
    /\ overruled' = overruled \cup Ending
    /\ UNCHANGED <<queue, due, awaited>>

Deletion(d) == Stop(d) \/ Join(d)

-----------------------------------------------------------------------------
(* The environment *)

Activate(d, w) ==
    /\ w \in (queue[d] \cap Delayed) \ due[d]
    /\ due' = [due EXCEPT ![d] = @ \cup {w}]
    /\ UNCHANGED <<wakeUp, ended, phase, pc, queue, awaited, overruled>>

\* A condition variable may wake up for no reason.
SpuriousWake(d) ==
    /\ pc[d] \in InWait
    /\ pc' = Notified(d)
    /\ UNCHANGED <<wakeUp, ended, phase, queue, due, awaited, overruled>>

-----------------------------------------------------------------------------
Next ==
    \E d \in Device :
       \/ ThreadStep(d) \/ WakeUp(d) \/ SpuriousWake(d)
       \/ InitDevice(d) \/ End(d) \/ Deletion(d)
       \/ \E w \in Work : AddTaskSequence(d, w) \/ Activate(d, w)

\* Threads run, delete_device goes on once begun, and time passes.
Fairness == \A d \in Device :
    /\ WF_vars(ThreadStep(d)) /\ WF_vars(Deletion(d))
    /\ \A w \in Work : WF_vars(Activate(d, w))

Spec == Init /\ [][Next]_vars /\ Fairness

-----------------------------------------------------------------------------
TypeOK ==
    /\ wakeUp \in BOOLEAN /\ ended \in BOOLEAN
    /\ phase \in [Device -> Phase]
    /\ pc \in [Device -> PC]
    /\ queue \in [Device -> SUBSET Work]
    /\ due \in [Device -> SUBSET Delayed]
    /\ awaited \in [Device -> SUBSET Work]
    /\ overruled \subseteq Device

\* From End to the join the flag is up and the thread is in no wait, so that it
\* reaches the test of m_stopThread, whatever other devices do but initialise
\* (delete_device, PopTask).
EndHeeded == \A d \in Ending \ overruled : ended /\ pc[d] \notin InWait

\* delete_device comes to its end: the join of the thread does not hang, unless
\* another device is initialised in between.
DeletionCompletes ==
    \A d \in Device : phase[d] = "ended" ~> phase[d] = "down" \/ d \in overruled

\* Work that may run at once is not slept over: whoever queues it wakes the
\* thread from either wait (AddTaskSequence, PopTask).  Of a device alone in its
\* process; another one's thread may take the flag that was meant for it.
ImmediateWorkNotOverslept ==
    \A d \in Device : /\ pc[d] = "timed" => queue[d] \subseteq Delayed
                      /\ pc[d] = "asleep" => queue[d] = {}
=============================================================================
