------------------------------ MODULE Archiver ------------------------------
(***************************************************************************)
(* HdbEventSubscriber: the attributes whose archive events it subscribes   *)
(* to and stores.                                                          *)
(*                                                                         *)
(* Commands run one at a time (the Tango monitor of the device) and change *)
(* the list and what is to run; the SubscribeThread stores the list in the *)
(* data base, subscribes what is not subscribed, and waits.  Start, Stop,  *)
(* Pause, StopFaulty and the attribute Context do one AttributeStart,      *)
(* AttributeStop or AttributePause after the other and are not separate    *)
(* here; nor are names, contexts and statistics.  What is under siglock is *)
(* one step; veclock is held for reading during a round of the thread.     *)
(***************************************************************************)
EXTENDS Integers, FiniteSets

CONSTANTS
    Attr,           \* the attributes there are to archive
    NoAttr,         \* no attribute
    DbFails,        \* whether put_device_property may fail
    MaxCommands     \* bound: the commands of clients

ASSUME ArchiverAssumption ==
    /\ NoAttr \notin Attr
    /\ IsFiniteSet(Attr)
    /\ DbFails \in BOOLEAN
    /\ MaxCommands \in Nat

VARIABLES
    listed,    \* SharedData.signals
    running, paused, stopped,   \* the flags of a signal
    numbers,   \* the attributes AttributeNumber, AttributeStartedNumber, ...
    proxy,     \* the signals with an AttributeProxy (attr)
    eventId,   \* those with an event_id
    live,      \* those with a subscription of their proxy
    dangling,  \* of these, those with one whose archive_cb is deleted
    heard,     \* those with evstate ON
    action,    \* how often the list is to be stored
    stored,    \* whether the property AttributeList agrees with the list
    sub,       \* the SubscribeThread
    stop,      \* stop_it
    cmd,       \* the command under way
    commands,  \* how many there were
    alive      \* the process has not used what is deleted

flagVars   == <<running, paused, stopped, numbers>>
eventVars  == <<proxy, eventId, live, dangling, heard>>
actionVars == <<action, stored>>
vars == <<listed, flagVars, eventVars, actionVars, sub, stop, cmd, commands, alive>>

\* The thread within a round, with veclock; about to wait; waiting.
Busy   == {"config", "subscribe", "confirm", "note", "failed"}
Round  == Busy \cup {"loop"}
Asleep == {"sleep", "nap"}
SubAt  == Round \cup Asleep \cup
          {"top", "copied", "written", "lower", "count", "decide", "toSleep",
           "toNap", "ended"}

CmdAt == {"idle", "load", "store", "signal", "ttl", "choose", "drop", "erase",
          "join", "gone"}
Op    == {"none", "add", "strategy", "ttl", "stop", "remove"}

-----------------------------------------------------------------------------
\* build_signal_vector has listed what the property AttributeList holds, and
\* initialize has waited for the first round: nothing is started yet.
Init ==
    /\ listed \in SUBSET Attr
    /\ running = {} /\ paused = {} /\ stopped = listed
    /\ numbers = [all |-> Cardinality(listed), started |-> 0, paused |-> 0,
                  stopped |-> Cardinality(listed)]
    /\ proxy = {} /\ eventId = {} /\ live = {} /\ dangling = {} /\ heard = {}
    /\ action = 0 /\ stored = TRUE
    /\ sub = [at |-> "count", left |-> {}, cur |-> NoAttr, some |-> FALSE,
              copy |-> FALSE, read |-> 0]
    /\ stop = FALSE
    /\ cmd = [at |-> "idle", op |-> "none", attr |-> NoAttr, read |-> 0]
    /\ commands = 0 /\ alive = TRUE

\* signal: who waits goes on; a thread that does not wait yet hears nothing.
Woken == IF sub.at \in Asleep THEN [sub EXCEPT !.at = "top"] ELSE sub

-----------------------------------------------------------------------------
(* SubscribeThread::run_undetached and put_signal_property *)

Goes(to) == sub' = [sub EXCEPT !.at = to]

\* A round begins: subscribe_events holds veclock till its end.
BeginRound == sub' = [sub EXCEPT !.at = "loop", !.left = listed, !.read = 0]

\* When there is something to store, the list is copied.
Top ==
    /\ sub.at = "top" /\ ~stop
    /\ IF action > 0 THEN sub' = [sub EXCEPT !.at = "copied", !.copy = TRUE]
                     ELSE BeginRound
    /\ UNCHANGED <<listed, flagVars, eventVars, actionVars>>

\* put_device_property may fail, which is only logged.
Write ==
    /\ sub.at = "copied"
    /\ stored' \in {sub.copy} \cup (IF DbFails THEN {stored} ELSE {})
    /\ Goes("written")
    /\ UNCHANGED <<listed, flagVars, eventVars, action>>

\* action-- reads ...
LowerRead ==
    /\ sub.at = "written"
    /\ IF action >= 1 THEN sub' = [sub EXCEPT !.at = "lower", !.read = action]
                      ELSE BeginRound
    /\ UNCHANGED <<listed, flagVars, eventVars, actionVars>>

\* ... and writes, not protected from the ++ of a command.
Lower ==
    /\ sub.at = "lower"
    /\ action' = sub.read - 1
    /\ BeginRound
    /\ UNCHANGED <<listed, flagVars, eventVars, stored>>

\* nb_sig_to_subscribe.
Count ==
    /\ sub.at = "count"
    /\ sub' = [sub EXCEPT !.at = "decide",
                          !.some = \E a \in listed \ stopped : a \notin eventId]
    /\ UNCHANGED <<listed, flagVars, eventVars, actionVars>>

\* Faulty: waits for a signal even though there is something to subscribe.
DecideLong ==
    /\ sub.at = "decide"
    /\ Goes(IF action # 0 THEN "top" ELSE "toSleep")
    /\ UNCHANGED <<listed, flagVars, eventVars, actionVars>>

\* Waits without limit when nothing is to subscribe, and for the retry period
\* otherwise.
Decide ==
    /\ sub.at = "decide"
    /\ Goes(CASE action # 0 -> "top"
              [] action = 0 /\ sub.some -> "toNap"
              [] OTHER -> "toSleep")
    /\ UNCHANGED <<listed, flagVars, eventVars, actionVars>>

\* The mutex is held from the decision to the wait, but signal() does not take it.
Wait ==
    /\ \/ sub.at = "toSleep" /\ Goes("sleep")
       \/ sub.at = "toNap" /\ Goes("nap")
    /\ UNCHANGED <<listed, flagVars, eventVars, actionVars>>

\* The retry period is over.
Retry ==
    /\ sub.at = "nap"
    /\ Goes("top")
    /\ UNCHANGED <<listed, flagVars, eventVars, actionVars>>

\* unsubscribe_events, when the thread sees that it is to stop.
Leave ==
    /\ sub.at = "top" /\ stop
    /\ Goes("ended")
    /\ listed' = {} /\ proxy' = {} /\ eventId' = {} /\ live' = {} /\ dangling' = {}
    /\ running' = {} /\ paused' = {} /\ stopped' = {}
    /\ UNCHANGED <<numbers, heard, actionVars>>

-----------------------------------------------------------------------------
(* A round: subscribe_events *)

\* Nothing more to do for a: on to the next.
NextAttr(a) == sub' = [sub EXCEPT !.at = "loop", !.left = @ \ {a}]

\* Faulty: looks only at the subscription.
NotSubscribed(a) == a \notin eventId

\* What is not subscribed and not stopped is tried.
ToSubscribe(a) == a \notin eventId \cup stopped

Skip(a) ==
    /\ ~ToSubscribe(a)
    /\ NextAttr(a)
    /\ UNCHANGED eventVars

\* The proxy is still missing and cannot be made.
NoProxy(a) ==
    /\ ToSubscribe(a) /\ a \notin proxy
    /\ NextAttr(a)
    /\ UNCHANGED eventVars

\* Takes the proxy, or makes one as add does.
Prepare(a) ==
    /\ ToSubscribe(a)
    /\ sub' = [sub EXCEPT !.at = "config", !.cur = a]
    /\ proxy' = proxy \cup {a}
    /\ heard' = IF a \in proxy THEN heard ELSE heard \ {a}
    /\ UNCHANGED <<eventId, live, dangling>>

Visit(a) ==
    /\ sub.at = "loop" /\ a \in sub.left
    /\ Skip(a) \/ NoProxy(a) \/ Prepare(a)
    /\ UNCHANGED <<listed, flagVars, actionVars>>

EndRound ==
    /\ sub.at = "loop" /\ sub.left = {}
    /\ Goes("count")
    /\ UNCHANGED <<listed, flagVars, eventVars, actionVars>>

\* get_config and the two calls of subscribe_event; before each the thread has let
\* siglock go.  The proxy, while there is one, may answer or not.
Ask(from, to) ==
    /\ sub.at = from /\ sub.cur \in proxy
    /\ Goes(to) \/ Goes("failed")
    /\ UNCHANGED <<listed, flagVars, actionVars>>

GetConfig == Ask("config", "subscribe") /\ UNCHANGED eventVars

Subscribe ==
    /\ Ask("subscribe", "confirm")
    /\ live' = IF sub'.at = "confirm" THEN live \cup {sub.cur} ELSE live
    /\ UNCHANGED <<proxy, eventId, dangling, heard>>

SubscribeConf == Ask("confirm", "note") /\ UNCHANGED eventVars

\* event_id is set, whatever has become of the signal since.
Note ==
    /\ sub.at = "note"
    /\ eventId' = eventId \cup {sub.cur}
    /\ NextAttr(sub.cur)
    /\ UNCHANGED <<listed, flagVars, proxy, live, dangling, heard, actionVars>>

\* The callback goes, also that of a subscription that has been made, and stays.
Failed ==
    /\ sub.at = "failed"
    /\ eventId' = eventId \ {sub.cur}
    /\ dangling' = dangling \cup (live \cap {sub.cur})
    /\ NextAttr(sub.cur)
    /\ UNCHANGED <<listed, flagVars, proxy, live, heard, actionVars>>

ThreadStep ==
    /\ alive
    /\ \/ Top \/ Write \/ LowerRead \/ Lower
       \/ EndRound \/ Count \/ Decide \/ Wait \/ Leave
       \/ \E a \in Attr : Visit(a)
       \/ GetConfig \/ Subscribe \/ SubscribeConf \/ Note \/ Failed
    /\ UNCHANGED <<stop, cmd, commands, alive>>

RetryStep == alive /\ Retry /\ UNCHANGED <<stop, cmd, commands, alive>>

-----------------------------------------------------------------------------
(* Events, and what is used after it has been deleted *)

\* The subscription of a is noted, or the thread is about to.
Known(a) == a \in eventId \/ (sub.cur = a /\ sub.at \in {"confirm", "note", "failed"})

\* push_event: an event that comes, or an error in its place.
Event(a) ==
    /\ alive /\ a \in live /\ Known(a)
    /\ heard' \in {heard \cup {a}, heard \ {a}}
    /\ UNCHANGED <<listed, flagVars, proxy, eventId, live, dangling, actionVars,
                   sub, stop, cmd, commands, alive>>

\* check_periodic_event_timeout: nothing came for too long.
Timeout(a) ==
    /\ alive /\ a \in running \cap heard
    /\ heard' = heard \ {a}
    /\ UNCHANGED <<listed, flagVars, proxy, eventId, live, dangling, actionVars,
                   sub, stop, cmd, commands, alive>>

UsesDeleted ==
    /\ alive' = FALSE
    /\ UNCHANGED <<listed, flagVars, eventVars, actionVars, sub, stop, cmd, commands>>

\* The thread, a proxy that a stop has deleted.
UseProxy ==
    /\ alive
    /\ sub.at \in {"config", "subscribe", "confirm"} /\ sub.cur \notin proxy
    /\ UsesDeleted

\* An event, a callback that went with a failed subscription.
UseCallback == alive /\ dangling # {} /\ UsesDeleted

-----------------------------------------------------------------------------
(* Commands: the list and what is to run *)

\* A command comes when none is under way.
Command ==
    /\ alive /\ cmd.at = "idle" /\ commands < MaxCommands
    /\ commands' = commands + 1
    /\ UNCHANGED <<stop, alive>>

Continue(at) == alive /\ cmd.at = at /\ UNCHANGED <<commands, stop, alive>>

At(at, op, a) == cmd' = [at |-> at, op |-> op, attr |-> a, read |-> 0]
Done == At("idle", "none", NoAttr)

\* What is listed changes: neither the property nor a copy agrees any longer.
Changed == stored' = FALSE /\ UNCHANGED action

\* How many more attributes there are, and started, paused and stopped ones.
Numbers(more, moreStarted, morePaused, moreStopped) ==
    numbers' = [all |-> numbers.all + more, started |-> numbers.started + moreStarted,
                paused |-> numbers.paused + morePaused,
                stopped |-> numbers.stopped + moreStopped]

One(a, S) == IF a \in S THEN 1 ELSE 0

\* Writers of veclock wait for the end of a round.
AttributeAdd(a) ==
    /\ Command /\ sub.at \notin Round /\ a \notin listed
    /\ listed' = listed \cup {a} /\ stopped' = stopped \cup {a}
    /\ Numbers(1, 0, 0, 1)
    /\ Changed /\ sub' = [sub EXCEPT !.copy = FALSE]
    /\ At("load", "add", a)
    /\ UNCHANGED <<running, paused, eventVars>>

\* SetAttributeStrategy and SetAttributeTTL.
SetAttribute(op, a) ==
    /\ Command /\ a \in listed
    /\ Changed /\ sub' = [sub EXCEPT !.copy = FALSE]
    /\ At("load", op, a)
    /\ UNCHANGED <<listed, flagVars, eventVars>>

\* Faulty: one more is let through.
LoadMore ==
    /\ Continue("load")
    /\ cmd' = IF action <= 2 THEN [cmd EXCEPT !.at = "store", !.read = action]
                             ELSE [cmd EXCEPT !.at = "signal"]
    /\ UNCHANGED <<listed, flagVars, eventVars, actionVars, sub>>

\* action++ when it is small, and signal.
Load ==
    /\ Continue("load")
    /\ cmd' = IF action <= 1 THEN [cmd EXCEPT !.at = "store", !.read = action]
                             ELSE [cmd EXCEPT !.at = "signal"]
    /\ UNCHANGED <<listed, flagVars, eventVars, actionVars, sub>>

Store ==
    /\ Continue("store")
    /\ action' = cmd.read + 1
    /\ At("signal", cmd.op, cmd.attr)
    /\ UNCHANGED <<listed, flagVars, eventVars, stored, sub>>

\* AttributeAdd updates the ttl next, then starts or not, as SetAttributeStrategy.
Signal ==
    /\ Continue("signal")
    /\ sub' = Woken
    /\ CASE cmd.op = "add"      -> At("ttl", "strategy", cmd.attr)
         [] cmd.op = "strategy" -> At("choose", "strategy", cmd.attr)
         [] OTHER               -> Done
    /\ UNCHANGED <<listed, flagVars, eventVars, actionVars>>

UpdateTtl ==
    /\ Continue("ttl")
    /\ Changed /\ sub' = [sub EXCEPT !.copy = FALSE]
    /\ At("load", "strategy", cmd.attr)
    /\ UNCHANGED <<listed, flagVars, eventVars>>

-----------------------------------------------------------------------------
(* Starting, pausing and stopping an attribute *)

\* The context is the current one, or not; or the command of a client.
Asked(a) ==
    \/ Command /\ a \in listed
    \/ Continue("choose") /\ a = cmd.attr

Flags(a, in) ==
    /\ running' = IF in = "running" THEN running \cup {a} ELSE running \ {a}
    /\ paused' = IF in = "paused" THEN paused \cup {a} ELSE paused \ {a}
    /\ stopped' = stopped \ {a}

\* What stop ends with, when the subscription is gone.
Drop(op, a) ==
    /\ proxy' = proxy \ {a} /\ eventId' = eventId \ {a}
    /\ live' = live \ {a} /\ dangling' = dangling \ {a}
    /\ running' = running \ {a} /\ paused' = paused \ {a}
    /\ IF op = "remove" THEN At("erase", op, a) ELSE Done

\* Faulty: forgets that the attribute was paused.
StartNumbersStopped(a) ==
    Numbers(0, 1, 0, -One(a, stopped))

StartNumbers(a) ==
    Numbers(0, 1, -One(a, paused), -One(a, stopped))

\* add: the proxy, or an exception when it cannot be made, before the rest is reset
\* and signalled.  action += HDB_NOTHING is left out.
AddProxy(a) ==
    \/ /\ proxy' = proxy \cup {a}
       /\ eventId' = eventId \ {a} /\ heard' = heard \ {a}
       /\ sub' = Woken
    \/ UNCHANGED <<proxy, eventId, heard, sub>>

\* Faulty: a paused one too.
AddAlways(a) == AddProxy(a)

\* A stopped attribute is added again, and runs whether that has failed or not.
AddAgain(a) ==
    IF a \in stopped THEN AddProxy(a) ELSE UNCHANGED <<proxy, eventId, heard, sub>>

Start(a) ==
    /\ Asked(a) /\ a \notin running
    /\ Flags(a, "running") /\ StartNumbers(a)
    /\ AddAgain(a)
    /\ Done
    /\ UNCHANGED <<listed, live, dangling, actionVars>>

AttributePause(a) ==
    /\ Command /\ a \in running \ stopped
    /\ Flags(a, "paused")
    /\ Numbers(0, -1, 1, 0)
    /\ UNCHANGED <<listed, eventVars, actionVars, sub, cmd>>

\* stop: the flag first; then the subscription is undone with siglock released, or
\* there is none and the rest follows at once.
Halt(op, a) ==
    /\ a \in running \cup paused
    /\ stopped' = stopped \cup {a}
    /\ Numbers(0, -One(a, running), -One(a, paused), 1)
    /\ IF a \in eventId \cap proxy
       THEN /\ At("drop", op, a)
            /\ UNCHANGED <<running, paused, proxy, eventId, live, dangling>>
       ELSE Drop(op, a)
    /\ UNCHANGED <<listed, heard, actionVars, sub>>

AttributeStop(a) == Asked(a) /\ Halt("stop", a)

Dropped ==
    /\ Continue("drop")
    /\ Drop(cmd.op, cmd.attr)
    /\ UNCHANGED <<listed, stopped, numbers, heard, actionVars, sub>>

AttributeRemove(a) ==
    /\ Command /\ a \in listed
    /\ \/ Halt("remove", a)
       \/ /\ a \notin running \cup paused
          /\ At("erase", "remove", a)
          /\ UNCHANGED <<listed, flagVars, eventVars, actionVars, sub>>

Erase ==
    /\ Continue("erase") /\ sub.at \notin Round
    /\ listed' = listed \ {cmd.attr} /\ stopped' = stopped \ {cmd.attr}
    /\ Numbers(-1, 0, 0, -1)
    /\ eventId' = eventId \ {cmd.attr} /\ heard' = heard \ {cmd.attr}
    /\ Changed /\ sub' = [sub EXCEPT !.copy = FALSE]
    /\ At("load", "remove", cmd.attr)
    /\ UNCHANGED <<running, paused, proxy, live, dangling>>

\* Running although it is to run, or stopped although it is not.
Unneeded ==
    /\ Continue("choose") /\ cmd.attr \notin paused
    /\ Done
    /\ UNCHANGED <<listed, flagVars, eventVars, actionVars, sub>>

-----------------------------------------------------------------------------
(* The device is deleted *)

\* Everything is paused, which the thread does not look at, and it is told to stop.
Delete ==
    /\ alive /\ cmd.at = "idle"
    /\ running' = {} /\ paused' = paused \cup running
    /\ Numbers(0, -Cardinality(running), Cardinality(running), 0)
    /\ stop' = TRUE /\ sub' = Woken
    /\ At("join", "none", NoAttr)
    /\ UNCHANGED <<listed, stopped, eventVars, actionVars, commands, alive>>

Join ==
    /\ Continue("join") /\ sub.at = "ended"
    /\ At("gone", "none", NoAttr)
    /\ UNCHANGED <<listed, flagVars, eventVars, actionVars, sub>>

-----------------------------------------------------------------------------
GoOn == \/ Load \/ Store \/ Signal \/ UpdateTtl \/ Dropped \/ Erase \/ Unneeded \/ Join
        \/ cmd.at = "choose" /\ \E a \in Attr : Start(a) \/ AttributeStop(a)

Next ==
    \/ ThreadStep \/ RetryStep \/ UseProxy \/ UseCallback
    \/ GoOn \/ Delete
    \/ \E a \in Attr : \/ Event(a) \/ Timeout(a)
                       \/ AttributeAdd(a) \/ AttributeRemove(a)
                       \/ Start(a) \/ AttributeStop(a) \/ AttributePause(a)
                       \/ \E op \in {"strategy", "ttl"} : SetAttribute(op, a)

\* The threads go on; the retry period ends; what the thread has in hand it uses.
Fairness == /\ WF_vars(ThreadStep) /\ WF_vars(RetryStep) /\ WF_vars(UseProxy)
            /\ WF_vars(GoOn)

Spec == Init /\ [][Next]_vars
FairSpec == Spec /\ Fairness

-----------------------------------------------------------------------------
(* Properties *)

ListOK ==
    /\ listed \in SUBSET Attr
    /\ running \cup paused \cup stopped = listed
    /\ running \cap paused = {}
    /\ numbers \in [all : Int, started : Int, paused : Int, stopped : Int]

EventsOK ==
    /\ proxy \in SUBSET listed /\ eventId \in SUBSET listed
    /\ live \in SUBSET proxy /\ dangling \in SUBSET live
    /\ heard \in SUBSET Attr

ThreadState == [at : SubAt, left : SUBSET Attr, cur : Attr \cup {NoAttr},
                some : BOOLEAN, copy : BOOLEAN, read : 0..2]

ThreadOK ==
    /\ sub \in ThreadState
    /\ sub.at \in Round => sub.left \in SUBSET listed
    /\ sub.at \in Busy => sub.cur \in sub.left
    /\ sub.at = "lower" => sub.read \in 1..2
    /\ stop \in BOOLEAN /\ alive \in BOOLEAN

CommandState == [at : CmdAt, op : Op, attr : Attr \cup {NoAttr}, read : 0..1]

CommandOK ==
    /\ action \in 0..2 /\ stored \in BOOLEAN
    /\ cmd \in CommandState
    /\ cmd.at \notin {"idle", "join", "gone"} => cmd.attr \in Attr
    /\ commands \in 0..MaxCommands

\* The types; each attribute is running, paused or stopped; the attribute that the
\* thread works on stays listed; and the counter action, which commands raise and the
\* thread lowers, stays small although neither holds a lock.
TypeOK == ListOK /\ EventsOK /\ ThreadOK /\ CommandOK

\* The four numbers that the device shows are those of its attributes, also while an
\* attribute is being stopped, when siglock is released between its flags.
CountersRight ==
    sub.at # "ended" =>
        /\ numbers.all = Cardinality(listed)
        /\ numbers.started = Cardinality(running \ stopped)
        /\ numbers.paused = Cardinality(paused \ stopped)
        /\ numbers.stopped = Cardinality(stopped)

\* Once an attribute is stopped nothing of its subscription is left, although the
\* thread may have been subscribing it when the command came; and while the command
\* undoes the subscription without siglock, the thread leaves it alone.
StoppedIsSilent ==
    \A a \in stopped :
        IF cmd.at = "drop" /\ cmd.attr = a
        THEN a \in eventId \cap proxy
        ELSE a \notin proxy \cup live

\* A subscription has its event_id, or the thread is about to note it, and none is made
\* a second time: so a stop finds it.  The exception is a subscription whose second call
\* failed: it stays, without event_id and with its callback deleted, and a later round
\* subscribes the attribute again.
SubscriptionKnown ==
    /\ \A a \in live \ dangling : Known(a)
    /\ sub.at = "subscribe" => sub.cur \notin live \ dangling

\* An attribute whose subscription has failed is tried again in a later round, unless
\* it is stopped, the device deleted, or the process has used what is deleted.
FailedIsRetried ==
    \A a \in Attr :
        sub.at = "failed" /\ sub.cur = a ~>
            \/ sub.at = "loop" /\ a \in sub.left /\ ToSubscribe(a)
            \/ a \notin listed \ stopped \/ stop \/ ~alive
=============================================================================
