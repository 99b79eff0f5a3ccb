----------------------------- MODULE AlarmTable -----------------------------
(***************************************************************************)
(* AlarmHandler: one alarm of the alarm table.                             *)
(*                                                                         *)
(* The alarm thread takes the events of the formula's attributes from      *)
(* evlist and updates the alarm; the update thread looks after delays and  *)
(* silence; commands acknowledge, silence, shelve, enable and disable it.  *)
(* All three hold only the reader's side of the table's lock while they    *)
(* write the fields of the alarm, so their steps interleave.  What clients *)
(* see, the list the alarm is in and the entry of alarmed by which it can  *)
(* be acknowledged, is brought up to date by prepare_alarm_attr, one       *)
(* thread at a time, which tests those fields one after the other.         *)
(*                                                                         *)
(* Not modelled: loading, changing and removing alarms, events that carry  *)
(* errors, commands run when the alarm changes, sound, and the attribute   *)
(* of the alarm's own (which is not written under prepare_alm_mtx).        *)
(***************************************************************************)
EXTENDS Naturals, Sequences

CONSTANTS
    Scenarios,      \* for each behaviour: how the alarm is set up, what happens
    MaxChanges,     \* bound in each: how often the formula changes its value
    MaxCommands     \* bound in each: the commands of clients

Kinds == {"on_delay", "off_delay", "silence", "shelve", "disable", "repeats", "others"}

ASSUME AlarmAssumption ==
    /\ Scenarios \subseteq SUBSET Kinds
    /\ MaxChanges \in [Scenarios -> Nat] /\ MaxCommands \in [Scenarios -> Nat]

VARIABLES
    formula,        \* what the formula gives for the attributes as they are
    evlist,         \* ... and for each event the alarm thread has not handled
    stat, ack,      \* the fields of the alarm in the table
    enabled, shelved, silenced,
    silenceOver,    \* the time of silence has passed
    counter,        \* on_counter and off_counter, up to Many
    waited,         \* on_delay and off_delay have passed since ts_on_delay, ts_off_delay
    entry,          \* the alarm in alarmed, if it is there
    listed,         \* the list it was put in last
    stale,          \* the iterator of an erase was no longer valid: of this alarm's, or
                    \* of another's that took this alarm's entry
    pc,             \* where each thread is
    update, timer,  \* local variables of update() and of timer_update()
    scenario, changes, commands

tableVars == <<stat, ack, enabled, shelved, silenced, silenceOver, counter, waited>>
shownVars == <<entry, listed, stale>>
eventVars == <<formula, evlist, changes>>
vars == <<eventVars, tableVars, shownVars, pc, update, timer, scenario, commands>>

Thread == {"alarm", "timer", "client"}
Side   == {"on", "off"}
Many   == 2

Stat == {"NORMAL", "ALARM"}
Ack  == {"ACK", "NACK"}

NoEntry  == [stat |-> "none"]
Entry    == [stat : Stat, ack : Ack, done : BOOLEAN]

\* The local variables while their function is not running.
NoUpdate == [value |-> FALSE, status |-> "none", changed |-> FALSE]
NoTimer  == [on |-> FALSE, off |-> FALSE, shelved |-> FALSE, changed |-> FALSE]

\* The test of prepare_alarm_attr for each list, in the order of the tests.
Belongs(list) ==
    CASE list = "OOSRV" -> ~enabled
      [] list = "SHLVD" -> shelved
      [] list = "ACKED" -> stat = "ALARM" /\ ack = "ACK"
      [] list = "UNACK" -> stat = "ALARM" /\ ack = "NACK"
      [] list = "RTNUN" -> stat = "NORMAL" /\ ack = "NACK"
      [] list = "NORM"  -> stat = "NORMAL" /\ ack = "ACK"
      [] OTHER -> FALSE

After == [OOSRV |-> "SHLVD", SHLVD |-> "ACKED", ACKED |-> "UNACK", UNACK |-> "RTNUN",
          RTNUN |-> "NORM", NORM |-> "alarmed"]

Active == stat = "ALARM" /\ enabled /\ ~shelved

HasDelay(side) == (IF side = "on" THEN "on_delay" ELSE "off_delay") \in scenario

\* The counter of a side runs, and its delay has passed.
Due(side) == HasDelay(side) /\ counter[side] >= 1 /\ waited[side]

Idle(t) == pc[t] = "idle"
Goto(t, place) == pc' = [pc EXCEPT ![t] = place]

Tests  == {"SHLVD", "ACKED", "UNACK", "RTNUN", "NORM"}
Making == Tests \cup {"alarmed", "active", "push", "normal", "erase"}

\* The alarmed list is written: Ack does not hold the reader's side of alarmedlock.
MayWriteAlarmed == pc["client"] # "ack"

-----------------------------------------------------------------------------
Init ==
    /\ formula \in BOOLEAN
    /\ evlist = <<formula>>     \* the subscription itself brings the value
    /\ stat = "NORMAL" /\ ack = "ACK"
    /\ enabled = TRUE /\ shelved = FALSE /\ silenced = FALSE /\ silenceOver = FALSE
    /\ counter = [side \in Side |-> 0]
    /\ waited = [side \in Side |-> TRUE]
    /\ entry = NoEntry /\ listed = "start" /\ stale = FALSE
    /\ pc = [t \in Thread |-> "idle"]
    /\ update = NoUpdate /\ timer = NoTimer
    /\ scenario \in Scenarios
    /\ changes = 0 /\ commands = 0

-----------------------------------------------------------------------------
(* The formula's attributes, and time *)

Change ==
    /\ changes < MaxChanges[scenario]
    /\ changes' = changes + 1
    /\ formula' = ~formula
    /\ evlist' = Append(evlist, ~formula)
    /\ UNCHANGED <<tableVars, shownVars, pc, update, timer, scenario, commands>>

\* An attribute changes and the value of the formula does not.
Repeat ==
    /\ "repeats" \in scenario /\ evlist = <<>>
    /\ evlist' = <<formula>>
    /\ UNCHANGED <<formula, changes, tableVars, shownVars, pc, update, timer, scenario,
                   commands>>

DelayPasses(side) ==
    /\ HasDelay(side) /\ ~waited[side]
    /\ waited' = [waited EXCEPT ![side] = TRUE]
    /\ UNCHANGED <<stat, ack, enabled, shelved, silenced, silenceOver, counter, eventVars,
                   shownVars, pc, update, timer, scenario, commands>>

SilencePasses ==
    /\ silenced /\ ~silenceOver
    /\ silenceOver' = TRUE
    /\ UNCHANGED <<stat, ack, enabled, shelved, silenced, counter, waited, eventVars,
                   shownVars, pc, update, timer, scenario, commands>>

-----------------------------------------------------------------------------
(* prepare_alarm_attr *)

\* The alarm goes to the list whose test finds it, to none if no test does.
TestFor(t, list) ==
    /\ IF Belongs(list)
       THEN listed' = list /\ Goto(t, "alarmed")
       ELSE listed' = (IF list = "NORM" THEN "none" ELSE listed) /\ Goto(t, After[list])
    /\ UNCHANGED <<entry, stale, tableVars, eventVars, update, timer, scenario, commands>>

\* Faulty: the lists are made without prepare_alm_mtx.
ListsUnlocked(t) == pc[t] = "lists" /\ TestFor(t, "OOSRV")

\* Under prepare_alm_mtx: first whether the alarm is enabled at all ...
Lists(t) ==
    /\ pc[t] = "lists"
    /\ \A u \in Thread : pc[u] \notin Making
    /\ TestFor(t, "OOSRV")

\* ... then the others, while update() and timer_update() may write the fields.
Test(t) == pc[t] \in Tests /\ TestFor(t, pc[t])

\* What is left of prepare_alarm_attr writes alarmed only.
Prepared(t, place) ==
    /\ Goto(t, place)
    /\ UNCHANGED <<listed, tableVars, eventVars, update, timer, scenario, commands>>

Alarmed(t) ==
    /\ pc[t] = "alarmed"
    /\ Prepared(t, IF Active THEN "active" ELSE IF stat = "NORMAL" THEN "normal" ELSE "idle")
    /\ UNCHANGED <<entry, stale>>

\* An alarm that is on has its entry brought up to date, or gets one.
FindActive(t) ==
    /\ pc[t] = "active"
    /\ IF entry = NoEntry
       THEN Prepared(t, "push") /\ UNCHANGED entry
       ELSE Prepared(t, "idle") /\ entry' = [entry EXCEPT !.stat = "ALARM", !.ack = ack]
    /\ UNCHANGED stale

Push(t) ==
    /\ pc[t] = "push" /\ MayWriteAlarmed
    /\ entry' = [stat |-> stat, ack |-> ack, done |-> FALSE]
    /\ Prepared(t, "idle")
    /\ UNCHANGED stale

\* One that is back to normal and acknowledged keeps its entry once, and loses it the
\* next time.
FindNormal(t) ==
    /\ pc[t] = "normal"
    /\ Prepared(t, IF entry # NoEntry /\ ack = "ACK" /\ entry.done THEN "erase" ELSE "idle")
    /\ entry' = IF entry = NoEntry THEN NoEntry
                ELSE [stat |-> "NORMAL", ack |-> ack, done |-> entry.done \/ ack = "ACK"]
    /\ UNCHANGED stale

\* The iterator was found before the lock was changed for the writer's: a command may
\* have erased this entry, or another one, meanwhile.  Then it is not defined what is
\* erased.
Erase(t) ==
    /\ pc[t] = "erase" /\ MayWriteAlarmed
    /\ \/ entry # NoEntry /\ entry' = NoEntry /\ UNCHANGED stale
       \/ /\ t # "client" /\ pc["client"] = "lists"
          /\ entry = NoEntry \/ "others" \in scenario
          /\ entry' \in {NoEntry, entry} /\ stale' = TRUE
    /\ Prepared(t, "idle")

\* The same for the entry of another alarm: this one's may go instead.
OtherErase(t) ==
    /\ "others" \in scenario
    /\ t # "client" /\ pc[t] \in Making \cup {"lists"} /\ pc["client"] = "lists"
    /\ entry # NoEntry /\ entry' = NoEntry /\ stale' = TRUE
    /\ Prepared(t, pc[t])

\* The lists are made for all alarms when another one has changed.
OtherAlarm(t) ==
    /\ "others" \in scenario /\ t # "client" /\ Idle(t)
    /\ Goto(t, "lists")
    /\ UNCHANGED <<tableVars, shownVars, eventVars, update, timer, scenario, commands>>

-----------------------------------------------------------------------------
(* alarm_table::update, by the alarm thread *)

\* Silence that has passed is over; what was shelved is not any more, and counts as
\* acknowledged.
EndSilence ==
    IF silenced /\ silenceOver
    THEN silenced' = FALSE /\ shelved' = FALSE /\ ack' = "ACK"
    ELSE UNCHANGED <<silenced, shelved, ack>>

SideOf(value) == IF value THEN "on" ELSE "off"
StatOf(side)  == IF side = "on" THEN "ALARM" ELSE "NORMAL"

\* do_alarm: the next event, and the status it asks for.  Delays are measured at the
\* time of the event, which may be long ago.
TakeEvent ==
    /\ Idle("alarm") /\ evlist # <<>>
    /\ evlist' = Tail(evlist)
    /\ EndSilence
    /\ LET side == SideOf(Head(evlist)) IN
       \E status \in {side, "none"} :
          /\ HasDelay(side) => status = "none" \/ Due(side)
          /\ ~HasDelay(side) => status = side
          /\ update' = [value |-> Head(evlist), status |-> status, changed |-> FALSE]
    /\ Goto("alarm", "mark")
    /\ UNCHANGED <<formula, changes, stat, enabled, silenceOver, counter, waited, shownVars,
                   timer, scenario, commands>>

\* Faulty: only the change to alarm counts.
UpdateMarkAlarm ==
    /\ pc["alarm"] = "mark"
    /\ LET changed == update.status = "on" /\ stat = "NORMAL" IN
       /\ update' = [update EXCEPT !.changed = changed]
       /\ ack' = IF changed THEN "NACK" ELSE ack
    /\ Goto("alarm", "stat")
    /\ UNCHANGED <<stat, enabled, shelved, silenced, silenceOver, counter, waited, eventVars,
                   shownVars, timer, scenario, commands>>

\* The status differs from what it is: that is a change, and one to alarm has to be
\* acknowledged.
UpdateMark ==
    /\ pc["alarm"] = "mark"
    /\ LET changed == update.status # "none" /\ stat # StatOf(update.status) IN
       /\ update' = [update EXCEPT !.changed = changed]
       /\ ack' = IF changed /\ update.value THEN "NACK" ELSE ack
    /\ Goto("alarm", "stat")
    /\ UNCHANGED <<stat, enabled, shelved, silenced, silenceOver, counter, waited, eventVars,
                   shownVars, timer, scenario, commands>>

UpdateStat ==
    /\ pc["alarm"] = "stat"
    /\ stat' = IF update.status = "none" THEN stat ELSE StatOf(update.status)
    /\ Goto("alarm", "count")
    /\ UNCHANGED <<ack, enabled, shelved, silenced, silenceOver, counter, waited, eventVars,
                   shownVars, update, timer, scenario, commands>>

More(n) == IF n < Many THEN n + 1 ELSE Many

\* Faulty: the counter of the other side goes on.
UpdateCountBoth ==
    /\ pc["alarm"] = "count"
    /\ counter' = [counter EXCEPT ![SideOf(update.value)] = More(@)]
    /\ Goto("alarm", "stamp")
    /\ UNCHANGED <<stat, ack, enabled, shelved, silenced, silenceOver, waited, eventVars,
                   shownVars, update, timer, scenario, commands>>

UpdateCount ==
    /\ pc["alarm"] = "count"
    /\ counter' = [side \in Side |->
                      IF side = SideOf(update.value) THEN More(counter[side]) ELSE 0]
    /\ Goto("alarm", "stamp")
    /\ UNCHANGED <<stat, ack, enabled, shelved, silenced, silenceOver, waited, eventVars,
                   shownVars, update, timer, scenario, commands>>

\* The delay of a side begins with its first event.
UpdateStamp ==
    /\ pc["alarm"] = "stamp"
    /\ waited' = [side \in Side |->
                     waited[side] /\ ~(HasDelay(side) /\ counter[side] = 1)]
    /\ Goto("alarm", IF update.changed THEN "lists" ELSE "idle")
    /\ update' = NoUpdate
    /\ UNCHANGED <<stat, ack, enabled, shelved, silenced, silenceOver, counter, eventVars,
                   shownVars, timer, scenario, commands>>

-----------------------------------------------------------------------------
(* alarm_table::timer_update, by the update thread *)

TimerLook ==
    /\ Idle("timer")
    /\ Due("on") \/ Due("off") \/ shelved \/ (silenced /\ silenceOver)
    /\ EndSilence
    /\ timer' = [on |-> Due("on"), off |-> Due("off"), shelved |-> shelved,
                 changed |-> silenced /\ ~silenced']
    /\ Goto("timer", "mark")
    /\ UNCHANGED <<stat, enabled, silenceOver, counter, waited, eventVars, shownVars,
                   update, scenario, commands>>

TimerMark ==
    /\ pc["timer"] = "mark"
    /\ LET changed == \/ timer.on /\ stat = "NORMAL"
                      \/ timer.off /\ stat = "ALARM"
                      \/ timer.shelved /\ ~shelved
       IN
       /\ timer' = [timer EXCEPT !.changed = timer.changed \/ changed]
       /\ ack' = IF changed /\ timer.on THEN "NACK" ELSE ack
       /\ counter' = [counter EXCEPT
             !["off"] = IF changed /\ timer.on THEN 0 ELSE @,
             !["on"]  = IF changed /\ ~timer.on /\ timer.off THEN 0 ELSE @]
    /\ Goto("timer", "stat")
    /\ UNCHANGED <<stat, enabled, shelved, silenced, silenceOver, waited, eventVars,
                   shownVars, update, scenario, commands>>

TimerStat ==
    /\ pc["timer"] = "stat"
    /\ stat' = CASE timer.on -> "ALARM"
                 [] ~timer.on /\ timer.off -> "NORMAL"
                 [] OTHER -> stat
    /\ Goto("timer", IF timer.changed THEN "lists" ELSE "idle")
    /\ timer' = NoTimer
    /\ UNCHANGED <<ack, enabled, shelved, silenced, silenceOver, counter, waited, eventVars,
                   shownVars, update, scenario, commands>>

-----------------------------------------------------------------------------
(* Commands, one at a time *)

Command ==
    /\ Idle("client") /\ commands < MaxCommands[scenario]
    /\ commands' = commands + 1
    /\ UNCHANGED <<counter, waited, stat, listed, stale, eventVars, update, timer, scenario>>

\* Ack: the table's alarm counts as acknowledged, and the entry gets its status; an
\* alarm that is not in alarmed, or not shown, is passed over.
AckBegin ==
    /\ Command
    /\ IF entry # NoEntry /\ enabled /\ ~shelved
       THEN /\ ack' = "ACK"
            /\ entry' = [entry EXCEPT !.stat = stat]
            /\ Goto("client", "ack")
       ELSE Goto("client", "sweep") /\ UNCHANGED <<ack, entry>>
    /\ UNCHANGED <<enabled, shelved, silenced, silenceOver>>

\* When the events have been pushed the entry is acknowledged too.
AckEntry ==
    /\ pc["client"] = "ack"
    /\ entry' = [entry EXCEPT !.ack = "ACK"]
    /\ Goto("client", "sweep")
    /\ UNCHANGED <<listed, stale, tableVars, eventVars, update, timer, scenario, commands>>

\* Entries that are back to normal and acknowledged go.
AckSweep ==
    /\ pc["client"] = "sweep"
    /\ entry' = IF entry # NoEntry /\ entry.stat = "NORMAL" /\ entry.ack = "ACK"
                THEN NoEntry ELSE entry
    /\ Goto("client", "lists")
    /\ UNCHANGED <<listed, stale, tableVars, eventVars, update, timer, scenario, commands>>

\* Silence and Shelve first take note of a time of silence that has passed.
Unsilenced == ~silenced \/ silenceOver
Unshelved  == ~shelved \/ (silenced /\ silenceOver)

Silence ==
    /\ "silence" \in scenario /\ Command
    /\ Unsilenced
    /\ silenced' = TRUE /\ silenceOver' = FALSE
    /\ shelved' = (shelved /\ ~silenced)
    /\ Goto("client", "lists")
    /\ UNCHANGED <<ack, enabled, entry>>

Shelve ==
    /\ "shelve" \in scenario /\ Command
    /\ enabled /\ Unshelved
    /\ shelved' = TRUE /\ silenced' = TRUE /\ silenceOver' = FALSE
    /\ entry' = NoEntry
    /\ Goto("client", "lists")
    /\ UNCHANGED <<ack, enabled>>

\* Enable and Disable also end silence and shelving.
Enable ==
    /\ "disable" \in scenario /\ Command
    /\ enabled' = TRUE /\ silenced' = FALSE /\ shelved' = FALSE /\ silenceOver' = FALSE
    /\ Goto("client", "lists")
    /\ UNCHANGED <<ack, entry>>

Disable ==
    /\ "disable" \in scenario /\ Command
    /\ enabled' = FALSE /\ silenced' = FALSE /\ shelved' = FALSE /\ silenceOver' = FALSE
    /\ Goto("client", "drop")
    /\ UNCHANGED <<ack, entry>>

\* What is out of service leaves the alarmed list.
DisableDrop ==
    /\ pc["client"] = "drop"
    /\ entry' = NoEntry
    /\ Goto("client", "lists")
    /\ UNCHANGED <<listed, stale, tableVars, eventVars, update, timer, scenario, commands>>

-----------------------------------------------------------------------------
Update == UpdateMark \/ UpdateStat \/ UpdateCount \/ UpdateStamp
TimerUpdate == TimerMark \/ TimerStat
Client == AckEntry \/ AckSweep \/ DisableDrop
Show(t) == Alarmed(t) \/ FindActive(t) \/ Push(t) \/ FindNormal(t) \/ Erase(t)
Prepare(t) == Lists(t) \/ Test(t) \/ Show(t)

\* Thread t goes on with what it has begun.
GoesOn(t) ==
    \/ Test(t) \/ Show(t)
    \/ t = "alarm" /\ Update
    \/ t = "timer" /\ TimerUpdate
    \/ t = "client" /\ Client

Next ==
    \/ Change \/ Repeat \/ SilencePasses
    \/ \E side \in Side : DelayPasses(side)
    \/ TakeEvent \/ Update \/ TimerLook \/ TimerUpdate \/ Client
    \/ AckBegin \/ Silence \/ Shelve \/ Enable \/ Disable
    \/ \E t \in Thread : Prepare(t) \/ OtherAlarm(t) \/ OtherErase(t)

\* Threads go on, and delays pass.  The events of other alarms are handled in turn
\* with those of this one, and each round of the update thread looks at all alarms; it
\* sleeps 1.1 seconds between rounds, without prepare_alm_mtx.
Fairness ==
    /\ SF_vars(TakeEvent) /\ SF_vars(TimerLook)
    /\ \A t \in Thread : SF_vars(Lists(t)) /\ WF_vars(GoesOn(t))
    /\ \A side \in Side : WF_vars(DelayPasses(side))
    /\ WF_vars(Repeat)

Spec == Init /\ [][Next]_vars
FairSpec == Spec /\ Fairness

-----------------------------------------------------------------------------
(* Properties *)

Places == {"idle", "lists", "mark", "stat", "count", "stamp", "ack", "sweep", "drop"}
          \cup Making

TableOK ==
    /\ stat \in Stat /\ ack \in Ack
    /\ enabled \in BOOLEAN /\ shelved \in BOOLEAN
    /\ silenced \in BOOLEAN /\ silenceOver \in BOOLEAN
    /\ counter \in [Side -> 0..Many] /\ waited \in [Side -> BOOLEAN]

ShownOK ==
    /\ entry \in Entry \cup {NoEntry}
    /\ listed \in {"start", "none", "OOSRV"} \cup Tests
    /\ stale \in BOOLEAN

ThreadsOK ==
    /\ pc \in [Thread -> Places]
    /\ pc["client"] = "ack" => entry # NoEntry
    /\ \A t, u \in Thread : pc[t] \in Making /\ pc[u] \in Making => t = u
    /\ update \in [value : BOOLEAN, status : Side \cup {"none"}, changed : BOOLEAN]
    /\ timer \in [on : BOOLEAN, off : BOOLEAN, shelved : BOOLEAN, changed : BOOLEAN]

EventsOK ==
    /\ formula \in BOOLEAN /\ evlist \in Seq(BOOLEAN)
    /\ scenario \in Scenarios
    /\ changes \in 0..MaxChanges[scenario] /\ commands \in 0..MaxCommands[scenario]

\* The types, and the two locks: the entry Ack works on cannot go meanwhile, and one
\* thread at a time makes the lists.
TypeOK == TableOK /\ ShownOK /\ ThreadsOK /\ EventsOK

\* A change is under way that will be followed by prepare_alarm_attr, or that is.
ToBeShown(t) ==
    \/ pc[t] \in Making \cup {"lists"}
    \/ t = "alarm" /\ update.changed
    \/ t = "timer" /\ timer.changed
    \/ t = "client" /\ ~Idle(t)

Plain == scenario \cap {"on_delay", "off_delay", "shelve"} = {}

\* However the alarm thread, the update thread and the commands interleave, with the
\* tests of prepare_alarm_attr too, no change of an alarm that has neither delays nor
\* shelving is left unshown: with nothing more to be shown an alarm that is on is in no
\* list of those that are off, and has the entry that it takes to acknowledge it; one
\* that is off is in no list of those that are on (prepare_alarm_attr is called only
\* when update() says that something changed).  What has to be acknowledged is listed
\* as such; what has not is too, but for an alarm whose silence has ended: it may be in
\* its old list or, when the silence ended between two tests, in none.  Nothing is said
\* once a wrong entry has been erased.
AlarmShown ==
    (Plain /\ enabled /\ ~stale /\ \A t \in Thread : ~ToBeShown(t)) =>
        /\ stat = "ALARM" => listed \in {"ACKED", "UNACK", "none"} /\ entry # NoEntry
        /\ stat = "NORMAL" => listed \in {"start", "NORM", "RTNUN"}
        /\ ack = "NACK" => Belongs(listed)
        /\ "silence" \notin scenario /\ listed # "start" => Belongs(listed)

\* When the formula keeps its value, so does the alarm in the end, whatever the
\* update thread had found meanwhile; with delays, when events go on.
StatusFollows ==
    ([]~stale /\ (scenario \cap {"on_delay", "off_delay"} = {} \/ "repeats" \in scenario)) =>
        /\ <>[]formula  => <>[](stat = "ALARM")
        /\ <>[]~formula => <>[](stat = "NORMAL")
=============================================================================
