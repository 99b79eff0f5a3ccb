-------------------------- MODULE AlarmTable_proofs --------------------------
(***************************************************************************)
(* Proofs about AlarmTable, for every set of scenarios and all bounds.     *)
(***************************************************************************)
EXTENDS AlarmTable, SequenceTheorems, TLAPS

USE DEF Thread, Stat, Ack, Side, Many, Places, Making, Tests

-----------------------------------------------------------------------------
(* Types *)

LEMMA EntryIsOne == \A e \in Entry : e # NoEntry /\ e.stat \in Stat /\ e.ack \in Ack
                                    /\ e.done \in BOOLEAN
<1> SUFFICES ASSUME NEW e \in Entry
             PROVE  e # NoEntry /\ e.stat \in Stat /\ e.ack \in Ack /\ e.done \in BOOLEAN
  OBVIOUS
<1>1. e.stat \in Stat /\ e.ack \in Ack /\ e.done \in BOOLEAN
  BY DEF Entry
<1>2. NoEntry.stat = "none"
  BY DEF NoEntry
<1> QED BY <1>1, <1>2

LEMMA InitType == Init => TypeOK
<1> SUFFICES ASSUME Init
             PROVE  TypeOK
  OBVIOUS
<1>1. scenario \in Scenarios /\ MaxChanges[scenario] \in Nat /\ MaxCommands[scenario] \in Nat
  BY AlarmAssumption DEF Init
<1>2. evlist \in Seq(BOOLEAN)
  BY DEF Init
<1>3. TableOK
  <2>1. counter \in [Side -> 0..Many] /\ waited \in [Side -> BOOLEAN]
    BY DEF Init
  <2>2. stat = "NORMAL" /\ ack = "ACK"
    BY DEF Init
  <2>3. enabled = TRUE /\ shelved = FALSE /\ silenced = FALSE /\ silenceOver = FALSE
    BY Zenon DEF Init
  <2> QED BY <2>1, <2>2, <2>3 DEF TableOK
<1>4. ShownOK
  BY DEF Init, ShownOK
<1>5. ThreadsOK
  BY DEF Init, ThreadsOK, NoUpdate, NoTimer
<1>6. EventsOK
  BY <1>1, <1>2 DEF Init, EventsOK
<1> QED BY <1>3, <1>4, <1>5, <1>6 DEF TypeOK

LEMMA StepType == ASSUME TypeOK, [Next]_vars
                  PROVE  TypeOK'
<1> USE DEF Goto, Idle
<1>0. scenario \in Scenarios /\ MaxChanges[scenario] \in Nat /\ MaxCommands[scenario] \in Nat
  BY AlarmAssumption DEF TypeOK, EventsOK
<1>1. ASSUME Change
      PROVE  TypeOK'
  <2> USE <1>1 DEF Change
  <2>1. TableOK'
    BY DEF TypeOK, TableOK, tableVars
  <2>2. ShownOK'
    BY EntryIsOne DEF TypeOK, ShownOK, shownVars
  <2>3. ThreadsOK'
    BY EntryIsOne DEF TypeOK, ThreadsOK, shownVars
  <2>4. EventsOK'
    BY <1>0 DEF TypeOK, EventsOK, eventVars
  <2> QED BY <2>1, <2>2, <2>3, <2>4 DEF TypeOK
<1>2. ASSUME Repeat
      PROVE  TypeOK'
  <2> USE <1>2 DEF Repeat
  <2>1. TableOK'
    BY DEF TypeOK, TableOK, tableVars
  <2>2. ShownOK'
    BY EntryIsOne DEF TypeOK, ShownOK, shownVars
  <2>3. ThreadsOK'
    BY EntryIsOne DEF TypeOK, ThreadsOK, shownVars
  <2>4. EventsOK'
    BY <1>0 DEF TypeOK, EventsOK, eventVars
  <2> QED BY <2>1, <2>2, <2>3, <2>4 DEF TypeOK
<1>3. ASSUME SilencePasses
      PROVE  TypeOK'
  <2> USE <1>3 DEF SilencePasses
  <2>1. TableOK'
    BY DEF TypeOK, TableOK, tableVars
  <2>2. ShownOK'
    BY EntryIsOne DEF TypeOK, ShownOK, shownVars
  <2>3. ThreadsOK'
    BY EntryIsOne DEF TypeOK, ThreadsOK, shownVars
  <2>4. EventsOK'
    BY <1>0 DEF TypeOK, EventsOK, eventVars
  <2> QED BY <2>1, <2>2, <2>3, <2>4 DEF TypeOK
<1>4. ASSUME NEW side \in Side, DelayPasses(side)
      PROVE  TypeOK'
  <2> USE <1>4 DEF DelayPasses
  <2>1. TableOK'
    BY DEF TypeOK, TableOK, tableVars
  <2>2. ShownOK'
    BY EntryIsOne DEF TypeOK, ShownOK, shownVars
  <2>3. ThreadsOK'
    BY EntryIsOne DEF TypeOK, ThreadsOK, shownVars
  <2>4. EventsOK'
    BY <1>0 DEF TypeOK, EventsOK, eventVars
  <2> QED BY <2>1, <2>2, <2>3, <2>4 DEF TypeOK
<1>5. ASSUME TakeEvent
      PROVE  TypeOK'
  <2> USE <1>5 DEF TakeEvent, EndSilence, SideOf
  <2>1. TableOK'
    BY DEF TypeOK, TableOK, tableVars
  <2>2. ShownOK'
    BY EntryIsOne DEF TypeOK, ShownOK, shownVars
  <2>3. ThreadsOK'
    <3>1. Head(evlist) \in BOOLEAN
      BY HeadTailProperties DEF TypeOK, EventsOK
    <3>2. PICK status \in Side \cup {"none"} :
             update' = [value |-> Head(evlist), status |-> status, changed |-> FALSE]
      BY <3>1
    <3>3. update' \in [value : BOOLEAN, status : Side \cup {"none"}, changed : BOOLEAN]
      BY <3>1, <3>2
    <3>4. pc' = [pc EXCEPT !["alarm"] = "mark"] /\ timer' = timer /\ entry' = entry
      BY DEF shownVars
    <3> QED BY ONLY TypeOK, <3>3, <3>4 DEF TypeOK, ThreadsOK
  <2>4. EventsOK'
    <3>1. Tail(evlist) \in Seq(BOOLEAN)
      BY HeadTailProperties DEF TypeOK, EventsOK
    <3> QED BY <3>1 DEF TypeOK, EventsOK
  <2> QED BY <2>1, <2>2, <2>3, <2>4 DEF TypeOK
<1>6. ASSUME UpdateMark
      PROVE  TypeOK'
  <2> USE <1>6 DEF UpdateMark, StatOf
  <2>1. TableOK'
    BY DEF TypeOK, TableOK, tableVars
  <2>2. ShownOK'
    BY EntryIsOne DEF TypeOK, ShownOK, shownVars
  <2>3. ThreadsOK'
    BY EntryIsOne DEF TypeOK, ThreadsOK, shownVars
  <2>4. EventsOK'
    BY <1>0 DEF TypeOK, EventsOK, eventVars
  <2> QED BY <2>1, <2>2, <2>3, <2>4 DEF TypeOK
<1>7. ASSUME UpdateStat
      PROVE  TypeOK'
  <2> USE <1>7 DEF UpdateStat, StatOf
  <2>1. TableOK'
    BY DEF TypeOK, TableOK, tableVars
  <2>2. ShownOK'
    BY EntryIsOne DEF TypeOK, ShownOK, shownVars
  <2>3. ThreadsOK'
    BY EntryIsOne DEF TypeOK, ThreadsOK, shownVars
  <2>4. EventsOK'
    BY <1>0 DEF TypeOK, EventsOK, eventVars
  <2> QED BY <2>1, <2>2, <2>3, <2>4 DEF TypeOK
<1>8. ASSUME UpdateCount
      PROVE  TypeOK'
  <2> USE <1>8 DEF UpdateCount, More, SideOf
  <2>1. TableOK'
    BY DEF TypeOK, TableOK, tableVars
  <2>2. ShownOK'
    BY EntryIsOne DEF TypeOK, ShownOK, shownVars
  <2>3. ThreadsOK'
    BY EntryIsOne DEF TypeOK, ThreadsOK, shownVars
  <2>4. EventsOK'
    BY <1>0 DEF TypeOK, EventsOK, eventVars
  <2> QED BY <2>1, <2>2, <2>3, <2>4 DEF TypeOK
<1>9. ASSUME UpdateStamp
      PROVE  TypeOK'
  <2> USE <1>9 DEF UpdateStamp, NoUpdate
  <2>1. TableOK'
    BY DEF TypeOK, TableOK, tableVars
  <2>2. ShownOK'
    BY EntryIsOne DEF TypeOK, ShownOK, shownVars
  <2>3. ThreadsOK'
    BY EntryIsOne DEF TypeOK, ThreadsOK, shownVars
  <2>4. EventsOK'
    BY <1>0 DEF TypeOK, EventsOK, eventVars
  <2> QED BY <2>1, <2>2, <2>3, <2>4 DEF TypeOK
<1>10. ASSUME TimerLook
      PROVE  TypeOK'
  <2> USE <1>10 DEF TimerLook, EndSilence, Due
  <2>1. TableOK'
    BY DEF TypeOK, TableOK, tableVars
  <2>2. ShownOK'
    BY EntryIsOne DEF TypeOK, ShownOK, shownVars
  <2>3. ThreadsOK'
    BY DEF TypeOK, TableOK, ThreadsOK, shownVars
  <2>4. EventsOK'
    BY <1>0 DEF TypeOK, EventsOK, eventVars
  <2> QED BY <2>1, <2>2, <2>3, <2>4 DEF TypeOK
<1>11. ASSUME TimerMark
      PROVE  TypeOK'
  <2> USE <1>11 DEF TimerMark
  <2>1. TableOK'
    BY DEF TypeOK, TableOK, tableVars
  <2>2. ShownOK'
    BY EntryIsOne DEF TypeOK, ShownOK, shownVars
  <2>3. ThreadsOK'
    BY EntryIsOne DEF TypeOK, ThreadsOK, shownVars
  <2>4. EventsOK'
    BY <1>0 DEF TypeOK, EventsOK, eventVars
  <2> QED BY <2>1, <2>2, <2>3, <2>4 DEF TypeOK
<1>12. ASSUME TimerStat
      PROVE  TypeOK'
  <2> USE <1>12 DEF TimerStat, NoTimer
  <2>1. TableOK'
    BY DEF TypeOK, TableOK, tableVars
  <2>2. ShownOK'
    BY EntryIsOne DEF TypeOK, ShownOK, shownVars
  <2>3. ThreadsOK'
    BY EntryIsOne DEF TypeOK, ThreadsOK, shownVars
  <2>4. EventsOK'
    BY <1>0 DEF TypeOK, EventsOK, eventVars
  <2> QED BY <2>1, <2>2, <2>3, <2>4 DEF TypeOK
<1>13. ASSUME AckEntry
      PROVE  TypeOK'
  <2> USE <1>13 DEF AckEntry
  <2>1. TableOK'
    BY DEF TypeOK, TableOK, tableVars
  <2>0. entry \in Entry
    BY DEF TypeOK, ShownOK, ThreadsOK
  <2>2. ShownOK' /\ entry' \in Entry
    BY <2>0 DEF TypeOK, ShownOK, Entry
  <2>3. ThreadsOK'
    BY <2>2, EntryIsOne DEF TypeOK, ThreadsOK
  <2>4. EventsOK'
    BY <1>0 DEF TypeOK, EventsOK, eventVars
  <2> QED BY <2>1, <2>2, <2>3, <2>4 DEF TypeOK
<1>14. ASSUME AckSweep
      PROVE  TypeOK'
  <2> USE <1>14 DEF AckSweep
  <2>1. TableOK'
    BY DEF TypeOK, TableOK, tableVars
  <2>2. ShownOK'
    BY EntryIsOne DEF TypeOK, ShownOK, shownVars
  <2>3. ThreadsOK'
    BY EntryIsOne DEF TypeOK, ThreadsOK, shownVars
  <2>4. EventsOK'
    BY <1>0 DEF TypeOK, EventsOK, eventVars
  <2> QED BY <2>1, <2>2, <2>3, <2>4 DEF TypeOK
<1>15. ASSUME DisableDrop
      PROVE  TypeOK'
  <2> USE <1>15 DEF DisableDrop
  <2>1. TableOK'
    BY DEF TypeOK, TableOK, tableVars
  <2>2. ShownOK'
    BY EntryIsOne DEF TypeOK, ShownOK, shownVars
  <2>3. ThreadsOK'
    BY EntryIsOne DEF TypeOK, ThreadsOK, shownVars
  <2>4. EventsOK'
    BY <1>0 DEF TypeOK, EventsOK, eventVars
  <2> QED BY <2>1, <2>2, <2>3, <2>4 DEF TypeOK
<1>16. ASSUME AckBegin
      PROVE  TypeOK'
  <2> USE <1>16 DEF AckBegin, Command
  <2>1. TableOK'
    BY DEF TypeOK, TableOK, tableVars
  <2>2. ShownOK' /\ (entry' = entry \/ entry' \in Entry)
    <3>1. CASE entry # NoEntry /\ enabled /\ ~shelved
      <4>1. entry \in Entry
        BY <3>1 DEF TypeOK, ShownOK
      <4> QED BY <3>1, <4>1 DEF TypeOK, TableOK, ShownOK, Entry
    <3>2. CASE ~(entry # NoEntry /\ enabled /\ ~shelved)
      BY <3>2 DEF TypeOK, ShownOK
    <3> QED BY <3>1, <3>2
  <2>3. ThreadsOK'
    BY <2>2, EntryIsOne DEF TypeOK, ThreadsOK
  <2>4. EventsOK'
    BY <1>0 DEF TypeOK, EventsOK, eventVars
  <2> QED BY <2>1, <2>2, <2>3, <2>4 DEF TypeOK
<1>17. ASSUME Silence
      PROVE  TypeOK'
  <2> USE <1>17 DEF Silence, Command
  <2>1. TableOK'
    BY DEF TypeOK, TableOK, tableVars
  <2>2. ShownOK'
    BY EntryIsOne DEF TypeOK, ShownOK, shownVars
  <2>3. ThreadsOK'
    BY EntryIsOne DEF TypeOK, ThreadsOK, shownVars
  <2>4. EventsOK'
    BY <1>0 DEF TypeOK, EventsOK, eventVars
  <2> QED BY <2>1, <2>2, <2>3, <2>4 DEF TypeOK
<1>18. ASSUME Shelve
      PROVE  TypeOK'
  <2> USE <1>18 DEF Shelve, Command
  <2>1. TableOK'
    BY DEF TypeOK, TableOK, tableVars
  <2>2. ShownOK'
    BY EntryIsOne DEF TypeOK, ShownOK, shownVars
  <2>3. ThreadsOK'
    BY EntryIsOne DEF TypeOK, ThreadsOK, shownVars
  <2>4. EventsOK'
    BY <1>0 DEF TypeOK, EventsOK, eventVars
  <2> QED BY <2>1, <2>2, <2>3, <2>4 DEF TypeOK
<1>19. ASSUME Enable
      PROVE  TypeOK'
  <2> USE <1>19 DEF Enable, Command
  <2>1. TableOK'
    BY DEF TypeOK, TableOK, tableVars
  <2>2. ShownOK'
    BY EntryIsOne DEF TypeOK, ShownOK, shownVars
  <2>3. ThreadsOK'
    BY EntryIsOne DEF TypeOK, ThreadsOK, shownVars
  <2>4. EventsOK'
    BY <1>0 DEF TypeOK, EventsOK, eventVars
  <2> QED BY <2>1, <2>2, <2>3, <2>4 DEF TypeOK
<1>20. ASSUME Disable
      PROVE  TypeOK'
  <2> USE <1>20 DEF Disable, Command
  <2>1. TableOK'
    BY DEF TypeOK, TableOK, tableVars
  <2>2. ShownOK'
    BY EntryIsOne DEF TypeOK, ShownOK, shownVars
  <2>3. ThreadsOK'
    BY EntryIsOne DEF TypeOK, ThreadsOK, shownVars
  <2>4. EventsOK'
    BY <1>0 DEF TypeOK, EventsOK, eventVars
  <2> QED BY <2>1, <2>2, <2>3, <2>4 DEF TypeOK
<1>21. ASSUME NEW t \in Thread, Lists(t) \/ Test(t)
      PROVE  TypeOK'
  <2>0. PICK list \in {"OOSRV"} \cup Tests :
           /\ TestFor(t, list)
           /\ pc[t] \in Making \/ \A u \in Thread : pc[u] \notin Making
    BY <1>21 DEF Lists, Test
  <2>g. PICK place \in Making : pc' = [pc EXCEPT ![t] = place]
    BY <2>0 DEF TestFor, After
  <2>1. TableOK'
    BY <2>0 DEF TestFor, TypeOK, TableOK, tableVars
  <2>2. ShownOK'
    BY <2>0, EntryIsOne DEF TestFor, TypeOK, ShownOK
  <2>3. ThreadsOK'
    BY <2>0, <2>g, EntryIsOne DEF TestFor, TypeOK, ThreadsOK
  <2>4. EventsOK'
    BY <2>0, <1>0 DEF TestFor, TypeOK, EventsOK, eventVars
  <2> QED BY <2>1, <2>2, <2>3, <2>4 DEF TypeOK
<1>22. ASSUME NEW t \in Thread, NEW place \in Places, Prepared(t, place), ShownOK',
              pc[t] \in Making, place \in Making \cup {"idle"},
              entry # NoEntry /\ entry' = NoEntry => pc["client"] # "ack"
      PROVE  TypeOK'
  <2> USE <1>22 DEF Prepared
  <2>1. TableOK'
    BY DEF TypeOK, TableOK, tableVars
  <2>3. ThreadsOK'
    BY DEF TypeOK, ThreadsOK
  <2>4. EventsOK'
    BY <1>0 DEF TypeOK, EventsOK, eventVars
  <2> QED BY <2>1, <2>3, <2>4 DEF TypeOK
<1>25. ASSUME NEW t \in Thread, Show(t)
      PROVE  TypeOK'
  <2>0. entry # NoEntry => entry \in Entry
    BY DEF TypeOK, ShownOK
  <2>1. CASE Alarmed(t)
    <3>1. ShownOK'
      BY <2>1, EntryIsOne DEF Alarmed, Prepared, TypeOK, ShownOK
    <3> QED BY <1>22, <2>1, <3>1 DEF Alarmed
  <2>2. CASE FindActive(t)
    <3>1. entry # NoEntry => [entry EXCEPT !.stat = "ALARM", !.ack = ack] \in Entry
      BY <2>0 DEF TypeOK, TableOK, Entry
    <3>2. ShownOK' /\ (entry # NoEntry => entry' # NoEntry)
      BY <2>2, <3>1, EntryIsOne DEF FindActive, Prepared, TypeOK, ShownOK
    <3> QED BY <1>22, <2>2, <3>2 DEF FindActive
  <2>3. CASE Push(t)
    <3>1. [stat |-> stat, ack |-> ack, done |-> FALSE] \in Entry
      BY DEF TypeOK, TableOK, Entry
    <3>2. ShownOK' /\ entry' # NoEntry
      BY <2>3, <3>1, EntryIsOne DEF Push, Prepared, TypeOK, ShownOK
    <3> QED BY <1>22, <2>3, <3>2 DEF Push
  <2>4. CASE FindNormal(t)
    <3>1. entry # NoEntry =>
             [stat |-> "NORMAL", ack |-> ack, done |-> entry.done \/ ack = "ACK"] \in Entry
      BY <2>0 DEF TypeOK, TableOK, Entry
    <3>2. ShownOK' /\ (entry # NoEntry => entry' # NoEntry)
      BY <2>4, <3>1, EntryIsOne DEF FindNormal, Prepared, TypeOK, ShownOK
    <3> QED BY <1>22, <2>4, <3>2 DEF FindNormal
  <2>5. CASE Erase(t)
    <3>1. ShownOK'
      BY <2>5, EntryIsOne DEF Erase, Prepared, TypeOK, ShownOK
    <3> QED BY <1>22, <2>5, <3>1 DEF Erase, MayWriteAlarmed
  <2> QED BY <1>25, <2>1, <2>2, <2>3, <2>4, <2>5 DEF Show
<1>26. ASSUME NEW t \in Thread, OtherErase(t)
      PROVE  TypeOK'
  <2> USE <1>26 DEF OtherErase, Prepared
  <2>1. TableOK'
    BY DEF TypeOK, TableOK, tableVars
  <2>2. ShownOK'
    BY DEF TypeOK, ShownOK
  <2>3. ThreadsOK'
    BY DEF TypeOK, ThreadsOK
  <2>4. EventsOK'
    BY <1>0 DEF TypeOK, EventsOK, eventVars
  <2> QED BY <2>1, <2>2, <2>3, <2>4 DEF TypeOK
<1>23. ASSUME NEW t \in Thread, OtherAlarm(t)
      PROVE  TypeOK'
  <2> USE <1>23 DEF OtherAlarm
  <2>1. TableOK'
    BY DEF TypeOK, TableOK, tableVars
  <2>2. ShownOK'
    BY EntryIsOne DEF TypeOK, ShownOK, shownVars
  <2>3. ThreadsOK'
    BY EntryIsOne DEF TypeOK, ThreadsOK, shownVars
  <2>4. EventsOK'
    BY <1>0 DEF TypeOK, EventsOK, eventVars
  <2> QED BY <2>1, <2>2, <2>3, <2>4 DEF TypeOK
<1>24. CASE UNCHANGED vars
  BY <1>24, <1>0 DEF TypeOK, TableOK, ShownOK, ThreadsOK, EventsOK, vars, tableVars, shownVars, eventVars
<1> QED BY <1>1, <1>2, <1>3, <1>4, <1>5, <1>6, <1>7, <1>8, <1>9, <1>10, <1>11, <1>12, <1>13, <1>14, <1>15, <1>16, <1>17, <1>18, <1>19, <1>20, <1>21, <1>23, <1>24, <1>25, <1>26
           DEF Next, Update, TimerUpdate, Client, Prepare

\* Every state has the types of its variables.
THEOREM AlarmTypeCorrect == Spec => []TypeOK
<1>1. Init => TypeOK
  BY InitType
<1>2. TypeOK /\ [Next]_vars => TypeOK'
  BY StepType
<1> QED BY <1>1, <1>2, PTL DEF Spec

-----------------------------------------------------------------------------
(* No change is left unshown *)

\* No thread has still to put the alarm in its list, but the one that is at it.
NoneToList ==
    /\ ~update.changed /\ ~timer.changed
    /\ \A t \in Thread : pc[t] # "lists"
    /\ pc["client"] \in Making \cup {"idle"}

\* Without delays and shelving only the alarm thread changes the status, and it
\* knows when it does.
OneWriter ==
    /\ ~shelved
    /\ "silence" \notin scenario => ~silenced
    /\ ~timer.on /\ ~timer.off /\ ~timer.shelved
    /\ timer.changed => pc["timer"] \in {"mark", "stat"}
    /\ update.changed => pc["alarm"] \in {"stat", "count", "stamp"}
    /\ pc["alarm"] = "mark" => update.status \in Side
    /\ pc["alarm"] = "stat" =>
          /\ update.status \in Side
          /\ ~update.changed => stat = StatOf(update.status)

\* What a thread that comes to a test knows of those before.
Passed(place) ==
    /\ place \in {"UNACK", "RTNUN", "NORM"} /\ stat = "ALARM" /\ ack = "ACK" =>
          "silence" \in scenario
    /\ place \in {"RTNUN", "NORM"} /\ stat = "ALARM" => ack = "ACK"
    /\ place = "NORM" /\ stat = "NORMAL" => ack = "ACK"

ListRight ==
    /\ stat = "ALARM" => listed \in {"ACKED", "UNACK", "none"}
    /\ stat = "NORMAL" => listed \in {"start", "NORM", "RTNUN"}
    /\ ack = "NACK" => Belongs(listed)
    /\ "silence" \notin scenario /\ listed # "start" => Belongs(listed)

ListShown ==
    enabled /\ NoneToList =>
        /\ \A t \in Thread : Passed(pc[t])
        /\ (\A t \in Thread : pc[t] \notin Tests) => ListRight

EntryShown ==
    enabled /\ NoneToList /\ ~stale =>
        /\ \A t \in Thread : pc[t] \in {"normal", "erase"} => stat = "NORMAL"
        /\ (\A t \in Thread : pc[t] \notin Making) => (stat = "ALARM" => entry # NoEntry)

ShownInv == Plain => OneWriter /\ ListShown /\ EntryShown

LEMMA ScenarioKept == ASSUME [Next]_vars
                      PROVE  scenario' = scenario
<1> USE DEF Goto
<1>1. ASSUME Change \/ Repeat \/ SilencePasses \/ \E side \in Side : DelayPasses(side)
      PROVE  scenario' = scenario
  BY <1>1 DEF Change, Repeat, SilencePasses, DelayPasses
<1>2. ASSUME TakeEvent \/ Update \/ TimerLook \/ TimerUpdate \/ Client
      PROVE  scenario' = scenario
  BY <1>2 DEF TakeEvent, Update, UpdateMark, UpdateStat, UpdateCount, UpdateStamp,
              TimerLook, TimerUpdate, TimerMark, TimerStat,
              Client, AckEntry, AckSweep, DisableDrop
<1>3. ASSUME AckBegin \/ Silence \/ Shelve \/ Enable \/ Disable
      PROVE  scenario' = scenario
  BY <1>3 DEF Command, AckBegin, Silence, Shelve, Enable, Disable
<1>4. ASSUME NEW t \in Thread, Prepare(t) \/ OtherAlarm(t) \/ OtherErase(t)
      PROVE  scenario' = scenario
  BY <1>4 DEF Prepare, Lists, Test, TestFor, Show, Alarmed, FindActive, Push, FindNormal,
              Erase, OtherAlarm, OtherErase, Prepared
<1> QED BY <1>1, <1>2, <1>3, <1>4 DEF Next, vars

LEMMA InitShown == Init => ShownInv
<1> SUFFICES ASSUME Init
             PROVE  OneWriter /\ ListShown /\ EntryShown
  BY DEF ShownInv
<1> QED BY DEF Init, OneWriter, ListShown, ListRight, Passed, EntryShown, NoUpdate, NoTimer

\* A step that makes no list changes neither the list nor the entry that is right,
\* unless a thread is left to make the lists.
LEMMA StillShown ==
    ASSUME TypeOK, TypeOK', ListShown, EntryShown, scenario' = scenario, ~shelved, ~shelved',
           NoneToList' => /\ NoneToList
                          /\ UNCHANGED <<stat, enabled, entry, listed, stale>>
                          /\ ack' = ack \/ (ack' = "ACK" /\ "silence" \in scenario),
           \A t \in Thread : pc'[t] = pc[t] \/ (pc[t] \notin Making /\ pc'[t] \notin Making)
    PROVE  ListShown' /\ EntryShown'
<1>1. SUFFICES ASSUME NoneToList', enabled'
               PROVE  ListShown' /\ EntryShown'
  BY DEF ListShown, EntryShown
<1>2. /\ NoneToList /\ enabled
      /\ UNCHANGED <<stat, enabled, entry, listed, stale>>
      /\ ack' = ack \/ (ack' = "ACK" /\ "silence" \in scenario)
  BY <1>1
<1>3. \A t \in Thread : Passed(pc[t])'
  BY <1>2 DEF ListShown, Passed
<1>4. (\A t \in Thread : pc'[t] \notin Tests) => ListRight'
  BY <1>2 DEF ListShown, ListRight, Belongs, TypeOK, TableOK
<1>5. EntryShown'
  BY <1>2 DEF EntryShown
<1> QED BY <1>3, <1>4, <1>5 DEF ListShown

LEMMA StepShown == ASSUME TypeOK, ShownInv, [Next]_vars
                   PROVE  ShownInv'
<1> USE DEF Goto, Idle
<1>0. scenario' = scenario
  BY ScenarioKept
<1> SUFFICES ASSUME Plain
             PROVE  (OneWriter /\ ListShown /\ EntryShown)'
  BY <1>0 DEF ShownInv, Plain
<1>a. /\ ~HasDelay("on") /\ ~HasDelay("off") /\ "shelve" \notin scenario
      /\ ~Due("on") /\ ~Due("off")
  BY DEF Plain, HasDelay, Due
<1>b. OneWriter /\ ListShown /\ EntryShown /\ ~shelved
  BY DEF ShownInv, OneWriter
<1>c. TypeOK'
  BY StepType
<1> USE <1>0, <1>a, <1>b, <1>c
<1>1. ASSUME Change
      PROVE  (OneWriter /\ ListShown /\ EntryShown)'
  <2> USE <1>1 DEF Change
  <2>1. OneWriter'
    BY DEF OneWriter, StatOf, TypeOK, TableOK, ThreadsOK, tableVars, shownVars, eventVars
  <2>2. NoneToList' =>
           /\ NoneToList
           /\ UNCHANGED <<stat, enabled, entry, listed, stale>>
           /\ ack' = ack \/ (ack' = "ACK" /\ "silence" \in scenario)
    BY DEF NoneToList, OneWriter, StatOf, TypeOK, TableOK, ThreadsOK, tableVars, shownVars
  <2>3. \A u \in Thread : pc'[u] = pc[u] \/ (pc[u] \notin Making /\ pc'[u] \notin Making)
    BY DEF TypeOK, ThreadsOK
  <2> QED BY <2>1, <2>2, <2>3, StillShown DEF OneWriter
<1>2. ASSUME Repeat
      PROVE  (OneWriter /\ ListShown /\ EntryShown)'
  <2> USE <1>2 DEF Repeat
  <2>1. OneWriter'
    BY DEF OneWriter, StatOf, TypeOK, TableOK, ThreadsOK, tableVars, shownVars, eventVars
  <2>2. NoneToList' =>
           /\ NoneToList
           /\ UNCHANGED <<stat, enabled, entry, listed, stale>>
           /\ ack' = ack \/ (ack' = "ACK" /\ "silence" \in scenario)
    BY DEF NoneToList, OneWriter, StatOf, TypeOK, TableOK, ThreadsOK, tableVars, shownVars
  <2>3. \A u \in Thread : pc'[u] = pc[u] \/ (pc[u] \notin Making /\ pc'[u] \notin Making)
    BY DEF TypeOK, ThreadsOK
  <2> QED BY <2>1, <2>2, <2>3, StillShown DEF OneWriter
<1>3. ASSUME SilencePasses
      PROVE  (OneWriter /\ ListShown /\ EntryShown)'
  <2> USE <1>3 DEF SilencePasses
  <2>1. OneWriter'
    BY DEF OneWriter, StatOf, TypeOK, TableOK, ThreadsOK, tableVars, shownVars, eventVars
  <2>2. NoneToList' =>
           /\ NoneToList
           /\ UNCHANGED <<stat, enabled, entry, listed, stale>>
           /\ ack' = ack \/ (ack' = "ACK" /\ "silence" \in scenario)
    BY DEF NoneToList, OneWriter, StatOf, TypeOK, TableOK, ThreadsOK, tableVars, shownVars
  <2>3. \A u \in Thread : pc'[u] = pc[u] \/ (pc[u] \notin Making /\ pc'[u] \notin Making)
    BY DEF TypeOK, ThreadsOK
  <2> QED BY <2>1, <2>2, <2>3, StillShown DEF OneWriter
<1>4. ASSUME NEW side \in Side, DelayPasses(side)
      PROVE  (OneWriter /\ ListShown /\ EntryShown)'
  <2> USE <1>4 DEF DelayPasses
  <2>1. OneWriter'
    BY DEF OneWriter, StatOf, TypeOK, TableOK, ThreadsOK, tableVars, shownVars, eventVars
  <2>2. NoneToList' =>
           /\ NoneToList
           /\ UNCHANGED <<stat, enabled, entry, listed, stale>>
           /\ ack' = ack \/ (ack' = "ACK" /\ "silence" \in scenario)
    BY DEF NoneToList, OneWriter, StatOf, TypeOK, TableOK, ThreadsOK, tableVars, shownVars
  <2>3. \A u \in Thread : pc'[u] = pc[u] \/ (pc[u] \notin Making /\ pc'[u] \notin Making)
    BY DEF TypeOK, ThreadsOK
  <2> QED BY <2>1, <2>2, <2>3, StillShown DEF OneWriter
<1>5. ASSUME UpdateMark
      PROVE  (OneWriter /\ ListShown /\ EntryShown)'
  <2> USE <1>5 DEF UpdateMark
  <2>1. OneWriter'
    BY DEF OneWriter, StatOf, TypeOK, TableOK, ThreadsOK, tableVars, shownVars, eventVars
  <2>2. NoneToList' =>
           /\ NoneToList
           /\ UNCHANGED <<stat, enabled, entry, listed, stale>>
           /\ ack' = ack \/ (ack' = "ACK" /\ "silence" \in scenario)
    BY DEF NoneToList, OneWriter, StatOf, TypeOK, TableOK, ThreadsOK, tableVars, shownVars
  <2>3. \A u \in Thread : pc'[u] = pc[u] \/ (pc[u] \notin Making /\ pc'[u] \notin Making)
    BY DEF TypeOK, ThreadsOK
  <2> QED BY <2>1, <2>2, <2>3, StillShown DEF OneWriter
<1>6. ASSUME UpdateStat
      PROVE  (OneWriter /\ ListShown /\ EntryShown)'
  <2> USE <1>6 DEF UpdateStat
  <2>1. OneWriter'
    BY DEF OneWriter, StatOf, TypeOK, TableOK, ThreadsOK, tableVars, shownVars, eventVars
  <2>2. NoneToList' =>
           /\ NoneToList
           /\ UNCHANGED <<stat, enabled, entry, listed, stale>>
           /\ ack' = ack \/ (ack' = "ACK" /\ "silence" \in scenario)
    BY DEF NoneToList, OneWriter, StatOf, TypeOK, TableOK, ThreadsOK, tableVars, shownVars
  <2>3. \A u \in Thread : pc'[u] = pc[u] \/ (pc[u] \notin Making /\ pc'[u] \notin Making)
    BY DEF TypeOK, ThreadsOK
  <2> QED BY <2>1, <2>2, <2>3, StillShown DEF OneWriter
<1>7. ASSUME UpdateCount
      PROVE  (OneWriter /\ ListShown /\ EntryShown)'
  <2> USE <1>7 DEF UpdateCount
  <2>1. OneWriter'
    BY DEF OneWriter, StatOf, TypeOK, TableOK, ThreadsOK, tableVars, shownVars, eventVars
  <2>2. NoneToList' =>
           /\ NoneToList
           /\ UNCHANGED <<stat, enabled, entry, listed, stale>>
           /\ ack' = ack \/ (ack' = "ACK" /\ "silence" \in scenario)
    BY DEF NoneToList, OneWriter, StatOf, TypeOK, TableOK, ThreadsOK, tableVars, shownVars
  <2>3. \A u \in Thread : pc'[u] = pc[u] \/ (pc[u] \notin Making /\ pc'[u] \notin Making)
    BY DEF TypeOK, ThreadsOK
  <2> QED BY <2>1, <2>2, <2>3, StillShown DEF OneWriter
<1>8. ASSUME UpdateStamp
      PROVE  (OneWriter /\ ListShown /\ EntryShown)'
  <2> USE <1>8 DEF UpdateStamp, NoUpdate
  <2>1. OneWriter'
    BY DEF OneWriter, StatOf, TypeOK, TableOK, ThreadsOK, tableVars, shownVars, eventVars
  <2>2. NoneToList' =>
           /\ NoneToList
           /\ UNCHANGED <<stat, enabled, entry, listed, stale>>
           /\ ack' = ack \/ (ack' = "ACK" /\ "silence" \in scenario)
    BY DEF NoneToList, OneWriter, StatOf, TypeOK, TableOK, ThreadsOK, tableVars, shownVars
  <2>3. \A u \in Thread : pc'[u] = pc[u] \/ (pc[u] \notin Making /\ pc'[u] \notin Making)
    BY DEF TypeOK, ThreadsOK
  <2> QED BY <2>1, <2>2, <2>3, StillShown DEF OneWriter
<1>9. ASSUME TimerLook
      PROVE  (OneWriter /\ ListShown /\ EntryShown)'
  <2> USE <1>9 DEF TimerLook, EndSilence
  <2>1. OneWriter'
    BY DEF OneWriter, StatOf, TypeOK, TableOK, ThreadsOK, tableVars, shownVars, eventVars
  <2>2. NoneToList' =>
           /\ NoneToList
           /\ UNCHANGED <<stat, enabled, entry, listed, stale>>
           /\ ack' = ack \/ (ack' = "ACK" /\ "silence" \in scenario)
    BY DEF NoneToList, OneWriter, StatOf, TypeOK, TableOK, ThreadsOK, tableVars, shownVars
  <2>3. \A u \in Thread : pc'[u] = pc[u] \/ (pc[u] \notin Making /\ pc'[u] \notin Making)
    BY DEF TypeOK, ThreadsOK
  <2> QED BY <2>1, <2>2, <2>3, StillShown DEF OneWriter
<1>10. ASSUME TimerMark
      PROVE  (OneWriter /\ ListShown /\ EntryShown)'
  <2> USE <1>10 DEF TimerMark
  <2>1. OneWriter'
    BY DEF OneWriter, StatOf, TypeOK, TableOK, ThreadsOK, tableVars, shownVars, eventVars
  <2>2. NoneToList' =>
           /\ NoneToList
           /\ UNCHANGED <<stat, enabled, entry, listed, stale>>
           /\ ack' = ack \/ (ack' = "ACK" /\ "silence" \in scenario)
    BY DEF NoneToList, OneWriter, StatOf, TypeOK, TableOK, ThreadsOK, tableVars, shownVars
  <2>3. \A u \in Thread : pc'[u] = pc[u] \/ (pc[u] \notin Making /\ pc'[u] \notin Making)
    BY DEF TypeOK, ThreadsOK
  <2> QED BY <2>1, <2>2, <2>3, StillShown DEF OneWriter
<1>11. ASSUME TimerStat
      PROVE  (OneWriter /\ ListShown /\ EntryShown)'
  <2> USE <1>11 DEF TimerStat, NoTimer
  <2>1. OneWriter'
    BY DEF OneWriter, StatOf, TypeOK, TableOK, ThreadsOK, tableVars, shownVars, eventVars
  <2>2. NoneToList' =>
           /\ NoneToList
           /\ UNCHANGED <<stat, enabled, entry, listed, stale>>
           /\ ack' = ack \/ (ack' = "ACK" /\ "silence" \in scenario)
    BY DEF NoneToList, OneWriter, StatOf, TypeOK, TableOK, ThreadsOK, tableVars, shownVars
  <2>3. \A u \in Thread : pc'[u] = pc[u] \/ (pc[u] \notin Making /\ pc'[u] \notin Making)
    BY DEF TypeOK, ThreadsOK
  <2> QED BY <2>1, <2>2, <2>3, StillShown DEF OneWriter
<1>12. ASSUME AckEntry
      PROVE  (OneWriter /\ ListShown /\ EntryShown)'
  <2> USE <1>12 DEF AckEntry
  <2>1. OneWriter'
    BY DEF OneWriter, StatOf, TypeOK, TableOK, ThreadsOK, tableVars, shownVars, eventVars
  <2>2. NoneToList' =>
           /\ NoneToList
           /\ UNCHANGED <<stat, enabled, entry, listed, stale>>
           /\ ack' = ack \/ (ack' = "ACK" /\ "silence" \in scenario)
    BY DEF NoneToList, OneWriter, StatOf, TypeOK, TableOK, ThreadsOK, tableVars, shownVars
  <2>3. \A u \in Thread : pc'[u] = pc[u] \/ (pc[u] \notin Making /\ pc'[u] \notin Making)
    BY DEF TypeOK, ThreadsOK
  <2> QED BY <2>1, <2>2, <2>3, StillShown DEF OneWriter
<1>13. ASSUME AckSweep
      PROVE  (OneWriter /\ ListShown /\ EntryShown)'
  <2> USE <1>13 DEF AckSweep
  <2>1. OneWriter'
    BY DEF OneWriter, StatOf, TypeOK, TableOK, ThreadsOK, tableVars, shownVars, eventVars
  <2>2. NoneToList' =>
           /\ NoneToList
           /\ UNCHANGED <<stat, enabled, entry, listed, stale>>
           /\ ack' = ack \/ (ack' = "ACK" /\ "silence" \in scenario)
    BY DEF NoneToList, OneWriter, StatOf, TypeOK, TableOK, ThreadsOK, tableVars, shownVars
  <2>3. \A u \in Thread : pc'[u] = pc[u] \/ (pc[u] \notin Making /\ pc'[u] \notin Making)
    BY DEF TypeOK, ThreadsOK
  <2> QED BY <2>1, <2>2, <2>3, StillShown DEF OneWriter
<1>14. ASSUME DisableDrop
      PROVE  (OneWriter /\ ListShown /\ EntryShown)'
  <2> USE <1>14 DEF DisableDrop
  <2>1. OneWriter'
    BY DEF OneWriter, StatOf, TypeOK, TableOK, ThreadsOK, tableVars, shownVars, eventVars
  <2>2. NoneToList' =>
           /\ NoneToList
           /\ UNCHANGED <<stat, enabled, entry, listed, stale>>
           /\ ack' = ack \/ (ack' = "ACK" /\ "silence" \in scenario)
    BY DEF NoneToList, OneWriter, StatOf, TypeOK, TableOK, ThreadsOK, tableVars, shownVars
  <2>3. \A u \in Thread : pc'[u] = pc[u] \/ (pc[u] \notin Making /\ pc'[u] \notin Making)
    BY DEF TypeOK, ThreadsOK
  <2> QED BY <2>1, <2>2, <2>3, StillShown DEF OneWriter
<1>15. ASSUME AckBegin
      PROVE  (OneWriter /\ ListShown /\ EntryShown)'
  <2> USE <1>15 DEF AckBegin, Command
  <2>1. OneWriter'
    BY DEF OneWriter, StatOf, TypeOK, TableOK, ThreadsOK, tableVars, shownVars, eventVars
  <2>2. NoneToList' =>
           /\ NoneToList
           /\ UNCHANGED <<stat, enabled, entry, listed, stale>>
           /\ ack' = ack \/ (ack' = "ACK" /\ "silence" \in scenario)
    BY DEF NoneToList, OneWriter, StatOf, TypeOK, TableOK, ThreadsOK, tableVars, shownVars
  <2>3. \A u \in Thread : pc'[u] = pc[u] \/ (pc[u] \notin Making /\ pc'[u] \notin Making)
    BY DEF TypeOK, ThreadsOK
  <2> QED BY <2>1, <2>2, <2>3, StillShown DEF OneWriter
<1>16. ASSUME Silence
      PROVE  (OneWriter /\ ListShown /\ EntryShown)'
  <2> USE <1>16 DEF Silence, Command
  <2>1. OneWriter'
    BY DEF OneWriter, StatOf, TypeOK, TableOK, ThreadsOK, tableVars, shownVars, eventVars
  <2>2. NoneToList' =>
           /\ NoneToList
           /\ UNCHANGED <<stat, enabled, entry, listed, stale>>
           /\ ack' = ack \/ (ack' = "ACK" /\ "silence" \in scenario)
    BY DEF NoneToList, OneWriter, StatOf, TypeOK, TableOK, ThreadsOK, tableVars, shownVars
  <2>3. \A u \in Thread : pc'[u] = pc[u] \/ (pc[u] \notin Making /\ pc'[u] \notin Making)
    BY DEF TypeOK, ThreadsOK
  <2> QED BY <2>1, <2>2, <2>3, StillShown DEF OneWriter
<1>17. ASSUME Shelve
      PROVE  (OneWriter /\ ListShown /\ EntryShown)'
  <2> USE <1>17 DEF Shelve, Command
  <2>1. OneWriter'
    BY DEF OneWriter, StatOf, TypeOK, TableOK, ThreadsOK, tableVars, shownVars, eventVars
  <2>2. NoneToList' =>
           /\ NoneToList
           /\ UNCHANGED <<stat, enabled, entry, listed, stale>>
           /\ ack' = ack \/ (ack' = "ACK" /\ "silence" \in scenario)
    BY DEF NoneToList, OneWriter, StatOf, TypeOK, TableOK, ThreadsOK, tableVars, shownVars
  <2>3. \A u \in Thread : pc'[u] = pc[u] \/ (pc[u] \notin Making /\ pc'[u] \notin Making)
    BY DEF TypeOK, ThreadsOK
  <2> QED BY <2>1, <2>2, <2>3, StillShown DEF OneWriter
<1>18. ASSUME Enable
      PROVE  (OneWriter /\ ListShown /\ EntryShown)'
  <2> USE <1>18 DEF Enable, Command
  <2>1. OneWriter'
    BY DEF OneWriter, StatOf, TypeOK, TableOK, ThreadsOK, tableVars, shownVars, eventVars
  <2>2. NoneToList' =>
           /\ NoneToList
           /\ UNCHANGED <<stat, enabled, entry, listed, stale>>
           /\ ack' = ack \/ (ack' = "ACK" /\ "silence" \in scenario)
    BY DEF NoneToList, OneWriter, StatOf, TypeOK, TableOK, ThreadsOK, tableVars, shownVars
  <2>3. \A u \in Thread : pc'[u] = pc[u] \/ (pc[u] \notin Making /\ pc'[u] \notin Making)
    BY DEF TypeOK, ThreadsOK
  <2> QED BY <2>1, <2>2, <2>3, StillShown DEF OneWriter
<1>19. ASSUME Disable
      PROVE  (OneWriter /\ ListShown /\ EntryShown)'
  <2> USE <1>19 DEF Disable, Command
  <2>1. OneWriter'
    BY DEF OneWriter, StatOf, TypeOK, TableOK, ThreadsOK, tableVars, shownVars, eventVars
  <2>2. NoneToList' =>
           /\ NoneToList
           /\ UNCHANGED <<stat, enabled, entry, listed, stale>>
           /\ ack' = ack \/ (ack' = "ACK" /\ "silence" \in scenario)
    BY DEF NoneToList, OneWriter, StatOf, TypeOK, TableOK, ThreadsOK, tableVars, shownVars
  <2>3. \A u \in Thread : pc'[u] = pc[u] \/ (pc[u] \notin Making /\ pc'[u] \notin Making)
    BY DEF TypeOK, ThreadsOK
  <2> QED BY <2>1, <2>2, <2>3, StillShown DEF OneWriter
<1>20. ASSUME NEW t \in Thread, OtherAlarm(t)
      PROVE  (OneWriter /\ ListShown /\ EntryShown)'
  <2> USE <1>20 DEF OtherAlarm
  <2>1. OneWriter'
    BY DEF OneWriter, StatOf, TypeOK, TableOK, ThreadsOK, tableVars, shownVars, eventVars
  <2>2. NoneToList' =>
           /\ NoneToList
           /\ UNCHANGED <<stat, enabled, entry, listed, stale>>
           /\ ack' = ack \/ (ack' = "ACK" /\ "silence" \in scenario)
    BY DEF NoneToList, OneWriter, StatOf, TypeOK, TableOK, ThreadsOK, tableVars, shownVars
  <2>3. \A u \in Thread : pc'[u] = pc[u] \/ (pc[u] \notin Making /\ pc'[u] \notin Making)
    BY DEF TypeOK, ThreadsOK
  <2> QED BY <2>1, <2>2, <2>3, StillShown DEF OneWriter
<1>21. ASSUME TakeEvent
      PROVE  (OneWriter /\ ListShown /\ EntryShown)'
  <2>0. PICK status \in Side :
          update' = [value |-> Head(evlist), status |-> status, changed |-> FALSE]
    <3>1. Head(evlist) \in BOOLEAN
      BY <1>21, HeadTailProperties DEF TakeEvent, TypeOK, EventsOK
    <3>2. SideOf(Head(evlist)) \in Side
      BY <3>1 DEF SideOf
    <3> QED BY <1>21, <3>2 DEF TakeEvent
  <2>e. /\ ~shelved' /\ ("silence" \notin scenario => ~silenced' /\ ack' = ack)
        /\ ack' \in {ack, "ACK"}
        /\ update'.status \in Side /\ ~update'.changed
        /\ pc["alarm"] = "idle" /\ pc' = [pc EXCEPT !["alarm"] = "mark"]
        /\ UNCHANGED <<stat, enabled, entry, listed, stale, timer>>
    BY <1>21, <2>0 DEF TakeEvent, EndSilence, OneWriter, shownVars
  <2> USE <2>e
  <2>1. OneWriter'
    BY DEF OneWriter, TypeOK, ThreadsOK
  <2>2. NoneToList' => NoneToList
    BY DEF NoneToList, OneWriter, TypeOK, ThreadsOK
  <2>3. \A u \in Thread : pc'[u] = pc[u] \/ (pc[u] \notin Making /\ pc'[u] \notin Making)
    BY DEF TypeOK, ThreadsOK
  <2> QED BY <2>1, <2>2, <2>3, StillShown DEF OneWriter
<1>22. ASSUME NEW t \in Thread, Lists(t) \/ Test(t)
      PROVE  (OneWriter /\ ListShown /\ EntryShown)'
  <2>0. PICK list \in {"OOSRV"} \cup Tests :
           /\ TestFor(t, list)
           /\ \/ list = "OOSRV" /\ pc[t] = "lists" /\ \A u \in Thread : pc[u] \notin Making
              \/ list # "OOSRV" /\ pc[t] = list
    BY <1>22 DEF Lists, Test
  <2>a. /\ UNCHANGED <<entry, stale, stat, ack, enabled, shelved, silenced, update, timer>>
        /\ pc' = [pc EXCEPT ![t] = IF Belongs(list) THEN "alarmed" ELSE After[list]]
        /\ listed' = IF Belongs(list) THEN list ELSE IF list = "NORM" THEN "none" ELSE listed
    BY <2>0 DEF TestFor, tableVars
  <2>b. pc'[t] = (IF Belongs(list) THEN "alarmed" ELSE After[list])
    BY <2>a DEF TypeOK, ThreadsOK
  <2>c. \A u \in Thread \ {t} : pc'[u] = pc[u] /\ pc[u] \notin Making
    BY <2>0, <2>a DEF TypeOK, ThreadsOK
  <2>d. pc'[t] \in Tests \cup {"alarmed"}
    BY <2>0, <2>b DEF After
  <2>1. OneWriter'
    BY <2>0, <2>a, <2>b, <2>c, <2>d DEF OneWriter
  <2>2. ListShown'
    <3> SUFFICES ASSUME enabled', NoneToList'
                 PROVE  /\ \A u \in Thread : Passed(pc[u])'
                        /\ (\A u \in Thread : pc'[u] \notin Tests) => ListRight'
      BY DEF ListShown
    <3>1. \A u \in Thread \ {t} : Passed(pc[u])'
      BY <2>c DEF Passed
    <3>2. CASE list = "OOSRV"
      <4>1. pc'[t] = "SHLVD"
        BY <2>a, <2>b, <3>2 DEF Belongs, After
      <4> QED BY <3>1, <4>1 DEF Passed
    <3>3. CASE list # "OOSRV"
      <4>1. Passed(list)
        BY <2>0, <2>a, <2>c, <3>3 DEF ListShown, NoneToList
      <4>2. Passed(pc[t])'
        BY <2>0, <2>a, <2>b, <3>3, <4>1 DEF Passed, Belongs, After, TypeOK, TableOK
      <4>3. pc'[t] \notin Tests => ListRight'
        BY <2>0, <2>a, <2>b, <3>3, <4>1 DEF Passed, ListRight, Belongs, After, TypeOK, TableOK
      <4> QED BY <3>1, <4>2, <4>3
    <3> QED BY <3>2, <3>3
  <2>3. EntryShown'
    BY <2>c, <2>d DEF EntryShown
  <2> QED BY <2>1, <2>2, <2>3
<1>23. ASSUME NEW t \in Thread, Show(t)
      PROVE  (OneWriter /\ ListShown /\ EntryShown)'
  <2>0. PICK place \in {"idle", "active", "push", "normal", "erase"} : Prepared(t, place)
    BY <1>23 DEF Show, Alarmed, FindActive, Push, FindNormal, Erase
  <2>a. /\ UNCHANGED <<listed, stat, ack, enabled, shelved, silenced, update, timer>>
        /\ pc' = [pc EXCEPT ![t] = place]
    BY <2>0 DEF Prepared, tableVars
  <2>b. pc'[t] = place /\ pc[t] \in Making \ Tests
    BY <1>23, <2>a DEF Show, Alarmed, FindActive, Push, FindNormal, Erase, TypeOK, ThreadsOK
  <2>c. \A u \in Thread \ {t} : pc'[u] = pc[u] /\ pc[u] \notin Making
    BY <2>a, <2>b DEF TypeOK, ThreadsOK
  <2>d. NoneToList' => NoneToList
    BY <2>a, <2>b, <2>c DEF NoneToList
  <2>1. OneWriter'
    BY <2>a, <2>b, <2>c DEF OneWriter
  <2>2. ListShown'
    BY <2>a, <2>b, <2>c, <2>d DEF ListShown, Passed, ListRight, Belongs
  <2>3. EntryShown'
    <3> SUFFICES ASSUME enabled, NoneToList, ~stale'
                 PROVE  /\ place \in {"normal", "erase"} => stat = "NORMAL"
                        /\ place = "idle" => (stat = "ALARM" => entry' # NoEntry)
      BY <2>a, <2>b, <2>c, <2>d DEF EntryShown
    <3>0. ~stale => (pc[t] \in {"normal", "erase"} => stat = "NORMAL")
      BY DEF EntryShown
    <3>t. stat \in Stat /\ (entry # NoEntry => entry \in Entry) /\ ack \in Ack
      BY DEF TypeOK, TableOK, ShownOK
    <3>1. CASE Alarmed(t)
      BY <2>b, <3>1, <3>t DEF Alarmed, Active, Prepared, TypeOK, ThreadsOK
    <3>2. CASE FindActive(t)
      <4>1. entry # NoEntry => [entry EXCEPT !.stat = "ALARM", !.ack = ack] \in Entry
        BY <3>t DEF Entry
      <4> QED BY <2>a, <2>b, <3>2, <4>1, EntryIsOne DEF FindActive, Prepared, TypeOK, ThreadsOK
    <3>3. CASE Push(t)
      <4>1. [stat |-> stat, ack |-> ack, done |-> FALSE] \in Entry
        BY <3>t DEF Entry
      <4> QED BY <2>b, <3>3, <4>1, EntryIsOne DEF Push, Prepared, TypeOK, ThreadsOK
    <3>4. CASE FindNormal(t)
      BY <2>b, <3>0, <3>4 DEF FindNormal, Prepared
    <3>5. CASE Erase(t)
      BY <2>b, <3>0, <3>5 DEF Erase, Prepared, TypeOK, ThreadsOK
    <3> QED BY <1>23, <3>1, <3>2, <3>3, <3>4, <3>5 DEF Show
  <2> QED BY <2>1, <2>2, <2>3
<1>24. ASSUME NEW t \in Thread, OtherErase(t)
      PROVE  (OneWriter /\ ListShown /\ EntryShown)'
  <2> USE <1>24 DEF OtherErase, Prepared
  <2>1. OneWriter'
    BY DEF OneWriter, StatOf, TypeOK, TableOK, ThreadsOK, tableVars, eventVars
  <2>2. ~NoneToList'
    BY DEF NoneToList, TypeOK, ThreadsOK
  <2> QED BY <2>1, <2>2 DEF ListShown, EntryShown
<1>25. CASE UNCHANGED vars
  <2>1. UNCHANGED <<tableVars, shownVars, pc, update, timer>>
    BY <1>25 DEF vars
  <2>2. OneWriter' /\ (NoneToList' => NoneToList)
    BY <2>1 DEF OneWriter, NoneToList, StatOf, tableVars
  <2> QED BY <2>1, <2>2, StillShown DEF OneWriter, tableVars, shownVars
<1> QED BY <1>1, <1>2, <1>3, <1>4, <1>5, <1>6, <1>7, <1>8, <1>9, <1>10, <1>11, <1>12, <1>13,
           <1>14, <1>15, <1>16, <1>17, <1>18, <1>19, <1>20, <1>21, <1>22, <1>23, <1>24, <1>25
           DEF Next, Update, TimerUpdate, Client, Prepare

LEMMA ToShow == ASSUME \A t \in Thread : ~ToBeShown(t)
                PROVE  NoneToList /\ \A t \in Thread : pc[t] \notin Making
BY DEF ToBeShown, NoneToList, Idle

\* AlarmShown: however the alarm thread, the update thread and the commands
\* interleave with the tests of prepare_alarm_attr and with what they write, nothing
\* that has changed is left unshown.
THEOREM AlarmShownTheorem == Spec => []AlarmShown
<1>1. Init => TypeOK /\ ShownInv
  BY InitType, InitShown
<1>2. TypeOK /\ ShownInv /\ [Next]_vars => (TypeOK /\ ShownInv)'
  BY StepType, StepShown
<1>3. TypeOK /\ ShownInv => AlarmShown
  BY ToShow DEF ShownInv, ListShown, ListRight, EntryShown, AlarmShown
<1> QED BY <1>1, <1>2, <1>3, PTL DEF Spec
=============================================================================
