------------------------ MODULE FormulaEvents_proofs ------------------------
(***************************************************************************)
(* Theorems about FormulaEvents: types, and that the variables of formulas *)
(* never step back to an earlier reading, for any number of proxies and    *)
(* formulas and any size of the queue.                                     *)
(***************************************************************************)
EXTENDS FormulaEvents, SequenceTheorems, TLAPS

Event == [proxy : Proxy, reading : 1..MaxReading]

\* TypeOK, cut into the parts of the state.
RemotesOK ==
    /\ link \in [Proxy -> Link] /\ trouble \in 0..MaxTrouble
    /\ remote \in [Proxy -> 1..MaxReading]

HelpersOK ==
    /\ online \in [Proxy -> BOOLEAN] /\ timeout \in [Proxy -> Timeout]
    /\ subscribed \subseteq Proxy

QueueOK == queue \in Seq(Event) /\ Len(queue) <= MaxEvents

VariablesOK ==
    /\ created \in [Formula -> SUBSET Proxy]
    /\ \A f \in Formula : created[f] \subseteq Vars[f]
    /\ DOMAIN value = Formula
    /\ \A f \in Formula : value[f] \in Reading(f)
    /\ old \subseteq Formula \X Proxy

AttributesOK ==
    /\ DOMAIN attr = Formula /\ DOMAIN told = Formula
    /\ \A f \in Formula : attr[f] \in Attribute(f) /\ told[f] \in Reading(f) \cup {Safe}

ThreadsOK ==
    /\ pc \in [Thread -> PC]
    /\ event \in Event \cup {NoEvent}
    /\ event = NoEvent <=> pc["handler"] = "idle"
    /\ runStatus \in RunStatus
    /\ left \in [Thread -> SUBSET Formula]
    /\ pc["handler"] = "idle" => left["handler"] = {}
    /\ \A f \in left["handler"] : event.proxy \in Vars[f]
    /\ doing \in [Thread -> Formula \cup {NoFormula}]
    /\ \A t \in Thread : pc[t] \in {"idle", "next"} <=> doing[t] = NoFormula
    /\ DOMAIN held = Thread
    /\ \A t \in Thread : IF pc[t] \in {"write", "tell"}
                         THEN held[t] \in Attribute(doing[t]) ELSE held[t] = Nothing

\* The same state, part by part.
PartsOK == RemotesOK /\ HelpersOK /\ QueueOK /\ VariablesOK /\ AttributesOK /\ ThreadsOK

LEMMA PartsAreTypes == PartsOK => TypeOK
BY DEF TypeOK, PartsOK, RemotesOK, HelpersOK, QueueOK, VariablesOK, AttributesOK, ThreadsOK,
       Event

LEMMA InitialReading ==
  ASSUME NEW f \in Formula
  PROVE  Initial(f) \in Reading(f)
  BY ConstantAssumption DEF Initial, Reading

LEMMA InitType == Init => PartsOK
<1> SUFFICES ASSUME Init PROVE PartsOK
  OBVIOUS
<1>1. RemotesOK
  BY ConstantAssumption DEF Init, RemotesOK
<1>2. HelpersOK
  BY DEF Init, HelpersOK, Timeout
<1>3. QueueOK
  BY ConstantAssumption DEF Init, QueueOK
<1>4. VariablesOK
  BY InitialReading, ConstantAssumption DEF Init, VariablesOK
<1>5. AttributesOK
  BY InitialReading DEF Init, AttributesOK, Attribute, Quality
<1>6. ThreadsOK
  BY ConstantAssumption DEF Init, ThreadsOK, Thread, PC, RunStatus
<1> QED BY <1>1, <1>2, <1>3, <1>4, <1>5, <1>6 DEF PartsOK

\* The types of the threads after a step of thread t.
LEMMA MovesLemma ==
  ASSUME ThreadsOK, NEW t \in Thread, NEW place \in PC,
         NEW f \in Formula \cup {NoFormula}, NEW h,
         Moves(t, place, f, h),
         place \in {"idle", "next"} <=> f = NoFormula,
         IF place \in {"write", "tell"} THEN h \in Attribute(f) ELSE h = Nothing,
         pc[t] # "idle" \/ t = "poll",
         left' \in [Thread -> SUBSET Formula],
         left'["handler"] \subseteq left["handler"],
         t = "handler" /\ place = "idle" => left'["handler"] = {}
  PROVE  ThreadsOK'
<1>1. /\ pc' = [pc EXCEPT ![t] = place] /\ doing' = [doing EXCEPT ![t] = f]
      /\ held' = [held EXCEPT ![t] = h]
      /\ event' = IF t = "handler" /\ place = "idle" THEN NoEvent ELSE event
      /\ runStatus' = IF t = "poll" /\ place = "idle" THEN "ONLINE" ELSE runStatus
  BY DEF Moves
<1>2. /\ pc' \in [Thread -> PC] /\ doing' \in [Thread -> Formula \cup {NoFormula}]
      /\ DOMAIN held' = Thread
      /\ runStatus' \in RunStatus /\ event' \in Event \cup {NoEvent}
  BY <1>1 DEF ThreadsOK, RunStatus
<1>3. /\ pc'[t] = place /\ doing'[t] = f /\ held'[t] = h
      /\ \A u \in Thread \ {t} : pc'[u] = pc[u] /\ doing'[u] = doing[u] /\ held'[u] = held[u]
  BY <1>1 DEF ThreadsOK
<1>4. "handler" \in Thread /\ (t = "handler" \/ t = "poll")
  BY DEF Thread
<1>5. event' = NoEvent <=> pc'["handler"] = "idle"
  BY <1>1, <1>3, <1>4 DEF ThreadsOK
<1>6. pc'["handler"] = "idle" => left'["handler"] = {}
  BY <1>3, <1>4 DEF ThreadsOK
<1>7. \A g \in left'["handler"] : event'.proxy \in Vars[g]
  BY <1>1 DEF ThreadsOK
<1>8. \A u \in Thread : pc'[u] \in {"idle", "next"} <=> doing'[u] = NoFormula
  BY <1>3 DEF ThreadsOK
<1>9. \A u \in Thread : IF pc'[u] \in {"write", "tell"}
                        THEN held'[u] \in Attribute(doing'[u]) ELSE held'[u] = Nothing
  BY <1>3 DEF ThreadsOK
<1> QED BY <1>2, <1>5, <1>6, <1>7, <1>8, <1>9 DEF ThreadsOK

-----------------------------------------------------------------------------
(* Types, action by action *)

\* What a step leaves alone keeps its types.
LEMMA Untouched ==
  ASSUME PartsOK
  PROVE  /\ UNCHANGED remoteVars => RemotesOK'
         /\ UNCHANGED helperVars => HelpersOK'
         /\ UNCHANGED queue => QueueOK'
         /\ UNCHANGED varVars => VariablesOK'
         /\ UNCHANGED <<attr, told>> => AttributesOK'
         /\ UNCHANGED threadVars => ThreadsOK'
<1>1. UNCHANGED remoteVars => RemotesOK'
  BY DEF PartsOK, RemotesOK, remoteVars
<1>2. UNCHANGED helperVars => HelpersOK'
  BY DEF PartsOK, HelpersOK, helperVars
<1>3. UNCHANGED queue => QueueOK'
  BY DEF PartsOK, QueueOK
<1>4. UNCHANGED varVars => VariablesOK'
  BY DEF PartsOK, VariablesOK, varVars
<1>5. UNCHANGED <<attr, told>> => AttributesOK'
  BY DEF PartsOK, AttributesOK
<1>6. UNCHANGED threadVars => ThreadsOK'
  BY DEF PartsOK, ThreadsOK, threadVars
<1> QED BY <1>1, <1>2, <1>3, <1>4, <1>5, <1>6

LEMMA PostedType ==
  ASSUME PartsOK, NEW p \in Proxy
  PROVE  /\ Posted(p) \in Seq(Event) /\ Len(queue) \in Nat /\ Len(Posted(p)) = Len(queue) + 1
         /\ \A i \in 1..Len(queue) : Posted(p)[i] = queue[i]
         /\ Posted(p)[Len(queue) + 1] = [proxy |-> p, reading |-> remote[p]]
<1>1. queue \in Seq(Event) /\ [proxy |-> p, reading |-> remote[p]] \in Event
  BY DEF PartsOK, QueueOK, RemotesOK, Event
<1> QED BY <1>1, AppendProperties DEF Posted

LEMMA EnvironmentType ==
  ASSUME PartsOK, Environment
  PROVE  PartsOK'
<1>1. CASE \E p \in Proxy, answer \in Link : LinkChanges(p, answer)
  <2> PICK p \in Proxy, answer \in Link : LinkChanges(p, answer)
    BY <1>1
  <2>1. RemotesOK'
    BY ConstantAssumption DEF PartsOK, RemotesOK, LinkChanges
  <2> QED BY <2>1, Untouched DEF PartsOK, LinkChanges
<1>2. CASE \E p \in Proxy : NewReading(p)
  <2> PICK p \in Proxy : NewReading(p)
    BY <1>2
  <2>1. RemotesOK'
    BY ConstantAssumption DEF PartsOK, RemotesOK, NewReading
  <2> QED BY <2>1, Untouched DEF PartsOK, NewReading
<1>3. CASE \E p \in Proxy : PushEvent(p)
  <2> PICK p \in Proxy : PushEvent(p)
    BY <1>3
  <2>1. queue' = Posted(p) /\ Len(queue) < MaxEvents
    BY DEF PushEvent
  <2>2. /\ Posted(p) \in Seq(Event) /\ Len(queue) \in Nat
        /\ Len(Posted(p)) = Len(queue) + 1
    BY PostedType
  <2>3. Len(Posted(p)) <= MaxEvents
    BY <2>1, <2>2, ConstantAssumption
  <2>4. QueueOK'
    BY <2>1, <2>2, <2>3 DEF QueueOK
  <2> QED BY <2>4, Untouched DEF PartsOK, PushEvent
<1>4. CASE \E p \in Proxy : DowntimeOver(p)
  <2> PICK p \in Proxy : DowntimeOver(p)
    BY <1>4
  <2>1. HelpersOK'
    BY DEF PartsOK, HelpersOK, DowntimeOver, Timeout
  <2> QED BY <2>1, Untouched DEF PartsOK, DowntimeOver
<1>5. CASE \E f \in Formula, p \in Proxy : GetsOld(f, p)
  <2> PICK f \in Formula, p \in Proxy : GetsOld(f, p)
    BY <1>5
  <2>1. VariablesOK'
    BY DEF PartsOK, VariablesOK, GetsOld
  <2> QED BY <2>1, Untouched DEF PartsOK, GetsOld
<1> QED BY <1>1, <1>2, <1>3, <1>4, <1>5 DEF Environment

LEMMA EvaluatedType ==
  ASSUME NEW f \in Formula, NEW v \in Reading(f), NEW O
  PROVE  Evaluated(f, v, O) \in Attribute(f)
  BY DEF Evaluated, Attribute, Quality

\* A thread that is at a formula.
LEMMA WriteType ==
  ASSUME PartsOK, NEW t \in Thread, Write(t)
  PROVE  PartsOK'
<1>1. /\ pc[t] = "write" /\ doing[t] \in Formula
      /\ held[t] \in Attribute(doing[t])
      /\ left[t] \subseteq Formula
  BY DEF Write, At, PartsOK, ThreadsOK, PC
<1>2. AttributesOK'
  BY <1>1 DEF Write, PartsOK, AttributesOK
<1>3. ThreadsOK'
  <2>1. CASE t = "handler"
    <3>1. Moves(t, "read", doing[t], Nothing)
      BY <2>1 DEF Write
    <3> QED BY <3>1, <1>1, MovesLemma, ConstantAssumption
            DEF Write, PartsOK, ThreadsOK, PC, Thread
  <2>2. CASE t # "handler"
    <3>1. Moves(t, Following(left[t]), NoFormula, Nothing)
      BY <2>2 DEF Write
    <3>2. Following(left[t]) \in {"idle", "next"} /\ "idle" \in PC /\ "next" \in PC
      BY DEF Following, PC
    <3>3. Following(left[t]) \in PC /\ Following(left[t]) \notin {"write", "tell"}
      BY <3>2
    <3> QED BY <3>1, <3>2, <3>3, <1>1, <2>2, MovesLemma DEF Write, PartsOK, ThreadsOK
  <2> QED BY <2>1, <2>2
<1> QED BY <1>2, <1>3, Untouched DEF PartsOK, Write

LEMMA FollowingType ==
  ASSUME NEW R
  PROVE  /\ Following(R) \in PC /\ Following(R) \in {"idle", "next"}
         /\ Following(R) \notin {"write", "tell"}
         /\ Following(R) = "idle" => R = {}
  BY DEF Following, PC

LEMMA ReadBackType ==
  ASSUME PartsOK, NEW t \in Thread, ReadBack(t)
  PROVE  PartsOK'
<1>1. pc[t] = "read" /\ doing[t] \in Formula /\ attr[doing[t]] \in Attribute(doing[t])
  BY DEF ReadBack, At, PartsOK, ThreadsOK, AttributesOK, PC
<1>2. Moves(t, "tell", doing[t], attr[doing[t]])
  BY DEF ReadBack
<1>3. ThreadsOK'
  BY <1>1, <1>2, MovesLemma, ConstantAssumption DEF ReadBack, PartsOK, ThreadsOK, PC
<1> QED BY <1>3, Untouched DEF PartsOK, ReadBack

LEMMA TellType ==
  ASSUME PartsOK, NEW t \in Thread, Tell(t)
  PROVE  PartsOK'
<1>1. /\ pc[t] = "tell" /\ doing[t] \in Formula /\ left[t] \subseteq Formula
      /\ held[t] \in Attribute(doing[t])
  BY DEF Tell, At, PartsOK, ThreadsOK, PC
<1>2. held[t].value \in Reading(doing[t]) \cup {Safe}
  BY <1>1 DEF Attribute
<1>3. AttributesOK'
  BY <1>1, <1>2 DEF Tell, PartsOK, AttributesOK
<1>4. Moves(t, Following(left[t]), NoFormula, Nothing)
  BY DEF Tell
<1>5. ThreadsOK'
  BY <1>1, <1>4, FollowingType, MovesLemma DEF Tell, PartsOK, ThreadsOK
<1> QED BY <1>3, <1>5, Untouched DEF PartsOK, Tell

\* The thread of EventHandlerTask.
LEMMA TakeEventType ==
  ASSUME PartsOK, TakeEvent
  PROVE  PartsOK'
<1>1. /\ queue \in Seq(Event) /\ queue # <<>> /\ Head(queue) \in Event
      /\ queue' = Tail(queue) /\ Tail(queue) \in Seq(Event)
      /\ Len(Tail(queue)) = Len(queue) - 1 /\ Len(queue) \in Nat
  BY HeadTailProperties DEF TakeEvent, PartsOK, QueueOK
<1>2. QueueOK'
  BY <1>1, ConstantAssumption DEF PartsOK, QueueOK
<1>3. CASE Linked(Head(queue).proxy) = {}
  BY <1>2, <1>3, Untouched DEF TakeEvent, PartsOK, threadVars
<1>4. CASE Linked(Head(queue).proxy) # {}
  <2>1. /\ pc' = [pc EXCEPT !["handler"] = "next"] /\ event' = Head(queue)
        /\ left' = [left EXCEPT !["handler"] = Linked(Head(queue).proxy)]
        /\ UNCHANGED <<runStatus, doing, held>>
    BY <1>4 DEF TakeEvent
  <2>2. pc["handler"] = "idle" /\ "handler" \in Thread /\ "next" \in PC
    BY DEF TakeEvent, At, Thread, PC
  <2>3. /\ Linked(Head(queue).proxy) \subseteq Formula
        /\ \A f \in Linked(Head(queue).proxy) : Head(queue).proxy \in Vars[f]
    BY DEF Linked
  <2>4. NoEvent \notin Event
    BY ConstantAssumption DEF Event
  <2>5. /\ pc' \in [Thread -> PC] /\ left' \in [Thread -> SUBSET Formula]
        /\ left'["handler"] = Linked(Head(queue).proxy)
        /\ pc'["handler"] = "next"
        /\ \A t \in Thread \ {"handler"} : pc'[t] = pc[t]
    BY <2>1, <2>2, <2>3 DEF PartsOK, ThreadsOK
  <2>6. \A t \in Thread : pc'[t] \in {"idle", "next"} <=> doing'[t] = NoFormula
    BY <2>1, <2>2, <2>5 DEF PartsOK, ThreadsOK
  <2>7. \A t \in Thread : IF pc'[t] \in {"write", "tell"}
                          THEN held'[t] \in Attribute(doing'[t]) ELSE held'[t] = Nothing
    BY <2>1, <2>2, <2>5 DEF PartsOK, ThreadsOK
  <2>8. ThreadsOK'
    BY <1>1, <2>1, <2>3, <2>4, <2>5, <2>6, <2>7 DEF PartsOK, ThreadsOK
  <2> QED BY <1>2, <2>8, Untouched DEF TakeEvent, PartsOK
<1> QED BY <1>3, <1>4

LEMMA SetEventValueType ==
  ASSUME PartsOK, NEW f \in Formula, SetEventValue(f)
  PROVE  PartsOK'
<1>1. /\ pc["handler"] = "next" /\ f \in left["handler"] /\ "handler" \in Thread
      /\ left' = [left EXCEPT !["handler"] = @ \ {f}]
  BY DEF SetEventValue, At, Thread
<1>2. /\ left' \in [Thread -> SUBSET Formula] /\ left'["handler"] = left["handler"] \ {f}
      /\ event \in Event /\ event.proxy \in Vars[f]
  BY <1>1 DEF PartsOK, ThreadsOK
<1>3. CASE event.proxy \in created[f]
  <2>1. /\ value' = [value EXCEPT ![f][event.proxy] = event.reading]
        /\ old' = old \ {<<f, event.proxy>>} /\ created' = created
        /\ Moves("handler", "write", f, Evaluated(f, value'[f], old'))
    BY <1>3 DEF SetEventValue
  <2>2. event.reading \in 0..MaxReading /\ value[f] \in Reading(f)
    BY <1>2, ConstantAssumption DEF Event, PartsOK, VariablesOK
  <2>3. /\ DOMAIN value' = Formula /\ value'[f] = [value[f] EXCEPT ![event.proxy] = event.reading]
        /\ \A g \in Formula \ {f} : value'[g] = value[g]
    BY <2>1 DEF PartsOK, VariablesOK
  <2>4. value'[f] \in Reading(f)
    BY <2>2, <2>3 DEF Reading
  <2>5. VariablesOK'
    BY <2>1, <2>3, <2>4 DEF PartsOK, VariablesOK, Reading
  <2>6. Evaluated(f, value'[f], old') \in Attribute(f)
    BY <2>4, EvaluatedType
  <2>7. ThreadsOK'
    BY <1>1, <1>2, <2>1, <2>6, MovesLemma, ConstantAssumption DEF PartsOK, PC
  <2> QED BY <2>5, <2>7, Untouched DEF SetEventValue, PartsOK
<1>4. CASE event.proxy \notin created[f]
  <2>1. Moves("handler", Following(left'["handler"]), NoFormula, Nothing)
        /\ UNCHANGED varVars
    BY <1>4 DEF SetEventValue, varVars
  <2>2. ThreadsOK'
    BY <1>1, <1>2, <2>1, FollowingType, MovesLemma DEF PartsOK
  <2> QED BY <2>1, <2>2, Untouched DEF SetEventValue, PartsOK
<1> QED BY <1>3, <1>4

LEMMA HandlerStepType ==
  ASSUME PartsOK, HandlerStep
  PROVE  PartsOK'
<1>1. "handler" \in Thread
  BY DEF Thread
<1> QED BY <1>1, TakeEventType, SetEventValueType, WriteType, ReadBackType, TellType
        DEF HandlerStep

\* The polled commands.
LEMMA SubscribeType ==
  ASSUME PartsOK, NEW p \in Proxy, SubscribeToEvent(p)
  PROVE  PartsOK'
<1>1. HelpersOK'
  BY DEF SubscribeToEvent, PartsOK, HelpersOK
<1>2. QueueOK'
  <2>1. CASE Len(queue) < MaxEvents
    <3>1. queue' = Posted(p)
      BY <2>1 DEF SubscribeToEvent
    <3>2. /\ Posted(p) \in Seq(Event) /\ Len(queue) \in Nat
          /\ Len(Posted(p)) = Len(queue) + 1
      BY PostedType
    <3>3. Len(Posted(p)) <= MaxEvents
      BY <2>1, <3>2, ConstantAssumption
    <3> QED BY <3>1, <3>2, <3>3 DEF QueueOK
  <2>2. CASE ~(Len(queue) < MaxEvents)
    BY <2>2, Untouched DEF SubscribeToEvent
  <2> QED BY <2>1, <2>2
<1> QED BY <1>1, <1>2, Untouched DEF SubscribeToEvent, PartsOK

LEMMA UpdateFormulaType ==
  ASSUME PartsOK, NEW f \in Formula, NEW unclear \in SUBSET Proxy, UpdateFormula(f, unclear)
  PROVE  PartsOK'
<1>1. /\ pc["poll"] = "idle" /\ "poll" \in Thread /\ "poll" # "handler"
      /\ left' = left /\ UNCHANGED <<value, old>>
      /\ created' = [created EXCEPT ![f] =
                        @ \cup {p \in Vars[f] : link[p] = "up" \/ p \in unclear}]
  BY DEF UpdateFormula, At, Thread
<1>2. /\ created' \in [Formula -> SUBSET Proxy]
      /\ \A g \in Formula : created'[g] \subseteq Vars[g]
  BY <1>1, ConstantAssumption DEF PartsOK, VariablesOK
<1>3. VariablesOK'
  BY <1>1, <1>2 DEF PartsOK, VariablesOK
<1>4. ThreadsOK'
  <2>1. CASE created'[f] = Vars[f]
    <3>1. Moves("poll", "write", f, Evaluated(f, value[f], old))
      BY <2>1 DEF UpdateFormula
    <3>2. Evaluated(f, value[f], old) \in Attribute(f)
      BY EvaluatedType DEF PartsOK, VariablesOK
    <3>3. /\ left' \in [Thread -> SUBSET Formula] /\ left'["handler"] \subseteq left["handler"]
          /\ "write" \in PC /\ f # NoFormula
      BY <1>1, ConstantAssumption DEF PartsOK, ThreadsOK, PC
    <3> QED BY <1>1, <3>1, <3>2, <3>3, MovesLemma DEF PartsOK
  <2>2. CASE created'[f] # Vars[f]
    BY <2>2, <1>1, Untouched DEF UpdateFormula, threadVars
  <2> QED BY <2>1, <2>2
<1> QED BY <1>3, <1>4, Untouched DEF UpdateFormula, PartsOK

LEMMA MonitorProxyType ==
  ASSUME PartsOK, NEW p \in Proxy, MonitorProxy(p)
  PROVE  PartsOK'
<1>1. Monitored(p, link[p]) /\ link[p] \in Link /\ subscribed' = subscribed
  BY DEF MonitorProxy, PartsOK, RemotesOK
<1>2. HelpersOK'
  <2>1. CASE link[p] = "up"
    BY <1>1, <2>1 DEF Monitored, PartsOK, HelpersOK, Timeout
  <2>2. CASE link[p] = "down"
    BY <1>1, <2>2 DEF Monitored, PartsOK, HelpersOK, Timeout
  <2>3. CASE link[p] = "unclear"
    BY <1>1, <2>3 DEF Monitored, PartsOK, HelpersOK
  <2> QED BY <1>1, <2>1, <2>2, <2>3 DEF Link
<1>3. ThreadsOK'
  <2> DEFINE status == RunStatusOf(online'[p], timeout'[p])
             R == IF status = "ONLINE" THEN {} ELSE Linked(p)
  <2>1. /\ left' = [left EXCEPT !["poll"] = R]
        /\ IF R = {} THEN UNCHANGED <<pc, runStatus>>
           ELSE pc' = [pc EXCEPT !["poll"] = "next"] /\ runStatus' = status
        /\ UNCHANGED <<event, doing, held>>
    BY DEF MonitorProxy
  <2>2. status \in RunStatus /\ R \in SUBSET Formula
    BY DEF RunStatusOf, RunStatus, Linked
  <2>3. pc["poll"] = "idle" /\ "poll" \in Thread /\ "handler" \in Thread /\ "next" \in PC
    BY DEF MonitorProxy, At, Thread, PC
  <2> HIDE DEF status, R
  <2>4. /\ left' \in [Thread -> SUBSET Formula] /\ left'["handler"] = left["handler"]
        /\ runStatus' \in RunStatus /\ pc' \in [Thread -> PC]
        /\ pc'["poll"] \in {"idle", "next"}
        /\ \A t \in Thread \ {"poll"} : pc'[t] = pc[t]
    BY <2>1, <2>2, <2>3 DEF PartsOK, ThreadsOK
  <2>5. pc'["handler"] = pc["handler"]
    BY <2>3, <2>4
  <2>6. \A t \in Thread : pc'[t] \in {"idle", "next"} <=> doing'[t] = NoFormula
    BY <2>1, <2>3, <2>4 DEF PartsOK, ThreadsOK
  <2>7. \A t \in Thread : IF pc'[t] \in {"write", "tell"}
                          THEN held'[t] \in Attribute(doing'[t]) ELSE held'[t] = Nothing
    BY <2>1, <2>3, <2>4 DEF PartsOK, ThreadsOK
  <2> QED BY <2>1, <2>4, <2>5, <2>6, <2>7 DEF PartsOK, ThreadsOK
<1> QED BY <1>2, <1>3, Untouched DEF MonitorProxy, PartsOK

LEMMA SetSafeType ==
  ASSUME PartsOK, NEW f \in Formula, SetSafe(f)
  PROVE  PartsOK'
<1>1. /\ pc["poll"] = "next" /\ "poll" \in Thread /\ "handler" \in Thread
      /\ left' = [left EXCEPT !["poll"] = @ \ {f}]
      /\ Moves("poll", "read", f, Nothing)
  BY DEF SetSafe, At, Thread
<1>2. AttributesOK'
  <2>1. attr[f] \in Attribute(f)
    BY DEF PartsOK, AttributesOK
  <2>2. [value |-> Safe, quality |-> IF runStatus = "HARD_OFFLINE" THEN "VALID"
                                     ELSE attr[f].quality] \in Attribute(f)
    BY <2>1 DEF Attribute, Quality
  <2> QED BY <2>2 DEF SetSafe, PartsOK, AttributesOK
<1>3. /\ left' \in [Thread -> SUBSET Formula] /\ left'["handler"] = left["handler"]
      /\ "read" \in PC /\ f # NoFormula
  BY <1>1, ConstantAssumption DEF PartsOK, ThreadsOK, PC
<1>4. ThreadsOK'
  BY <1>1, <1>3, MovesLemma DEF PartsOK
<1> QED BY <1>2, <1>4, Untouched DEF SetSafe, PartsOK

LEMMA PollStepType ==
  ASSUME PartsOK, PollStep
  PROVE  PartsOK'
<1>1. "poll" \in Thread
  BY DEF Thread
<1> QED BY <1>1, SubscribeType, UpdateFormulaType, MonitorProxyType, SetSafeType, WriteType,
           ReadBackType, TellType DEF PollStep

LEMMA NextType == PartsOK /\ [Next]_vars => PartsOK'
<1> SUFFICES ASSUME PartsOK, [Next]_vars PROVE PartsOK'
  OBVIOUS
<1>1. CASE UNCHANGED vars
  BY <1>1, Untouched DEF PartsOK, vars, remoteVars, helperVars, varVars, threadVars
<1> QED BY <1>1, EnvironmentType, HandlerStepType, PollStepType DEF Next

\* Every variable keeps its type, whatever proxies do and however the two threads
\* interleave: the queue stays within its high water mark, a thread that is at a
\* formula holds what the formula may yield, and the handler has an event exactly
\* while it works (process_event, handle_event_i, UpdateFormulaAttrs).
THEOREM EventsTypeCorrect == Spec => []TypeOK
<1>1. Spec => []PartsOK
  BY InitType, NextType, PTL DEF Spec
<1> QED BY <1>1, PartsAreTypes, PTL

-----------------------------------------------------------------------------
(* The order of events *)

\* EventsInOrder by its four parts.
QueueSorted ==
    \A i, j \in 1..Len(queue) :
        i <= j /\ queue[i].proxy = queue[j].proxy => queue[i].reading <= queue[j].reading

QueueLater ==
    \A i \in 1..Len(queue) :
        /\ queue[i].reading <= remote[queue[i].proxy]
        /\ event # NoEvent /\ event.proxy = queue[i].proxy
              => event.reading <= queue[i].reading
        /\ \A f \in Linked(queue[i].proxy) : value[f][queue[i].proxy] <= queue[i].reading

EventLater ==
    event # NoEvent => /\ event.reading <= remote[event.proxy]
                       /\ \A f \in Linked(event.proxy) : value[f][event.proxy] <= event.reading

ValuesPast == \A f \in Formula : \A p \in Vars[f] : value[f][p] <= remote[p]

LEMMA OrderParts == EventsInOrder <=> QueueSorted /\ QueueLater /\ EventLater /\ ValuesPast
BY DEF EventsInOrder, QueueSorted, QueueLater, EventLater, ValuesPast

OrderInv == PartsOK /\ QueueSorted /\ QueueLater /\ EventLater /\ ValuesPast

LEMMA InitOrder == Init => OrderInv
<1> SUFFICES ASSUME Init PROVE OrderInv
  OBVIOUS
<1>1. queue = <<>> /\ event = NoEvent /\ Len(queue) = 0
  BY DEF Init
<1>2. ValuesPast
  <2> SUFFICES ASSUME NEW f \in Formula, NEW p \in Vars[f]
               PROVE  value[f][p] <= remote[p]
    BY DEF ValuesPast
  <2>1. p \in Proxy
    BY ConstantAssumption
  <2>2. value[f] = Initial(f) /\ remote[p] = 1
    BY <2>1 DEF Init
  <2> QED BY <2>2 DEF Initial
<1> QED BY <1>1, <1>2, InitType DEF OrderInv, QueueSorted, QueueLater, EventLater

LEMMA Numbers ==
  ASSUME PartsOK
  PROVE  /\ \A p \in Proxy : remote[p] \in Nat
         /\ Len(queue) \in Nat
         /\ \A i \in 1..Len(queue) : queue[i].proxy \in Proxy /\ queue[i].reading \in Nat
         /\ event # NoEvent => event.proxy \in Proxy /\ event.reading \in Nat
         /\ \A f \in Formula : \A p \in Vars[f] : p \in Proxy /\ value[f][p] \in Nat
<1>1. \A p \in Proxy : remote[p] \in Nat
  BY DEF PartsOK, RemotesOK
<1>2. /\ Len(queue) \in Nat
      /\ \A i \in 1..Len(queue) : queue[i].proxy \in Proxy /\ queue[i].reading \in Nat
  <2>1. queue \in Seq(Event)
    BY DEF PartsOK, QueueOK
  <2>2. Len(queue) \in Nat /\ \A i \in 1..Len(queue) : queue[i] \in Event
    BY <2>1
  <2> QED BY <2>2 DEF Event
<1>3. event # NoEvent => event.proxy \in Proxy /\ event.reading \in Nat
  BY DEF PartsOK, ThreadsOK, Event
<1>4. \A f \in Formula : \A p \in Vars[f] : p \in Proxy /\ value[f][p] \in Nat
  <2> SUFFICES ASSUME NEW f \in Formula, NEW p \in Vars[f]
               PROVE  p \in Proxy /\ value[f][p] \in Nat
    OBVIOUS
  <2>1. value[f] \in [Vars[f] -> 0..MaxReading]
    BY DEF PartsOK, VariablesOK, Reading
  <2> QED BY <2>1, ConstantAssumption
<1> QED BY <1>1, <1>2, <1>3, <1>4

\* A step that neither posts nor takes an event, nor sets a variable.
LEMMA OrderUntouched ==
  ASSUME OrderInv, PartsOK', UNCHANGED <<queue, value>>, event' = event \/ event' = NoEvent,
         \A p \in Proxy : remote'[p] >= remote[p]
  PROVE  OrderInv'
<1> USE DEF OrderInv
<1>1. QueueSorted'
  BY DEF QueueSorted
<1>2. \A p \in Proxy : remote[p] \in Nat /\ remote'[p] \in Nat
  BY DEF PartsOK, RemotesOK
<1>3. QueueLater'
  BY <1>2, Numbers DEF QueueLater, Linked
<1>4. EventLater'
  BY <1>2, Numbers DEF EventLater, Linked
<1>5. ValuesPast'
  BY <1>2, Numbers DEF ValuesPast
<1> QED BY <1>1, <1>3, <1>4, <1>5

\* Posting the reading of p that is the latest.
LEMMA OrderPosted ==
  ASSUME OrderInv, PartsOK', NEW p \in Proxy, queue' = Posted(p),
         UNCHANGED <<value, event, remote>>
  PROVE  OrderInv'
<1> USE DEF OrderInv
<1>1. /\ Len(queue) \in Nat /\ Len(queue') = Len(queue) + 1
      /\ \A i \in 1..Len(queue) : queue'[i] = queue[i]
      /\ queue'[Len(queue) + 1] = [proxy |-> p, reading |-> remote[p]]
  BY PostedType
<1>2. remote[p] \in Nat
  BY Numbers
<1>3. QueueSorted'
  <2> SUFFICES ASSUME NEW i \in 1..Len(queue'), NEW j \in 1..Len(queue'),
                      i <= j, queue'[i].proxy = queue'[j].proxy
               PROVE  queue'[i].reading <= queue'[j].reading
    BY DEF QueueSorted
  <2>1. CASE j <= Len(queue)
    BY <1>1, <2>1 DEF QueueSorted
  <2>2. CASE j = Len(queue) + 1 /\ i = j
    BY <1>1, <1>2, <2>2
  <2>3. CASE j = Len(queue) + 1 /\ i < j
    <3>1. i \in 1..Len(queue) /\ queue'[i] = queue[i] /\ queue'[j].reading = remote[p]
          /\ queue'[j].proxy = p
      BY <1>1, <2>3
    <3> QED BY <3>1 DEF QueueLater
  <2> QED BY <1>1, <2>1, <2>2, <2>3
<1>4. QueueLater'
  <2> SUFFICES ASSUME NEW i \in 1..Len(queue')
               PROVE  /\ queue'[i].reading <= remote[queue'[i].proxy]
                      /\ event # NoEvent /\ event.proxy = queue'[i].proxy
                            => event.reading <= queue'[i].reading
                      /\ \A f \in Linked(queue'[i].proxy) :
                            value[f][queue'[i].proxy] <= queue'[i].reading
    BY DEF QueueLater, Linked
  <2>1. CASE i <= Len(queue)
    <3>1. i \in 1..Len(queue) /\ queue'[i] = queue[i]
      BY <1>1, <2>1
    <3> QED BY <3>1 DEF QueueLater
  <2>2. CASE i = Len(queue) + 1
    <3>1. queue'[i].proxy = p /\ queue'[i].reading = remote[p]
      BY <1>1, <2>2
    <3>2. event # NoEvent /\ event.proxy = p => event.reading <= remote[p]
      BY DEF EventLater
    <3>3. \A f \in Linked(p) : value[f][p] <= remote[p]
      BY DEF ValuesPast, Linked
    <3> QED BY <3>1, <3>2, <3>3, <1>2
  <2> QED BY <1>1, <2>1, <2>2
<1>5. EventLater' /\ ValuesPast'
  BY DEF EventLater, ValuesPast, Linked
<1> QED BY <1>3, <1>4, <1>5

LEMMA OrderTaken ==
  ASSUME OrderInv, PartsOK', TakeEvent
  PROVE  OrderInv'
<1> USE DEF OrderInv
<1>1. /\ queue \in Seq(Event) /\ queue # <<>> /\ queue' = Tail(queue)
      /\ UNCHANGED <<value, remote>>
  BY DEF TakeEvent, PartsOK, QueueOK, varVars, remoteVars
<1>2. /\ Len(queue) \in Nat /\ Len(queue) >= 1 /\ Len(queue') = Len(queue) - 1
      /\ \A i \in 1..Len(queue') : queue'[i] = queue[i + 1]
      /\ Head(queue) = queue[1]
  BY <1>1, HeadTailProperties, EmptySeq
<1>3. \A i \in 1..Len(queue') : i + 1 \in 1..Len(queue)
  BY <1>2
<1>4. event' = event \/ event' = queue[1]
  BY <1>2 DEF TakeEvent
<1>5. QueueSorted'
  BY <1>2, <1>3 DEF QueueSorted
<1>6. QueueLater'
  <2> SUFFICES ASSUME NEW i \in 1..Len(queue')
               PROVE  /\ queue'[i].reading <= remote[queue'[i].proxy]
                      /\ event' # NoEvent /\ event'.proxy = queue'[i].proxy
                            => event'.reading <= queue'[i].reading
                      /\ \A f \in Linked(queue'[i].proxy) :
                            value[f][queue'[i].proxy] <= queue'[i].reading
    BY <1>1 DEF QueueLater, Linked
  <2>1. queue'[i] = queue[i + 1] /\ i + 1 \in 1..Len(queue) /\ 1 \in 1..Len(queue)
        /\ 1 <= i + 1
    BY <1>2, <1>3
  <2>2. queue[1].proxy = queue[i + 1].proxy => queue[1].reading <= queue[i + 1].reading
    BY <2>1 DEF QueueSorted
  <2> QED BY <1>4, <2>1, <2>2 DEF QueueLater
<1>7. EventLater'
  <2>1. 1 \in 1..Len(queue)
    BY <1>2
  <2> QED BY <1>1, <1>4, <2>1 DEF EventLater, QueueLater, Linked
<1>8. ValuesPast'
  BY <1>1 DEF ValuesPast
<1> QED BY <1>5, <1>6, <1>7, <1>8

LEMMA OrderSet ==
  ASSUME OrderInv, PartsOK', NEW f \in Formula, SetEventValue(f)
  PROVE  /\ OrderInv'
         /\ \A g \in Formula : \A p \in Vars[g] : value'[g][p] >= value[g][p]
<1> USE DEF OrderInv
<1>1. /\ queue' = queue /\ remote' = remote /\ event \in Event /\ event # NoEvent
      /\ event.proxy \in Vars[f] /\ f \in Linked(event.proxy)
  BY ConstantAssumption
     DEF SetEventValue, At, PartsOK, ThreadsOK, remoteVars, Event, Linked
<1>2. event' = event \/ event' = NoEvent
  BY DEF SetEventValue, Moves
<1>3. /\ value[f][event.proxy] <= event.reading /\ event.reading <= remote[event.proxy]
  BY <1>1 DEF EventLater
<1>4. /\ \A g \in Formula : \A p \in Vars[g] :
            value'[g][p] = value[g][p] \/ (g = f /\ p = event.proxy /\ value'[g][p] = event.reading)
  <2>1. CASE event.proxy \in created[f]
    <3>1. value' = [value EXCEPT ![f][event.proxy] = event.reading]
      BY <2>1 DEF SetEventValue
    <3>2. DOMAIN value = Formula /\ \A g \in Formula : DOMAIN value[g] = Vars[g]
      BY DEF PartsOK, VariablesOK, Reading
    <3> QED BY <3>1, <3>2
  <2>2. CASE event.proxy \notin created[f]
    BY <2>2 DEF SetEventValue
  <2> QED BY <2>1, <2>2
<1>5. \A g \in Formula : \A p \in Vars[g] : value'[g][p] >= value[g][p]
  BY <1>3, <1>4, Numbers
<1>6. QueueSorted'
  BY <1>1 DEF QueueSorted
<1>7. QueueLater'
  <2> SUFFICES ASSUME NEW i \in 1..Len(queue)
               PROVE  /\ queue[i].reading <= remote[queue[i].proxy]
                      /\ event' # NoEvent /\ event'.proxy = queue[i].proxy
                            => event'.reading <= queue[i].reading
                      /\ \A g \in Linked(queue[i].proxy) :
                            value'[g][queue[i].proxy] <= queue[i].reading
    BY <1>1 DEF QueueLater, Linked
  <2>1. /\ queue[i].reading <= remote[queue[i].proxy]
        /\ event' # NoEvent /\ event'.proxy = queue[i].proxy
              => event'.reading <= queue[i].reading
    BY <1>2 DEF QueueLater
  <2>2. ASSUME NEW g \in Linked(queue[i].proxy)
        PROVE  value'[g][queue[i].proxy] <= queue[i].reading
    <3>1. g \in Formula /\ queue[i].proxy \in Vars[g]
      BY DEF Linked
    <3>2. value[g][queue[i].proxy] <= queue[i].reading
      BY DEF QueueLater
    <3>3. event.proxy = queue[i].proxy => event.reading <= queue[i].reading
      BY <1>1 DEF QueueLater
    <3> QED BY <1>4, <3>1, <3>2, <3>3
  <2> QED BY <2>1, <2>2
<1>8. EventLater'
  <2> SUFFICES ASSUME event' # NoEvent
               PROVE  /\ event.reading <= remote[event.proxy]
                      /\ \A g \in Linked(event.proxy) : value'[g][event.proxy] <= event.reading
    BY <1>1, <1>2 DEF EventLater, Linked
  <2>1. ASSUME NEW g \in Linked(event.proxy)
        PROVE  value'[g][event.proxy] <= event.reading
    <3>1. g \in Formula /\ event.proxy \in Vars[g] /\ value[g][event.proxy] <= event.reading
      BY <1>1 DEF Linked, EventLater
    <3> QED BY <1>1, <1>4, <3>1, Numbers
  <2> QED BY <1>3, <2>1
<1>9. ValuesPast'
  <2> SUFFICES ASSUME NEW g \in Formula, NEW p \in Vars[g]
               PROVE  value'[g][p] <= remote[p]
    BY <1>1 DEF ValuesPast
  <2>1. value[g][p] <= remote[p]
    BY DEF ValuesPast
  <2> QED BY <1>3, <1>4, <2>1
<1> QED BY <1>5, <1>6, <1>7, <1>8, <1>9

LEMMA OrderNext ==
  ASSUME OrderInv, [Next]_vars
  PROVE  /\ OrderInv'
         /\ \A f \in Formula : \A p \in Vars[f] : value'[f][p] >= value[f][p]
<1>1. PartsOK'
  BY NextType DEF OrderInv
<1>2. \A p \in Proxy : remote[p] \in Nat
  BY Numbers DEF OrderInv
<1>3. ASSUME UNCHANGED value
      PROVE  \A f \in Formula : \A p \in Vars[f] : value'[f][p] >= value[f][p]
  BY <1>3, Numbers DEF OrderInv
<1>4. ASSUME UNCHANGED <<queue, value, remote>>, event' = event \/ event' = NoEvent
      PROVE  OrderInv'
  BY <1>1, <1>2, <1>4, OrderUntouched
<1>5. CASE UNCHANGED vars
  BY <1>3, <1>4, <1>5 DEF vars, remoteVars, varVars, threadVars
<1>6. CASE Environment
  <2>1. CASE \E p \in Proxy : NewReading(p)
    <3> PICK p \in Proxy : NewReading(p)
      BY <2>1
    <3>1. /\ UNCHANGED <<queue, value, event>>
          /\ \A q \in Proxy : remote'[q] >= remote[q]
      BY <1>2 DEF NewReading, varVars, threadVars, OrderInv, PartsOK, RemotesOK
    <3> QED BY <1>1, <1>3, <3>1, OrderUntouched
  <2>2. CASE \E p \in Proxy : PushEvent(p)
    <3> PICK p \in Proxy : PushEvent(p)
      BY <2>2
    <3>1. queue' = Posted(p) /\ UNCHANGED <<value, event, remote>>
      BY DEF PushEvent, varVars, threadVars, remoteVars
    <3> QED BY <1>1, <1>3, <3>1, OrderPosted
  <2>3. CASE \E p \in Proxy, answer \in Link : LinkChanges(p, answer)
    BY <1>3, <1>4, <2>3 DEF LinkChanges, varVars, threadVars
  <2>4. CASE \E p \in Proxy : DowntimeOver(p)
    BY <1>3, <1>4, <2>4 DEF DowntimeOver, remoteVars, varVars, threadVars
  <2>5. CASE \E f \in Formula, p \in Proxy : GetsOld(f, p)
    BY <1>3, <1>4, <2>5 DEF GetsOld, remoteVars, threadVars
  <2> QED BY <1>6, <2>1, <2>2, <2>3, <2>4, <2>5 DEF Environment
<1>7. ASSUME NEW t \in Thread, Write(t) \/ ReadBack(t) \/ Tell(t)
      PROVE  UNCHANGED <<queue, value, remote>> /\ (event' = event \/ event' = NoEvent)
  BY <1>7 DEF Write, ReadBack, Tell, Moves, remoteVars, varVars
<1>8. "handler" \in Thread /\ "poll" \in Thread
  BY DEF Thread
<1>9. CASE HandlerStep
  <2>1. CASE TakeEvent
    <3>1. UNCHANGED value
      BY <2>1 DEF TakeEvent, varVars
    <3> QED BY <1>1, <1>3, <2>1, <3>1, OrderTaken
  <2>2. CASE \E f \in Formula : SetEventValue(f)
    BY <1>1, <2>2, OrderSet
  <2>3. CASE Write("handler") \/ ReadBack("handler") \/ Tell("handler")
    BY <1>3, <1>4, <1>7, <1>8, <2>3
  <2> QED BY <1>9, <2>1, <2>2, <2>3 DEF HandlerStep
<1>10. CASE PollStep
  <2>1. CASE \E p \in Proxy : SubscribeToEvent(p)
    <3> PICK p \in Proxy : SubscribeToEvent(p)
      BY <2>1
    <3>1. UNCHANGED <<value, event, remote>> /\ (queue' = Posted(p) \/ queue' = queue)
      BY DEF SubscribeToEvent, varVars, threadVars, remoteVars
    <3> QED BY <1>1, <1>3, <1>4, <3>1, OrderPosted
  <2>2. CASE \E p \in Proxy : MonitorProxy(p)
    BY <1>3, <1>4, <2>2 DEF MonitorProxy, remoteVars, varVars, threadVars
  <2>3. CASE \E f \in Formula, unclear \in SUBSET Proxy : UpdateFormula(f, unclear)
    BY <1>3, <1>4, <2>3 DEF UpdateFormula, Moves, remoteVars
  <2>4. CASE \E f \in Formula : SetSafe(f)
    BY <1>3, <1>4, <2>4 DEF SetSafe, Moves, remoteVars, varVars
  <2>5. CASE Write("poll") \/ ReadBack("poll") \/ Tell("poll")
    BY <1>3, <1>4, <1>7, <1>8, <2>5
  <2> QED BY <1>10, <2>1, <2>2, <2>3, <2>4, <2>5 DEF PollStep
<1> QED BY <1>5, <1>6, <1>9, <1>10 DEF Next

\* Events are queued in the order of the readings of each attribute, later than
\* the one the handler works on, and that one later than what the variables of
\* formulas have (process_event, handle_event_i).
THEOREM EventsOrdered == Spec => []EventsInOrder
<1>1. OrderInv /\ [Next]_vars => OrderInv'
  BY OrderNext
<1>2. Spec => []OrderInv
  BY <1>1, InitOrder, PTL DEF Spec
<1>3. OrderInv => EventsInOrder
  BY OrderParts DEF OrderInv
<1> QED BY <1>2, <1>3, PTL

\* The variables of formulas never step back to an earlier reading, for any
\* number of proxies, formulas and readings and any size of the queue.
THEOREM NeverStepsBack == Spec => NoStepBack
<1>1. OrderInv /\ [Next]_vars => OrderInv'
  BY OrderNext
<1>2. Spec => []OrderInv
  BY <1>1, InitOrder, PTL DEF Spec
<1>3. OrderInv /\ [Next]_vars
        => [\A f \in Formula : \A p \in Vars[f] : value'[f][p] >= value[f][p]]_vars
  BY OrderNext
<1> QED BY <1>2, <1>3, PTL DEF Spec, NoStepBack
=============================================================================
