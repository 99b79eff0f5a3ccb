--------------------------- MODULE FormulaEvents ---------------------------
(***************************************************************************)
(* From the attributes of sub-elements to those of the device: the proxies *)
(* of an LMCDevice, their subscriptions to events, the queue of events,    *)
(* the formulas that compute attributes of the device from what the events *)
(* carry, and the status this gives to the asynchronous tasks that watch   *)
(* these attributes.                                                       *)
(*                                                                         *)
(* Two threads of the device meet at the formulas.  The thread of          *)
(* EventHandlerTask works off the queue.  The polled commands, which Tango *)
(* lets in one at a time, subscribe to events, initialise and refresh      *)
(* formulas, and watch the proxies.  A proxy has one attribute of interest *)
(* here; its readings are numbered, and 0 is the InitDataValue of the      *)
(* variables of formulas.  What a formula computes is left open: the       *)
(* attribute shows the values of the variables it was computed from.       *)
(***************************************************************************)
EXTENDS Naturals, Sequences

CONSTANTS
    Proxy,          \* the devices the formulas refer to
    Formula,        \* the attributes of the device that have a formula
    Vars,           \* Vars[f]: the proxies whose attribute formula f uses
    InvalidIfOld,   \* the formulas with m_setInvalidQualityIfOld
    MaxEvents,      \* high water mark of the message queue of EventHandlerTask
    MaxReading,     \* bound: the readings of an attribute
    MaxTrouble,     \* bound: how often proxies go down, come up or get unclear
    Safe,           \* the SafeValue of an attribute
    NoFormula, NoEvent   \* model values

ASSUME ConstantAssumption ==
    /\ Vars \in [Formula -> SUBSET Proxy]
    /\ InvalidIfOld \subseteq Formula
    /\ MaxEvents \in Nat /\ MaxReading \in Nat \ {0} /\ MaxTrouble \in Nat
    /\ \A f \in Formula : Safe \notin [Vars[f] -> Nat]
    /\ NoFormula \notin Formula
    /\ NoEvent \notin [proxy : Proxy, reading : Nat]

VARIABLES
    link,        \* how a proxy answers to pings
    trouble,     \* how often that changed
    remote,      \* the reading of the attribute of a proxy
    online,      \* m_is_online of its helper
    timeout,     \* m_downtimeActionTimeout of its helper
    subscribed,  \* the proxies with IsSubscribed
    queue,       \* the events posted to EventHandlerTask
    created,     \* created[f]: the variables of f that have their attr_data
    value,       \* value[f][p]: the value of variable p of formula f
    old,         \* the variables <<f, p>> not set for formulaVarMaxTimeInterval
    attr,        \* attr[f]: value and quality of the attribute
    told,        \* told[f]: the status its asynchronous tasks got last
    pc,          \* where each of the two threads is
    event,       \* the event the handler works on
    runStatus,   \* the run status MonitorProxies works on
    left,        \* left[t]: the formulas thread t has not come to yet
    doing,       \* doing[t]: the one it is at
    held         \* held[t]: the value it has computed or read

remoteVars == <<link, trouble, remote>>
helperVars == <<online, timeout, subscribed>>
varVars    == <<created, value, old>>
threadVars == <<pc, event, runStatus, left, doing, held>>
vars == <<remoteVars, helperVars, queue, varVars, attr, told, threadVars>>

Thread == {"handler", "poll"}

\* The thread waits, comes to the next formula and has evaluated it, writes the
\* attribute, reads it back and gives it to the tasks that watch it.
PC == {"idle", "next", "write", "read", "tell"}

\* "up" answers, "down" gives one of the errors that count as down, "unclear"
\* any other error.
Link == {"up", "down", "unclear"}

\* SetTimeout makes the timeout, disabled, before the proxy is pinged first.
Timeout   == {"disabled", "running", "expired"}
RunStatus == {"ONLINE", "SOFT_OFFLINE", "HARD_OFFLINE"}
Quality   == {"VALID", "INVALID"}

Linked(p) == {f \in Formula : p \in Vars[f]}
Initial(f) == [p \in Vars[f] |-> 0]
Nothing   == [value |-> Safe, quality |-> "VALID"]

\* Monitor finds the proxy online or offline, or does not know.
Monitored(p, answer) ==
    CASE answer = "up"   -> /\ online' = [online EXCEPT ![p] = TRUE]
                            /\ timeout' = [timeout EXCEPT ![p] = "disabled"]
      [] answer = "down" -> /\ online' = [online EXCEPT ![p] = FALSE]
                            /\ timeout' = [timeout EXCEPT ![p] =
                                   IF @ = "disabled" \/ online[p]
                                   THEN "running" ELSE @]
      [] OTHER           -> UNCHANGED <<online, timeout>>

\* GetProxyRunStatus.
RunStatusOf(isOnline, tmo) ==
    IF isOnline THEN "ONLINE"
    ELSE IF tmo = "expired" THEN "HARD_OFFLINE" ELSE "SOFT_OFFLINE"

\* The device has registered its proxies, each pinged once, and its formulas,
\* each initialised as far as the proxies answered.
Init ==
    /\ link \in [Proxy -> Link] /\ trouble = 0
    /\ remote = [p \in Proxy |-> 1]
    /\ online = [p \in Proxy |-> link[p] = "up"]
    /\ timeout = [p \in Proxy |-> IF link[p] = "down" THEN "running" ELSE "disabled"]
    /\ subscribed = {} /\ queue = <<>>
    /\ created = [f \in Formula |-> {p \in Vars[f] : link[p] = "up"}]
    /\ value = [f \in Formula |-> Initial(f)] /\ old = {}
    /\ attr = [f \in Formula |-> [value |-> Initial(f), quality |-> "VALID"]]
    /\ told = [f \in Formula |-> Initial(f)]
    /\ pc = [t \in Thread |-> "idle"] /\ event = NoEvent /\ runStatus = "ONLINE"
    /\ left = [t \in Thread |-> {}] /\ doing = [t \in Thread |-> NoFormula]
    /\ held = [t \in Thread |-> Nothing]

-----------------------------------------------------------------------------
(* The sub-elements and the Tango event system *)

\* A proxy goes down, comes up or cannot be told from either.
LinkChanges(p, answer) ==
    /\ trouble < MaxTrouble /\ answer # link[p]
    /\ link' = [link EXCEPT ![p] = answer]
    /\ trouble' = trouble + 1
    /\ UNCHANGED <<remote, helperVars, queue, varVars, attr, told, threadVars>>

NewReading(p) ==
    /\ remote[p] < MaxReading
    /\ remote' = [remote EXCEPT ![p] = @ + 1]
    /\ UNCHANGED <<link, trouble, helperVars, queue, varVars, attr, told, threadVars>>

Posted(p) == Append(queue, [proxy |-> p, reading |-> remote[p]])

\* Faulty: the queue has no high water mark.
PushEventUnbounded(p) ==
    /\ p \in subscribed /\ link[p] # "down"
    /\ queue' = Posted(p)
    /\ UNCHANGED <<remoteVars, helperVars, varVars, attr, told, threadVars>>

\* A subscribed event is pushed: the attribute has changed, its period is over,
\* or Tango has connected to the proxy again.  process_event posts a copy for
\* EventHandlerTask; posting fails, and the event is lost, when the queue stays
\* full.
PushEvent(p) ==
    /\ p \in subscribed /\ link[p] # "down"
    /\ Len(queue) < MaxEvents
    /\ queue' = Posted(p)
    /\ UNCHANGED <<remoteVars, helperVars, varVars, attr, told, threadVars>>

\* formulaVarMaxTimeInterval has passed since the variable was set.
GetsOld(f, p) ==
    /\ p \in Vars[f] /\ value[f][p] # 0
    /\ f \in InvalidIfOld
    /\ old' = old \cup {<<f, p>>}
    /\ UNCHANGED <<remoteVars, helperVars, queue, created, value, attr, told, threadVars>>

\* The downtime that makes a proxy HARD_OFFLINE is over.
DowntimeOver(p) ==
    /\ timeout[p] = "running"
    /\ timeout' = [timeout EXCEPT ![p] = "expired"]
    /\ UNCHANGED <<remoteVars, online, subscribed, queue, varVars, attr, told, threadVars>>

Environment ==
    \/ \E p \in Proxy : \/ \E answer \in Link : LinkChanges(p, answer)
                        \/ NewReading(p) \/ PushEvent(p) \/ DowntimeOver(p)
    \/ \E f \in Formula, p \in Proxy : GetsOld(f, p)

-----------------------------------------------------------------------------
(* What both threads do with a formula *)

At(t, place) == pc[t] = place

\* What evaluating formula f yields, its variables having the values v and those
\* in O being old: one that was never set counts with its InitDataValue.
Evaluated(f, v, O) ==
    [value   |-> v,
     quality |-> IF \E p \in Vars[f] : <<f, p>> \in O THEN "INVALID" ELSE "VALID"]

\* Where thread t goes when it is done with a formula and R are left.
Following(R) == IF R = {} THEN "idle" ELSE "next"

\* Thread t goes to place, with formula f and the value h; when it is done, what
\* it worked on is forgotten.
Moves(t, place, f, h) ==
    /\ pc' = [pc EXCEPT ![t] = place]
    /\ doing' = [doing EXCEPT ![t] = f]
    /\ held' = [held EXCEPT ![t] = h]
    /\ event' = IF t = "handler" /\ place = "idle" THEN NoEvent ELSE event
    /\ runStatus' = IF t = "poll" /\ place = "idle" THEN "ONLINE" ELSE runStatus

\* Faulty: no news for the tasks when the attribute has this value already.
WriteNews(t) ==
    /\ At(t, "write")
    /\ attr' = [attr EXCEPT ![doing[t]] = held[t]]
    /\ IF t = "handler" /\ attr[doing[t]] # held[t]
       THEN Moves(t, "read", doing[t], Nothing)
       ELSE Moves(t, Following(left[t]), NoFormula, Nothing)
    /\ UNCHANGED <<remoteVars, helperVars, queue, varVars, told, left>>

\* SetDynAttrValueFromFormula writes the attribute when it has evaluated the
\* formula.  UpdateFormulaAttrs leaves it at that.
Write(t) ==
    /\ At(t, "write")
    /\ attr' = [attr EXCEPT ![doing[t]] = held[t]]
    /\ IF t = "handler" THEN Moves(t, "read", doing[t], Nothing)
                        ELSE Moves(t, Following(left[t]), NoFormula, Nothing)
    /\ UNCHANGED <<remoteVars, helperVars, queue, varVars, told, left>>

\* UpdateAsynchTaskStatus reads the attribute, whoever has written it last ...
ReadBack(t) ==
    /\ At(t, "read")
    /\ Moves(t, "tell", doing[t], attr[doing[t]])
    /\ UNCHANGED <<remoteVars, helperVars, queue, varVars, attr, told, left>>

\* ... and gives its value to the scheduler.
Tell(t) ==
    /\ At(t, "tell")
    /\ told' = [told EXCEPT ![doing[t]] = held[t].value]
    /\ Moves(t, Following(left[t]), NoFormula, Nothing)
    /\ UNCHANGED <<remoteVars, helperVars, queue, varVars, attr, left>>

-----------------------------------------------------------------------------
(* EventHandlerTask *)

\* Faulty: work off the last event first.
TakeLastEvent ==
    /\ At("handler", "idle") /\ queue # <<>>
    /\ queue' = SubSeq(queue, 1, Len(queue) - 1)
    /\ LET R == Linked(queue[Len(queue)].proxy)
       IN  IF R = {} THEN UNCHANGED <<pc, event, left>>
           ELSE /\ pc' = [pc EXCEPT !["handler"] = "next"]
                /\ event' = queue[Len(queue)]
                /\ left' = [left EXCEPT !["handler"] = R]
    /\ UNCHANGED <<remoteVars, helperVars, varVars, attr, told, runStatus, doing, held>>

\* handle_event_i finds the formulas linked to the event.
TakeEvent ==
    /\ At("handler", "idle") /\ queue # <<>>
    /\ queue' = Tail(queue)
    /\ LET R == Linked(Head(queue).proxy)
       IN  IF R = {} THEN UNCHANGED <<pc, event, left>>
           ELSE /\ pc' = [pc EXCEPT !["handler"] = "next"]
                /\ event' = Head(queue)
                /\ left' = [left EXCEPT !["handler"] = R]
    /\ UNCHANGED <<remoteVars, helperVars, varVars, attr, told, runStatus, doing, held>>

\* EvaluateFormulasOnEvent: a variable that has no attr_data yet cannot take the
\* reading, and the formula is passed over.  Nobody else sets variables, so that
\* setting and evaluating are one step.
SetEventValue(f) ==
    /\ At("handler", "next") /\ f \in left["handler"]
    /\ left' = [left EXCEPT !["handler"] = @ \ {f}]
    /\ IF event.proxy \in created[f]
       THEN /\ value' = [value EXCEPT ![f][event.proxy] = event.reading]
            /\ old' = old \ {<<f, event.proxy>>}
            /\ Moves("handler", "write", f, Evaluated(f, value'[f], old'))
       ELSE /\ Moves("handler", Following(left'["handler"]), NoFormula, Nothing)
            /\ UNCHANGED <<value, old>>
    /\ UNCHANGED <<remoteVars, helperVars, queue, created, attr, told>>

HandlerStep ==
    \/ TakeEvent
    \/ \E f \in Formula : SetEventValue(f)
    \/ Write("handler") \/ ReadBack("handler") \/ Tell("handler")

-----------------------------------------------------------------------------
(* Polled commands.  Their loops over proxies and formulas are cut into      *)
(* rounds, so that another command may come in between two rounds.           *)

\* InitializeDevProxies: SubscribeToEvent fails while the proxy is down and is
\* tried again at the next poll.  subscribe_event pushes a first event.
SubscribeToEvent(p) ==
    /\ At("poll", "idle")
    /\ p \notin subscribed /\ link[p] # "down"
    /\ subscribed' = subscribed \cup {p}
    /\ queue' = IF Len(queue) < MaxEvents THEN Posted(p) ELSE queue
    /\ UNCHANGED <<remoteVars, online, timeout, varVars, attr, told, threadVars>>

\* Faulty: formulas are initialised at their registration only.
UpdateFormulaNoRetry(f, unclear) ==
    /\ At("poll", "idle") /\ unclear = {}
    /\ Vars[f] \subseteq created[f]
    /\ Moves("poll", "write", f, Evaluated(f, value[f], old))
    /\ UNCHANGED <<remoteVars, helperVars, queue, varVars, attr, told, left>>

\* UpdateFormulaAttrs, for formula f: InitializeFormula retries the variables
\* whose proxy has not answered so far, and a formula with all of its variables
\* is evaluated anew.
UpdateFormula(f, unclear) ==
    /\ At("poll", "idle")
    /\ unclear \subseteq {p \in Proxy : link[p] = "unclear"}
    /\ created' = [created EXCEPT ![f] =
                      @ \cup {p \in Vars[f] : link[p] = "up" \/ p \in unclear}]
    /\ IF created'[f] = Vars[f] THEN Moves("poll", "write", f, Evaluated(f, value[f], old))
                                ELSE UNCHANGED <<pc, doing, held, event, runStatus>>
    /\ UNCHANGED <<remoteVars, helperVars, queue, value, old, attr, told, left>>

\* MonitorProxies, for proxy p: the proxy is pinged, and when its run status is
\* not ONLINE the formulas that use it fall back.  A proxy that has given unclear
\* answers only is SOFT_OFFLINE.
MonitorProxy(p) ==
    /\ At("poll", "idle")
    /\ Monitored(p, link[p])
    /\ LET status == RunStatusOf(online'[p], timeout'[p])
           R == IF status = "ONLINE" THEN {} ELSE Linked(p)
       IN  /\ left' = [left EXCEPT !["poll"] = R]
           /\ IF R = {} THEN UNCHANGED <<pc, runStatus>>
              ELSE /\ pc' = [pc EXCEPT !["poll"] = "next"]
                   /\ runStatus' = status
    /\ UNCHANGED <<event, doing, held>>
    /\ UNCHANGED <<remoteVars, subscribed, queue, varVars, attr, told>>

\* Faulty: the tasks are left out.
SetSafeUntold(f) ==
    /\ At("poll", "next") /\ f \in left["poll"]
    /\ attr' = [attr EXCEPT ![f] = [value |-> Safe, quality |-> @.quality]]
    /\ left' = [left EXCEPT !["poll"] = @ \ {f}]
    /\ Moves("poll", Following(left'["poll"]), NoFormula, Nothing)
    /\ UNCHANGED <<remoteVars, helperVars, queue, varVars, told>>

\* EvaluateFormulasOnProxyDown.  ProcessProxyRunStatusInfo passes the quality
\* meant for HARD_OFFLINE as changeQualityFactor, so that the attribute gets the
\* default of the parameter that follows.
SetSafe(f) ==
    /\ At("poll", "next") /\ f \in left["poll"]
    /\ attr' = [attr EXCEPT ![f] =
                   [value |-> Safe,
                    quality |-> IF runStatus = "HARD_OFFLINE" THEN "VALID" ELSE @.quality]]
    /\ left' = [left EXCEPT !["poll"] = @ \ {f}]
    /\ Moves("poll", "read", f, Nothing)
    /\ UNCHANGED <<remoteVars, helperVars, queue, varVars, told>>

PollStep ==
    \/ \E p \in Proxy : SubscribeToEvent(p) \/ MonitorProxy(p)
    \/ \E f \in Formula, unclear \in SUBSET Proxy : UpdateFormula(f, unclear)
    \/ \E f \in Formula : SetSafe(f)
    \/ Write("poll") \/ ReadBack("poll") \/ Tell("poll")

-----------------------------------------------------------------------------
Next == Environment \/ HandlerStep \/ PollStep

\* The handler works off its queue.  A polled command that has begun ends, and
\* every round of the polled commands comes to its turn again and again, although
\* the monitor is free only now and then.  The attributes have periodic events,
\* some of which find room in the queue.
Fairness ==
    /\ WF_vars(HandlerStep)
    /\ WF_vars(pc["poll"] # "idle" /\ PollStep)
    /\ \A p \in Proxy : /\ SF_vars(link[p] = "up" /\ SubscribeToEvent(p))
                        /\ SF_vars(MonitorProxy(p))
                        /\ SF_vars(PushEvent(p))
                        /\ WF_vars(DowntimeOver(p))
    /\ \A f \in Formula : SF_vars(\E unclear \in SUBSET Proxy : UpdateFormula(f, unclear))

Spec == Init /\ [][Next]_vars
FairSpec == Spec /\ Fairness

-----------------------------------------------------------------------------
(* Properties *)

\* What formula f may yield, and what the attribute may be.
Reading(f)   == [Vars[f] -> 0..MaxReading]
Attribute(f) == [value : Reading(f) \cup {Safe}, quality : Quality]

TypeOK ==
    /\ link \in [Proxy -> Link] /\ trouble \in 0..MaxTrouble
    /\ remote \in [Proxy -> 1..MaxReading]
    /\ online \in [Proxy -> BOOLEAN] /\ timeout \in [Proxy -> Timeout]
    /\ subscribed \subseteq Proxy
    /\ queue \in Seq([proxy : Proxy, reading : 1..MaxReading]) /\ Len(queue) <= MaxEvents
    /\ created \in [Formula -> SUBSET Proxy]
    /\ \A f \in Formula : created[f] \subseteq Vars[f]
    /\ DOMAIN value = Formula /\ DOMAIN attr = Formula /\ DOMAIN told = Formula
    /\ \A f \in Formula : /\ value[f] \in Reading(f)
                          /\ attr[f] \in Attribute(f)
                          /\ told[f] \in Reading(f) \cup {Safe}
    /\ old \subseteq Formula \X Proxy
    /\ pc \in [Thread -> PC]
    /\ event \in [proxy : Proxy, reading : 1..MaxReading] \cup {NoEvent}
    /\ event = NoEvent <=> pc["handler"] = "idle"
    /\ runStatus \in RunStatus
    /\ left \in [Thread -> SUBSET Formula]
    /\ pc["handler"] = "idle" => left["handler"] = {}
    /\ \A f \in left["handler"] : event.proxy \in Vars[f]
    /\ doing \in [Thread -> Formula \cup {NoFormula}]
    /\ \A t \in Thread : pc[t] \in {"idle", "next"} <=> doing[t] = NoFormula
    /\ DOMAIN held = Thread
    /\ \A t \in Thread : IF pc[t] \in {"write", "tell"}
                         THEN held[t] \in Attribute(doing[t]) ELSE held[t] = Nothing

\* The variables of a formula never step back to an earlier reading of their
\* attribute, however subscriptions, polls and faults of the proxies interleave:
\* one queue and one thread keep the order of the events (process_event,
\* handle_event_i).
NoStepBack ==
    [][\A f \in Formula : \A p \in Vars[f] : value'[f][p] >= value[f][p]]_vars

\* What NoStepBack rests on: events are queued in the order of the readings, and
\* later than what the handler and the variables have.
EventsInOrder ==
    /\ \A i, j \in 1..Len(queue) :
          i <= j /\ queue[i].proxy = queue[j].proxy => queue[i].reading <= queue[j].reading
    /\ \A i \in 1..Len(queue) :
          /\ queue[i].reading <= remote[queue[i].proxy]
          /\ event # NoEvent /\ event.proxy = queue[i].proxy
                => event.reading <= queue[i].reading
          /\ \A f \in Linked(queue[i].proxy) : value[f][queue[i].proxy] <= queue[i].reading
    /\ event # NoEvent =>
          /\ event.reading <= remote[event.proxy]
          /\ \A f \in Linked(event.proxy) : value[f][event.proxy] <= event.reading
    /\ \A f \in Formula : \A p \in Vars[f] : value[f][p] <= remote[p]

Settled(f) == [p \in Vars[f] |-> remote[p]]
Up(f) == \A p \in Vars[f] : link[p] = "up"

\* When its proxies are up for good, whatever happened before, a formula is
\* initialised in the end and the attribute shows what the sub-elements do:
\* neither events that were lost, came before the formula was initialised or
\* found the queue full, nor fallbacks leave it behind for ever.
FormulaFollows ==
    \A f \in Formula : <>[]Up(f) => <>[](attr[f].value = Settled(f))

\* And so does the status of the tasks that watch the attribute, although both
\* threads write the attribute and read it back (UpdateAsynchTaskStatus).
TasksFollow ==
    \A f \in Formula : <>[]Up(f) => <>[](told[f] = Settled(f))

\* A task that watches the attribute of one sub-element hears again and again
\* that it is down for good, although UpdateFormulaAttrs keeps restoring the last
\* value in the attribute (EvaluateFormulasOnProxyDown).
DownIsTold ==
    \A f \in Formula, p \in Proxy :
        Vars[f] = {p} /\ <>[](link[p] = "down") => []<>(told[f] = Safe)

-----------------------------------------------------------------------------
(* What a comment says, and the code does not do *)

\* Formulas of a proxy that is down fall back to the safe value with the given
\* quality, which is INVALID for HARD_OFFLINE.
FallbackKept ==
    \A f \in Formula, p \in Proxy :
        p \in Vars[f] /\ <>[](link[p] = "down")
            => <>[](attr[f] = [value |-> Safe, quality |-> "INVALID"])
=============================================================================
