-------------------------- MODULE TaskServer_proofs --------------------------
(***************************************************************************)
(* Theorems about TaskServer: what holds in spite of the static signals,   *)
(* with any number of devices and when the process has a single one.       *)
(***************************************************************************)
EXTENDS TaskServer, TLAPS

LEMMA InitType == Init => TypeOK
  BY DEF Init, TypeOK, Phase, PC

LEMMA NotifiedType ==
  ASSUME TypeOK, NEW d \in Device PROVE Notified(d) \in [Device -> PC]
<1>1. pc[d] \in PC
  BY DEF TypeOK
<1>2. (CASE pc[d] = "asleep" -> "pop"
         [] pc[d] = "timed"  -> "woken"
         [] OTHER            -> pc[d]) \in PC
  BY <1>1 DEF PC
<1> QED BY <1>2 DEF Notified, TypeOK

\* A notified thread is in no wait; the others are where they were.
LEMMA NotifiedElsewhere ==
  ASSUME TypeOK, NEW d \in Device, NEW e \in Device
  PROVE  /\ e = d => /\ Notified(d)[e] \notin InWait
                     /\ pc[e] \notin InWait => Notified(d)[e] = pc[e]
                     /\ Notified(d)[e] = "woken" => pc[e] \in {"timed", "woken"}
         /\ e # d => Notified(d)[e] = pc[e]
  BY DEF Notified, TypeOK, InWait

LEMMA ThreadType ==
  ASSUME TypeOK, NEW d \in Device, ThreadStep(d) PROVE TypeOK'
<1> USE DEF TypeOK, PC, Move
<1>1. CASE CheckStop(d)
  BY <1>1 DEF CheckStop
<1>2. CASE PopSleep(d)
  BY <1>2 DEF PopSleep
<1>3. CASE PopNothing(d)
  BY <1>3 DEF PopNothing
<1>4. CASE PopAndWait(d)
  BY <1>4 DEF PopAndWait
<1>5. CASE TimedOut(d)
  BY <1>5 DEF TimedOut
<1>6. CASE WokenReturns(d)
  BY <1>6 DEF WokenReturns
<1>7. CASE WokenWaits(d)
  BY <1>7 DEF WokenWaits
<1>8. CASE Executed(d)
  BY <1>8 DEF Executed
<1>9. ASSUME NEW w \in Work, PopWork(d, w) PROVE TypeOK'
  BY <1>9 DEF PopWork
<1> QED BY <1>1, <1>2, <1>3, <1>4, <1>5, <1>6, <1>7, <1>8, <1>9 DEF ThreadStep

LEMMA StepType == TypeOK /\ [Next]_vars => TypeOK'
<1> SUFFICES ASSUME TypeOK, [Next]_vars PROVE TypeOK'
  OBVIOUS
<1>1. CASE UNCHANGED vars
  BY <1>1 DEF vars, TypeOK
<1>2. ASSUME NEW d \in Device, NEW w \in Work, AddTaskSequence(d, w) PROVE TypeOK'
  BY <1>2, NotifiedType DEF AddTaskSequence, Signal, TypeOK
<1>3. ASSUME NEW d \in Device, NEW w \in Work, Activate(d, w) PROVE TypeOK'
  BY <1>3 DEF Activate, TypeOK
<1>4. ASSUME NEW d \in Device, WakeUp(d) \/ SpuriousWake(d) PROVE TypeOK'
  BY <1>4, NotifiedType DEF WakeUp, SpuriousWake, Signal, TypeOK
<1>5. ASSUME NEW d \in Device, End(d) PROVE TypeOK'
  BY <1>5, NotifiedType DEF End, TypeOK, Phase
<1>6. ASSUME NEW d \in Device, Stop(d) \/ Join(d) \/ InitDevice(d) PROVE TypeOK'
  BY <1>6 DEF Stop, Join, InitDevice, Ending, TypeOK, Phase, PC
<1> QED BY <1>1, <1>2, <1>3, <1>4, <1>5, <1>6, ThreadType DEF Next, Deletion

THEOREM ServerTypeCorrect == Spec => []TypeOK
  BY InitType, StepType, PTL DEF Spec

-----------------------------------------------------------------------------
(* Any number of devices *)

LEMMA ThreadHeeds ==
  ASSUME TypeOK, EndHeeded, NEW d \in Device, ThreadStep(d) PROVE EndHeeded'
<1> USE DEF TypeOK, EndHeeded, Ending, Move, InWait
<1>1. CASE PopSleep(d) \/ PopAndWait(d) \/ WokenWaits(d)
  \* Who begins to wait has seen the flag down: no device is being deleted.
  BY <1>1 DEF PopSleep, PopAndWait, WokenWaits
<1>2. CASE ~(PopSleep(d) \/ PopAndWait(d) \/ WokenWaits(d))
  <2>1. UNCHANGED <<ended, phase, overruled>> /\ pc' = [pc EXCEPT ![d] = pc'[d]]
        /\ pc'[d] \notin InWait
    BY <1>2 DEF ThreadStep, CheckStop, PopNothing, TimedOut, WokenReturns,
                Executed, PopWork
  <2> QED BY <2>1
<1> QED BY <1>1, <1>2

\* Whatever the devices of a process do at the same time, deletions included,
\* the end signal stays up until the thread it is for has been joined, and the
\* thread waits neither on its queue nor for an activation meanwhile: nothing
\* but the initialisation of a device gets in between.
THEOREM EndIsHeeded == Spec => []EndHeeded
<1> USE DEF Ending
<1>1. Init => EndHeeded
  BY DEF Init, EndHeeded
<1>2. TypeOK /\ EndHeeded /\ [Next]_vars => EndHeeded'
  <2> SUFFICES ASSUME TypeOK, EndHeeded, [Next]_vars PROVE EndHeeded'
    OBVIOUS
  <2>1. ASSUME NEW d \in Device, pc' = Notified(d), UNCHANGED <<ended, phase, overruled>>
        PROVE  EndHeeded'
    BY <2>1, NotifiedElsewhere DEF EndHeeded
  <2>2. ASSUME NEW d \in Device, End(d) PROVE EndHeeded'
    BY <2>2, NotifiedElsewhere DEF End, EndHeeded, TypeOK
  <2>3. ASSUME NEW d \in Device, Stop(d) \/ Join(d) PROVE EndHeeded'
    BY <2>3 DEF Stop, Join, EndHeeded, TypeOK
  <2>4. ASSUME NEW d \in Device, InitDevice(d) PROVE EndHeeded'
    BY <2>4 DEF InitDevice, EndHeeded, TypeOK
  <2>5. ASSUME UNCHANGED <<ended, phase, pc, overruled>> PROVE EndHeeded'
    BY <2>5 DEF EndHeeded
  <2> QED BY <2>1, <2>2, <2>3, <2>4, <2>5, ThreadHeeds
      DEF Next, vars, Deletion, AddTaskSequence, WakeUp, SpuriousWake, Signal,
          Activate
<1> QED BY <1>1, <1>2, ServerTypeCorrect, PTL DEF Spec

-----------------------------------------------------------------------------
(* One device in the process *)

\* A woken thread that would go on waiting has no work that may run at once.
WokenInv ==
    /\ ImmediateWorkNotOverslept
    /\ \A d \in Device :
          /\ pc[d] = "woken" /\ ~wakeUp /\ ~ended => queue[d] \subseteq Delayed
          /\ phase[d] = "down" => pc[d] = "done"

LEMMA ThreadNotOverslept ==
  ASSUME TypeOK, WokenInv, NEW d \in Device, Device = {d}, ThreadStep(d)
  PROVE  WokenInv'
<1> USE DEF TypeOK, WokenInv, ImmediateWorkNotOverslept, Move
<1>1. CASE CheckStop(d) \/ Executed(d)
  BY <1>1 DEF CheckStop, Executed
<1>2. CASE PopSleep(d)
  BY <1>2 DEF PopSleep
<1>3. CASE PopNothing(d) \/ TimedOut(d) \/ WokenReturns(d)
  BY <1>3 DEF PopNothing, TimedOut, WokenReturns
<1>4. CASE PopAndWait(d)
  <2>1. queue[d] \subseteq Delayed
    BY <1>4 DEF PopAndWait, Ready
  <2> QED BY <1>4, <2>1 DEF PopAndWait
<1>5. CASE WokenWaits(d)
  BY <1>5 DEF WokenWaits
<1>6. ASSUME NEW w \in Work, PopWork(d, w) PROVE WokenInv'
  BY <1>6 DEF PopWork
<1> QED BY <1>1, <1>2, <1>3, <1>4, <1>5, <1>6 DEF ThreadStep

\* In a process with one device no signal is lost: the thread sleeps over no
\* work that may run at once.
THEOREM AloneNotOverslept ==
  ASSUME NEW d, Device = {d}
  PROVE  Spec => []ImmediateWorkNotOverslept
<1>1. Init => WokenInv
  BY DEF Init, WokenInv, ImmediateWorkNotOverslept
<1>2. TypeOK /\ WokenInv /\ [Next]_vars => WokenInv'
  <2> SUFFICES ASSUME TypeOK, WokenInv, [Next]_vars PROVE WokenInv'
    OBVIOUS
  <2> USE DEF WokenInv, ImmediateWorkNotOverslept
  <2>1. ASSUME NEW w \in Work, AddTaskSequence(d, w) PROVE WokenInv'
    BY <2>1, NotifiedElsewhere DEF AddTaskSequence, Signal, InWait
  <2>2. CASE WakeUp(d)
    BY <2>2, NotifiedElsewhere DEF WakeUp, Signal, InWait
  <2>3. CASE SpuriousWake(d)
    BY <2>3, NotifiedElsewhere DEF SpuriousWake, InWait
  <2>4. CASE End(d)
    BY <2>4, NotifiedElsewhere DEF End, InWait, TypeOK
  <2>5. CASE Stop(d) \/ Join(d) \/ InitDevice(d)
    BY <2>5 DEF Stop, Join, InitDevice, TypeOK
  <2>6. CASE (\E w \in Work : Activate(d, w)) \/ UNCHANGED vars
    BY <2>6 DEF Activate, vars
  <2> QED BY <2>1, <2>2, <2>3, <2>4, <2>5, <2>6, ThreadNotOverslept
      DEF Next, Deletion
<1>3. WokenInv => ImmediateWorkNotOverslept
  BY DEF WokenInv
<1> QED BY <1>1, <1>2, <1>3, ServerTypeCorrect, PTL DEF Spec
=============================================================================
