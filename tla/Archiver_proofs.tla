-------------------------- MODULE Archiver_proofs --------------------------
(***************************************************************************)
(* Proofs about Archiver, for all sets of attributes and all bounds.       *)
(***************************************************************************)
EXTENDS Archiver, FiniteSetTheorems, TLAPS

USE DEF Busy, Round, Asleep, SubAt, CmdAt, Op, flagVars, eventVars, actionVars,
        ThreadState, CommandState, Known

-----------------------------------------------------------------------------
(* The inductive invariant *)

\* What a command that is under way holds to, and who may work on an attribute.
Held ==
    /\ stop = (cmd.at \in {"join", "gone"})
    /\ sub.at = "ended" => stop
    /\ cmd.at \in {"load", "store", "signal"} /\ cmd.op # "remove" => cmd.attr \in listed
    /\ cmd.at \in {"ttl", "choose"} => cmd.attr \in listed
    /\ cmd.at = "drop" => cmd.attr \in (running \cup paused) \cap stopped
    /\ cmd.at = "erase" => cmd.attr \in stopped
    /\ \A a \in (running \cup paused) \cap stopped : cmd.at = "drop" /\ cmd.attr = a
    /\ sub.at \in Busy => sub.cur \notin eventId

\* Every subscription that has its callback is known.
Accounted == \A a \in live \ dangling : Known(a)

Inv == TypeOK /\ Held /\ StoppedIsSilent /\ Accounted

\* A round begins for the thread that is not in one.
LEMMA BeginRoundKeeps ==
  ASSUME Inv, BeginRound, UNCHANGED <<listed, eventVars, stop, alive, cmd>>
  PROVE  ThreadOK' /\ sub'.at = "loop" /\ sub'.cur = sub.cur
<1>1. sub \in ThreadState
  BY DEF Inv, TypeOK, ThreadOK
<1>2. sub' = [at |-> "loop", left |-> listed, cur |-> sub.cur, some |-> sub.some,
              copy |-> sub.copy, read |-> 0]
  BY <1>1 DEF BeginRound, ThreadState
<1>3. listed \in SUBSET Attr
  BY DEF Inv, TypeOK, ListOK
<1>4. sub' \in ThreadState
  BY <1>1, <1>2, <1>3 DEF ThreadState
<1> QED BY <1>2, <1>3, <1>4 DEF Inv, TypeOK, ThreadOK, eventVars

LEMMA TopKeeps == ASSUME Inv, Top /\ UNCHANGED <<stop, cmd, commands, alive>> PROVE Inv'
<1> USE DEF Top, BeginRound, Goes
<1>0. ThreadOK' /\ sub'.cur = sub.cur /\ sub'.at \in {"copied", "loop"}
  <2>1. sub \in ThreadState
    BY DEF Inv, TypeOK, ThreadOK
  <2>2. CASE action > 0
    <3>1. sub' = [at |-> "copied", left |-> sub.left, cur |-> sub.cur, some |-> sub.some,
                  copy |-> TRUE, read |-> sub.read]
      BY <2>1, <2>2
    <3> QED BY <2>1, <3>1 DEF Inv, TypeOK, ThreadOK
  <2>3. CASE ~(action > 0)
    BY <2>3, BeginRoundKeeps
  <2> QED BY <2>2, <2>3
<1>1. ThreadOK'
  BY <1>0
<1>2. Held'
  BY <1>0 DEF Inv, Held
<1>3. Accounted'
  BY DEF Inv, Accounted
<1>4. ListOK' /\ EventsOK' /\ CommandOK' /\ StoppedIsSilent'
  BY DEF Inv, TypeOK, ListOK, EventsOK, CommandOK, StoppedIsSilent
<1> QED BY <1>1, <1>2, <1>3, <1>4 DEF Inv, TypeOK

LEMMA WriteKeeps ==
  ASSUME Inv, Write /\ UNCHANGED <<stop, cmd, commands, alive>>
  PROVE  Inv'
<1> USE DEF Write, Goes
<1>1. ThreadOK'
  BY DEF Inv, TypeOK, ThreadOK
<1>2. CommandOK'
  BY ArchiverAssumption DEF Inv, TypeOK, CommandOK, ThreadOK
<1>3. Held'
  BY DEF Inv, Held
<1>4. Accounted'
  BY DEF Inv, Accounted
<1>5. ListOK' /\ EventsOK' /\ StoppedIsSilent'
  BY DEF Inv, TypeOK, ListOK, EventsOK, StoppedIsSilent
<1> QED BY <1>1, <1>2, <1>3, <1>4, <1>5 DEF Inv, TypeOK

LEMMA LowerReadKeeps ==
  ASSUME Inv, LowerRead /\ UNCHANGED <<stop, cmd, commands, alive>>
  PROVE  Inv'
<1> USE DEF LowerRead, BeginRound, Goes
<1>0. ThreadOK' /\ sub'.cur = sub.cur /\ sub'.at \in {"lower", "loop"}
  <2>1. sub \in ThreadState
    BY DEF Inv, TypeOK, ThreadOK
  <2>2. CASE action >= 1
    <3>1. sub' = [at |-> "lower", left |-> sub.left, cur |-> sub.cur, some |-> sub.some,
                  copy |-> sub.copy, read |-> action]
      BY <2>1, <2>2
    <3>2. action \in 0..2
      BY DEF Inv, TypeOK, CommandOK
    <3> QED BY <2>1, <2>2, <3>1, <3>2 DEF Inv, TypeOK, ThreadOK
  <2>3. CASE ~(action >= 1)
    BY <2>3, BeginRoundKeeps
  <2> QED BY <2>2, <2>3
<1>1. ThreadOK'
  BY <1>0
<1>2. Held'
  BY <1>0 DEF Inv, Held
<1>3. Accounted'
  BY DEF Inv, Accounted
<1>4. ListOK' /\ EventsOK' /\ CommandOK' /\ StoppedIsSilent'
  BY DEF Inv, TypeOK, ListOK, EventsOK, CommandOK, StoppedIsSilent
<1> QED BY <1>1, <1>2, <1>3, <1>4 DEF Inv, TypeOK

LEMMA LowerKeeps ==
  ASSUME Inv, Lower /\ UNCHANGED <<stop, cmd, commands, alive>>
  PROVE  Inv'
<1> USE DEF Lower, BeginRound
<1>1. ThreadOK'
  BY BeginRoundKeeps
<1>2. CommandOK'
  BY ArchiverAssumption DEF Inv, TypeOK, CommandOK, ThreadOK
<1>3. Held'
  BY DEF Inv, Held
<1>4. Accounted'
  BY DEF Inv, Accounted
<1>5. ListOK' /\ EventsOK' /\ StoppedIsSilent'
  BY DEF Inv, TypeOK, ListOK, EventsOK, StoppedIsSilent
<1> QED BY <1>1, <1>2, <1>3, <1>4, <1>5 DEF Inv, TypeOK

LEMMA EndRoundKeeps ==
  ASSUME Inv, EndRound /\ UNCHANGED <<stop, cmd, commands, alive>>
  PROVE  Inv'
<1> USE DEF EndRound, Goes
<1>1. ThreadOK'
  BY DEF Inv, TypeOK, ThreadOK
<1>2. Held'
  BY DEF Inv, Held
<1>3. Accounted'
  BY DEF Inv, Accounted
<1>4. ListOK' /\ EventsOK' /\ CommandOK' /\ StoppedIsSilent'
  BY DEF Inv, TypeOK, ListOK, EventsOK, CommandOK, StoppedIsSilent
<1> QED BY <1>1, <1>2, <1>3, <1>4 DEF Inv, TypeOK

LEMMA CountKeeps ==
  ASSUME Inv, Count /\ UNCHANGED <<stop, cmd, commands, alive>>
  PROVE  Inv'
<1> USE DEF Count
<1>1. ThreadOK'
  BY DEF Inv, TypeOK, ThreadOK
<1>2. Held'
  BY DEF Inv, Held
<1>3. Accounted'
  BY DEF Inv, Accounted
<1>4. ListOK' /\ EventsOK' /\ CommandOK' /\ StoppedIsSilent'
  BY DEF Inv, TypeOK, ListOK, EventsOK, CommandOK, StoppedIsSilent
<1> QED BY <1>1, <1>2, <1>3, <1>4 DEF Inv, TypeOK

LEMMA DecideKeeps ==
  ASSUME Inv, Decide /\ UNCHANGED <<stop, cmd, commands, alive>>
  PROVE  Inv'
<1> USE DEF Decide, Goes
<1>1. ThreadOK'
  BY DEF Inv, TypeOK, ThreadOK
<1>2. Held'
  BY DEF Inv, Held
<1>3. Accounted'
  BY DEF Inv, Accounted
<1>4. ListOK' /\ EventsOK' /\ CommandOK' /\ StoppedIsSilent'
  BY DEF Inv, TypeOK, ListOK, EventsOK, CommandOK, StoppedIsSilent
<1> QED BY <1>1, <1>2, <1>3, <1>4 DEF Inv, TypeOK

LEMMA WaitKeeps ==
  ASSUME Inv, Wait /\ UNCHANGED <<stop, cmd, commands, alive>>
  PROVE  Inv'
<1> USE DEF Wait, Goes
<1>1. ThreadOK'
  BY DEF Inv, TypeOK, ThreadOK
<1>2. Held'
  BY DEF Inv, TypeOK, ThreadOK, Held
<1>3. Accounted'
  BY DEF Inv, Accounted
<1>4. ListOK' /\ EventsOK' /\ CommandOK' /\ StoppedIsSilent'
  BY DEF Inv, TypeOK, ListOK, EventsOK, CommandOK, StoppedIsSilent
<1> QED BY <1>1, <1>2, <1>3, <1>4 DEF Inv, TypeOK

LEMMA RetryKeeps ==
  ASSUME Inv, Retry /\ UNCHANGED <<stop, cmd, commands, alive>>
  PROVE  Inv'
<1> USE DEF Retry, Goes
<1>1. ThreadOK'
  BY DEF Inv, TypeOK, ThreadOK
<1>2. Held'
  BY DEF Inv, Held
<1>3. Accounted'
  BY DEF Inv, Accounted
<1>4. ListOK' /\ EventsOK' /\ CommandOK' /\ StoppedIsSilent'
  BY DEF Inv, TypeOK, ListOK, EventsOK, CommandOK, StoppedIsSilent
<1> QED BY <1>1, <1>2, <1>3, <1>4 DEF Inv, TypeOK

LEMMA LeaveKeeps ==
  ASSUME Inv, Leave /\ UNCHANGED <<stop, cmd, commands, alive>>
  PROVE  Inv'
<1> USE DEF Leave, Goes
<1>1. ListOK'
  BY DEF Inv, TypeOK, ListOK
<1>2. EventsOK'
  BY DEF Inv, TypeOK, EventsOK
<1>3. ThreadOK'
  BY DEF Inv, TypeOK, ThreadOK
<1>4. Held'
  BY DEF Inv, Held
<1>5. StoppedIsSilent'
  BY DEF Inv, StoppedIsSilent
<1>6. Accounted'
  BY DEF Inv, Accounted
<1>7. CommandOK'
  BY DEF Inv, TypeOK, CommandOK
<1> QED BY <1>1, <1>2, <1>3, <1>4, <1>5, <1>6, <1>7 DEF Inv, TypeOK

LEMMA VisitKeeps ==
  ASSUME Inv, NEW a \in Attr, Visit(a) /\ UNCHANGED <<stop, cmd, commands, alive>>
  PROVE  Inv'
<1> USE DEF Visit, Skip, NoProxy, Prepare, ToSubscribe, NextAttr
<1>1. EventsOK'
  BY DEF Inv, TypeOK, EventsOK, ThreadOK
<1>2. ThreadOK'
  <2>1. sub \in ThreadState /\ sub.left \in SUBSET listed
    BY DEF Inv, TypeOK, ThreadOK
  <2>2. CASE Prepare(a)
    <3>1. sub' = [at |-> "config", left |-> sub.left, cur |-> a, some |-> sub.some,
                  copy |-> sub.copy, read |-> sub.read]
      BY <2>1, <2>2
    <3> QED BY <2>1, <3>1 DEF Inv, TypeOK, ThreadOK
  <2>3. CASE Skip(a) \/ NoProxy(a)
    <3>1. sub' = [at |-> "loop", left |-> sub.left \ {a}, cur |-> sub.cur, some |-> sub.some,
                  copy |-> sub.copy, read |-> sub.read]
      BY <2>1, <2>3
    <3> QED BY <2>1, <3>1 DEF Inv, TypeOK, ThreadOK
  <2> QED BY <2>2, <2>3
<1>3. Held'
  <2>1. sub \in ThreadState
    BY DEF Inv, TypeOK, ThreadOK
  <2>2. /\ \/ sub'.at = "loop"
           \/ sub'.at = "config" /\ sub'.cur = a /\ a \notin eventId
        /\ UNCHANGED <<listed, running, paused, stopped, stop, cmd, eventId>>
    BY <2>1 DEF ThreadState, flagVars, eventVars
  <2>3. Held
    BY DEF Inv
  <2> QED BY ONLY <2>2, <2>3 DEF Held, Busy
<1>4. StoppedIsSilent'
  BY DEF Inv, StoppedIsSilent
<1>5. Accounted'
  BY DEF Inv, Accounted
<1>6. ListOK' /\ CommandOK'
  BY DEF Inv, TypeOK, ListOK, CommandOK
<1> QED BY <1>1, <1>2, <1>3, <1>4, <1>5, <1>6 DEF Inv, TypeOK

LEMMA GetConfigKeeps ==
  ASSUME Inv, GetConfig /\ UNCHANGED <<stop, cmd, commands, alive>>
  PROVE  Inv'
<1> USE DEF GetConfig, Ask, Goes
<1>1. ThreadOK'
  BY DEF Inv, TypeOK, ThreadOK
<1>2. Held'
  BY DEF Inv, TypeOK, ThreadOK, Held
<1>3. Accounted'
  BY DEF Inv, Accounted
<1>4. ListOK' /\ EventsOK' /\ CommandOK' /\ StoppedIsSilent'
  BY DEF Inv, TypeOK, ListOK, EventsOK, CommandOK, StoppedIsSilent
<1> QED BY <1>1, <1>2, <1>3, <1>4 DEF Inv, TypeOK

LEMMA SubscribeKeeps ==
  ASSUME Inv, Subscribe /\ UNCHANGED <<stop, cmd, commands, alive>>
  PROVE  Inv'
<1> USE DEF Subscribe, Ask, Goes
<1>1. EventsOK'
  BY DEF Inv, TypeOK, EventsOK
<1>2. ThreadOK'
  BY DEF Inv, TypeOK, ThreadOK
<1>3. Held'
  BY DEF Inv, TypeOK, ThreadOK, Held
<1>4. StoppedIsSilent'
  BY DEF Inv, StoppedIsSilent
<1>5. Accounted'
  BY DEF Inv, TypeOK, ThreadOK, Accounted
<1>6. ListOK' /\ CommandOK'
  BY DEF Inv, TypeOK, ListOK, CommandOK
<1> QED BY <1>1, <1>2, <1>3, <1>4, <1>5, <1>6 DEF Inv, TypeOK

LEMMA SubscribeConfKeeps ==
  ASSUME Inv, SubscribeConf /\ UNCHANGED <<stop, cmd, commands, alive>>
  PROVE  Inv'
<1> USE DEF SubscribeConf, Ask, Goes
<1>1. ThreadOK'
  BY DEF Inv, TypeOK, ThreadOK
<1>2. Held'
  BY DEF Inv, TypeOK, ThreadOK, Held
<1>3. Accounted'
  BY DEF Inv, TypeOK, ThreadOK, Accounted
<1>4. ListOK' /\ EventsOK' /\ CommandOK' /\ StoppedIsSilent'
  BY DEF Inv, TypeOK, ListOK, EventsOK, CommandOK, StoppedIsSilent
<1> QED BY <1>1, <1>2, <1>3, <1>4 DEF Inv, TypeOK

LEMMA NoteKeeps ==
  ASSUME Inv, Note /\ UNCHANGED <<stop, cmd, commands, alive>>
  PROVE  Inv'
<1> USE DEF Note, NextAttr
<1>1. EventsOK'
  BY DEF Inv, TypeOK, EventsOK, ThreadOK
<1>2. ThreadOK'
  BY DEF Inv, TypeOK, ThreadOK
<1>3. Held'
  BY DEF Inv, Held
<1>4. StoppedIsSilent'
  BY DEF Inv, StoppedIsSilent
<1>5. Accounted'
  BY DEF Inv, Accounted
<1>6. ListOK' /\ CommandOK'
  BY DEF Inv, TypeOK, ListOK, CommandOK
<1> QED BY <1>1, <1>2, <1>3, <1>4, <1>5, <1>6 DEF Inv, TypeOK

LEMMA FailedKeeps ==
  ASSUME Inv, Failed /\ UNCHANGED <<stop, cmd, commands, alive>>
  PROVE  Inv'
<1> USE DEF Failed, NextAttr
<1>1. EventsOK'
  BY DEF Inv, TypeOK, EventsOK
<1>2. ThreadOK'
  BY DEF Inv, TypeOK, ThreadOK
<1>3. Held'
  BY DEF Inv, Held
<1>4. StoppedIsSilent'
  BY DEF Inv, Held, StoppedIsSilent
<1>5. Accounted'
  BY DEF Inv, Accounted
<1>6. ListOK' /\ CommandOK'
  BY DEF Inv, TypeOK, ListOK, CommandOK
<1> QED BY <1>1, <1>2, <1>3, <1>4, <1>5, <1>6 DEF Inv, TypeOK

LEMMA EventKeeps == ASSUME Inv, NEW a \in Attr, Event(a) PROVE Inv'
<1> USE DEF Event
<1>1. EventsOK'
  BY DEF Inv, TypeOK, EventsOK
<1>2. ListOK' /\ ThreadOK' /\ CommandOK' /\ Held' /\ StoppedIsSilent' /\ Accounted'
  BY DEF Inv, TypeOK, ListOK, ThreadOK, CommandOK, Held, StoppedIsSilent,
         Accounted
<1> QED BY <1>1, <1>2 DEF Inv, TypeOK

LEMMA TimeoutKeeps == ASSUME Inv, NEW a \in Attr, Timeout(a) PROVE Inv'
<1> USE DEF Timeout
<1>1. EventsOK'
  BY DEF Inv, TypeOK, EventsOK
<1>2. ListOK' /\ ThreadOK' /\ CommandOK' /\ Held' /\ StoppedIsSilent' /\ Accounted'
  BY DEF Inv, TypeOK, ListOK, ThreadOK, CommandOK, Held, StoppedIsSilent,
         Accounted
<1> QED BY <1>1, <1>2 DEF Inv, TypeOK

LEMMA UseProxyKeeps == ASSUME Inv, UseProxy PROVE Inv'
<1> USE DEF UseProxy, UsesDeleted
<1>1. ThreadOK'
  BY DEF Inv, TypeOK, ThreadOK
<1>2. ListOK' /\ EventsOK' /\ CommandOK' /\ Held' /\ StoppedIsSilent' /\ Accounted'
  BY DEF Inv, TypeOK, ListOK, EventsOK, CommandOK, Held, StoppedIsSilent,
         Accounted
<1> QED BY <1>1, <1>2 DEF Inv, TypeOK

LEMMA UseCallbackKeeps == ASSUME Inv, UseCallback PROVE Inv'
<1> USE DEF UseCallback, UsesDeleted
<1>1. ThreadOK'
  BY DEF Inv, TypeOK, ThreadOK
<1>2. ListOK' /\ EventsOK' /\ CommandOK' /\ Held' /\ StoppedIsSilent' /\ Accounted'
  BY DEF Inv, TypeOK, ListOK, EventsOK, CommandOK, Held, StoppedIsSilent,
         Accounted
<1> QED BY <1>1, <1>2 DEF Inv, TypeOK

LEMMA AddKeeps == ASSUME Inv, NEW a \in Attr, AttributeAdd(a) PROVE Inv'
<1> USE DEF AttributeAdd, Numbers, Command, Changed, At
<1>1. ListOK'
  BY DEF Inv, TypeOK, ListOK
<1>2. EventsOK'
  BY DEF Inv, TypeOK, EventsOK
<1>3. ThreadOK'
  BY DEF Inv, TypeOK, ThreadOK
<1>4. CommandOK'
  <2>1. stored' \in BOOLEAN
    BY Zenon
  <2>2. cmd' \in CommandState /\ commands' \in 0..MaxCommands
    BY ArchiverAssumption DEF Inv, TypeOK, CommandOK, Held, ListOK
  <2> QED BY <2>1, <2>2 DEF Inv, TypeOK, CommandOK, Held, ListOK
<1>5. Held'
  BY DEF Inv, TypeOK, ListOK, Held
<1>6. StoppedIsSilent'
  BY DEF Inv, TypeOK, EventsOK, StoppedIsSilent
<1>7. Accounted'
  BY DEF Inv, Accounted
<1> QED BY <1>1, <1>2, <1>3, <1>4, <1>5, <1>6, <1>7 DEF Inv, TypeOK

LEMMA SetKeeps ==
  ASSUME Inv, NEW op \in {"strategy", "ttl"}, NEW a \in Attr, SetAttribute(op, a)
  PROVE  Inv'
<1> USE DEF SetAttribute, Command, Changed, At
<1>1. ThreadOK'
  BY DEF Inv, TypeOK, ThreadOK
<1>2. CommandOK'
  <2>1. stored' \in BOOLEAN
    BY Zenon
  <2>2. cmd' \in CommandState /\ commands' \in 0..MaxCommands
    BY ArchiverAssumption DEF Inv, TypeOK, CommandOK, Held, ListOK
  <2> QED BY <2>1, <2>2 DEF Inv, TypeOK, CommandOK, Held, ListOK
<1>3. Held'
  BY DEF Inv, Held
<1>4. StoppedIsSilent'
  BY DEF Inv, StoppedIsSilent
<1>5. Accounted'
  BY DEF Inv, Accounted
<1>6. ListOK' /\ EventsOK'
  BY DEF Inv, TypeOK, ListOK, EventsOK
<1> QED BY <1>1, <1>2, <1>3, <1>4, <1>5, <1>6 DEF Inv, TypeOK

LEMMA LoadKeeps == ASSUME Inv, Load PROVE Inv'
<1> USE DEF Load, Continue
<1>1. CommandOK'
  <2>1. cmd \in CommandState /\ action \in 0..2
    BY DEF Inv, TypeOK, CommandOK
  <2>2. CASE action <= 1
    <3>1. cmd' = [at |-> "store", op |-> cmd.op, attr |-> cmd.attr, read |-> action]
      BY <2>1, <2>2
    <3>2. cmd' \in CommandState
      BY <2>1, <2>2, <3>1
    <3> QED BY <3>1, <3>2 DEF Inv, TypeOK, CommandOK
  <2>3. CASE ~(action <= 1)
    BY <2>1, <2>3 DEF Inv, TypeOK, CommandOK
  <2> QED BY <2>2, <2>3
<1>2. Held'
  BY DEF Inv, Held
<1>3. StoppedIsSilent'
  BY DEF Inv, StoppedIsSilent
<1>4. ListOK' /\ EventsOK' /\ ThreadOK' /\ Accounted'
  BY DEF Inv, TypeOK, ListOK, EventsOK, ThreadOK, Accounted
<1> QED BY <1>1, <1>2, <1>3, <1>4 DEF Inv, TypeOK

LEMMA StoreKeeps == ASSUME Inv, Store PROVE Inv'
<1> USE DEF Store, Continue, At
<1>1. CommandOK'
  BY ArchiverAssumption DEF Inv, TypeOK, CommandOK
<1>2. Held'
  BY DEF Inv, Held
<1>3. StoppedIsSilent'
  BY DEF Inv, StoppedIsSilent
<1>4. ListOK' /\ EventsOK' /\ ThreadOK' /\ Accounted'
  BY DEF Inv, TypeOK, ListOK, EventsOK, ThreadOK, Accounted
<1> QED BY <1>1, <1>2, <1>3, <1>4 DEF Inv, TypeOK

LEMMA SignalKeeps == ASSUME Inv, Signal PROVE Inv'
<1> USE DEF Signal, Continue, At, Done, Woken
<1>1. ThreadOK'
  BY DEF Inv, TypeOK, ThreadOK
<1>2. CommandOK'
  BY ArchiverAssumption DEF Inv, TypeOK, CommandOK
<1>3. Held'
  BY DEF Inv, Held
<1>4. StoppedIsSilent'
  BY DEF Inv, StoppedIsSilent
<1>5. Accounted'
  BY DEF Inv, Accounted
<1>6. ListOK' /\ EventsOK'
  BY DEF Inv, TypeOK, ListOK, EventsOK
<1> QED BY <1>1, <1>2, <1>3, <1>4, <1>5, <1>6 DEF Inv, TypeOK

LEMMA UpdateTtlKeeps == ASSUME Inv, UpdateTtl PROVE Inv'
<1> USE DEF UpdateTtl, Continue, Changed, At
<1>1. ThreadOK'
  BY DEF Inv, TypeOK, ThreadOK
<1>2. CommandOK'
  <2>1. stored' \in BOOLEAN
    BY Zenon
  <2>2. cmd' \in CommandState /\ commands' \in 0..MaxCommands
    BY ArchiverAssumption DEF Inv, TypeOK, CommandOK, Held, ListOK
  <2> QED BY <2>1, <2>2 DEF Inv, TypeOK, CommandOK, Held, ListOK
<1>3. Held'
  BY DEF Inv, Held
<1>4. StoppedIsSilent'
  BY DEF Inv, StoppedIsSilent
<1>5. Accounted'
  BY DEF Inv, Accounted
<1>6. ListOK' /\ EventsOK'
  BY DEF Inv, TypeOK, ListOK, EventsOK
<1> QED BY <1>1, <1>2, <1>3, <1>4, <1>5, <1>6 DEF Inv, TypeOK

LEMMA StartKeeps == ASSUME Inv, NEW a \in Attr, Start(a) PROVE Inv'
<1> USE DEF Start, Asked, Command, Continue, Flags, StartNumbers, Numbers, One,
            AddAgain, AddProxy, Woken, Done, At
<1>1. ListOK'
  BY DEF Inv, TypeOK, ListOK, Held
<1>2. EventsOK'
  BY DEF Inv, TypeOK, ListOK, EventsOK
<1>3. ThreadOK'
  BY DEF Inv, TypeOK, ThreadOK
<1>4. CommandOK'
  BY ArchiverAssumption DEF Inv, TypeOK, CommandOK
<1>5. Held'
  BY DEF Inv, TypeOK, ThreadOK, Held
<1>6. StoppedIsSilent'
  BY DEF Inv, StoppedIsSilent
<1>7. Accounted'
  BY DEF Inv, StoppedIsSilent, Accounted
<1> QED BY <1>1, <1>2, <1>3, <1>4, <1>5, <1>6, <1>7 DEF Inv, TypeOK

LEMMA PauseKeeps == ASSUME Inv, NEW a \in Attr, AttributePause(a) PROVE Inv'
<1> USE DEF AttributePause, Numbers, Command, Flags
<1>1. ListOK'
  BY DEF Inv, TypeOK, ListOK
<1>2. CommandOK'
  BY ArchiverAssumption DEF Inv, TypeOK, CommandOK
<1>3. Held'
  BY DEF Inv, Held
<1>4. StoppedIsSilent'
  BY DEF Inv, StoppedIsSilent
<1>5. EventsOK' /\ ThreadOK' /\ Accounted'
  BY DEF Inv, TypeOK, EventsOK, ThreadOK, Accounted
<1> QED BY <1>1, <1>2, <1>3, <1>4, <1>5 DEF Inv, TypeOK

LEMMA StopKeeps == ASSUME Inv, NEW a \in Attr, AttributeStop(a) PROVE Inv'
<1> USE DEF AttributeStop, Asked, Command, Continue, Numbers, One, Halt, Drop, Done, At
<1>1. ListOK'
  BY DEF Inv, TypeOK, ListOK
<1>2. EventsOK'
  BY DEF Inv, TypeOK, EventsOK
<1>3. CommandOK'
  BY ArchiverAssumption DEF Inv, TypeOK, CommandOK
<1>4. Held'
  BY DEF Inv, Held
<1>5. StoppedIsSilent'
  BY DEF Inv, StoppedIsSilent
<1>6. Accounted'
  BY DEF Inv, Accounted
<1>7. ThreadOK'
  BY DEF Inv, TypeOK, ThreadOK
<1> QED BY <1>1, <1>2, <1>3, <1>4, <1>5, <1>6, <1>7 DEF Inv, TypeOK

LEMMA DroppedKeeps == ASSUME Inv, Dropped PROVE Inv'
<1> USE DEF Dropped, Continue, Drop, Done, At
<1>1. ListOK'
  BY DEF Inv, TypeOK, ListOK, Held
<1>2. EventsOK'
  BY DEF Inv, TypeOK, EventsOK
<1>3. CommandOK'
  BY ArchiverAssumption DEF Inv, TypeOK, CommandOK
<1>4. Held'
  BY DEF Inv, Held
<1>5. StoppedIsSilent'
  BY DEF Inv, StoppedIsSilent
<1>6. Accounted'
  BY DEF Inv, Accounted
<1>7. ThreadOK'
  BY DEF Inv, TypeOK, ThreadOK
<1> QED BY <1>1, <1>2, <1>3, <1>4, <1>5, <1>6, <1>7 DEF Inv, TypeOK

LEMMA RemoveKeeps == ASSUME Inv, NEW a \in Attr, AttributeRemove(a) PROVE Inv'
<1> USE DEF AttributeRemove, Command, Numbers, One, Halt, Drop, Done, At
<1>1. ListOK'
  BY DEF Inv, TypeOK, ListOK
<1>2. EventsOK'
  BY DEF Inv, TypeOK, EventsOK
<1>3. CommandOK'
  BY ArchiverAssumption DEF Inv, TypeOK, CommandOK
<1>4. Held'
  BY DEF Inv, TypeOK, ListOK, Held
<1>5. StoppedIsSilent'
  BY DEF Inv, StoppedIsSilent
<1>6. Accounted'
  BY DEF Inv, Accounted
<1>7. ThreadOK'
  BY DEF Inv, TypeOK, ThreadOK
<1> QED BY <1>1, <1>2, <1>3, <1>4, <1>5, <1>6, <1>7 DEF Inv, TypeOK

LEMMA EraseKeeps == ASSUME Inv, Erase PROVE Inv'
<1> USE DEF Erase, Numbers, Continue, Changed, At
<1>1. ListOK'
  BY DEF Inv, TypeOK, ListOK, Held
<1>2. EventsOK'
  BY DEF Inv, TypeOK, EventsOK, Held, StoppedIsSilent
<1>3. ThreadOK'
  BY DEF Inv, TypeOK, ThreadOK
<1>4. CommandOK'
  <2>1. stored' \in BOOLEAN
    BY Zenon
  <2>2. cmd' \in CommandState /\ commands' \in 0..MaxCommands
    BY ArchiverAssumption DEF Inv, TypeOK, CommandOK, Held, ListOK
  <2> QED BY <2>1, <2>2 DEF Inv, TypeOK, CommandOK, Held, ListOK
<1>5. Held'
  BY DEF Inv, Held
<1>6. StoppedIsSilent'
  BY DEF Inv, StoppedIsSilent
<1>7. Accounted'
  BY DEF Inv, Held, StoppedIsSilent, Accounted
<1> QED BY <1>1, <1>2, <1>3, <1>4, <1>5, <1>6, <1>7 DEF Inv, TypeOK

LEMMA UnneededKeeps == ASSUME Inv, Unneeded PROVE Inv'
<1> USE DEF Unneeded, Continue, Done, At
<1>1. CommandOK'
  BY ArchiverAssumption DEF Inv, TypeOK, CommandOK
<1>2. Held'
  BY DEF Inv, Held
<1>3. StoppedIsSilent'
  BY DEF Inv, StoppedIsSilent
<1>4. ListOK' /\ EventsOK' /\ ThreadOK' /\ Accounted'
  BY DEF Inv, TypeOK, ListOK, EventsOK, ThreadOK, Accounted
<1> QED BY <1>1, <1>2, <1>3, <1>4 DEF Inv, TypeOK

LEMMA DeleteKeeps == ASSUME Inv, Delete PROVE Inv'
<1> USE DEF Delete, Numbers, Woken, At
<1>1. ListOK'
  <2>1. Cardinality(running) \in Int
    BY ArchiverAssumption, FS_Subset, FS_CardinalityType DEF Inv, TypeOK, ListOK
  <2> QED BY <2>1 DEF Inv, TypeOK, ListOK, CommandOK, Held
<1>2. ThreadOK'
  BY DEF Inv, TypeOK, ThreadOK
<1>3. CommandOK'
  BY ArchiverAssumption DEF Inv, TypeOK, CommandOK
<1>4. Held'
  BY DEF Inv, TypeOK, ThreadOK, Held
<1>5. StoppedIsSilent'
  BY DEF Inv, StoppedIsSilent
<1>6. Accounted'
  BY DEF Inv, Accounted
<1>7. EventsOK'
  BY DEF Inv, TypeOK, EventsOK
<1> QED BY <1>1, <1>2, <1>3, <1>4, <1>5, <1>6, <1>7 DEF Inv, TypeOK

LEMMA JoinKeeps == ASSUME Inv, Join PROVE Inv'
<1> USE DEF Join, Continue, At
<1>1. CommandOK'
  BY ArchiverAssumption DEF Inv, TypeOK, CommandOK
<1>2. Held'
  BY DEF Inv, Held
<1>3. StoppedIsSilent'
  BY DEF Inv, StoppedIsSilent
<1>4. ListOK' /\ EventsOK' /\ ThreadOK' /\ Accounted'
  BY DEF Inv, TypeOK, ListOK, EventsOK, ThreadOK, Accounted
<1> QED BY <1>1, <1>2, <1>3, <1>4 DEF Inv, TypeOK

-----------------------------------------------------------------------------
(* The numbers of attributes *)

LEMMA Members ==
  ASSUME NEW S \in SUBSET Attr, NEW a \in Attr
  PROVE  /\ Cardinality(S) \in Int
         /\ a \notin S => Cardinality(S \cup {a}) = Cardinality(S) + 1
         /\ a \in S => Cardinality(S \ {a}) = Cardinality(S) - 1
<1>1. IsFiniteSet(S)
  BY ArchiverAssumption, FS_Subset
<1> QED BY <1>1, FS_CardinalityType, FS_AddElement, FS_RemoveElement

LEMMA NumberOf ==
  ASSUME NEW S \in SUBSET Attr
  PROVE  Cardinality(S) \in Int
BY ArchiverAssumption, FS_Subset, FS_CardinalityType

LEMMA OneIs ==
  ASSUME NEW S, NEW a
  PROVE  /\ a \in S => One(a, S) = 1
         /\ a \notin S => One(a, S) = 0
BY DEF One

LEMMA SameNumber ==
  ASSUME NEW S \in SUBSET Attr, NEW n \in Int, n = 0
  PROVE  Cardinality(S) = Cardinality(S) + n
BY NumberOf

\* The numbers change as what they count does.
LEMMA CountersChange ==
  ASSUME TypeOK, CountersRight,
         NEW all, NEW started, NEW held, NEW ceased,
         numbers' = [all |-> numbers.all + all, started |-> numbers.started + started,
                     paused |-> numbers.paused + held,
                     stopped |-> numbers.stopped + ceased],
         Cardinality(listed') = Cardinality(listed) + all,
         Cardinality(running' \ stopped') = Cardinality(running \ stopped) + started,
         Cardinality(paused' \ stopped') = Cardinality(paused \ stopped) + held,
         Cardinality(stopped') = Cardinality(stopped) + ceased,
         sub.at = "ended" => sub'.at = "ended"
  PROVE  CountersRight'
<1>1. /\ numbers'.all = numbers.all + all
      /\ numbers'.started = numbers.started + started
      /\ numbers'.paused = numbers.paused + held
      /\ numbers'.stopped = numbers.stopped + ceased
  OBVIOUS
<1> QED BY <1>1, Zenon DEF CountersRight

\* Nothing is counted differently.
LEMMA CountersStay ==
  ASSUME CountersRight, UNCHANGED <<listed, numbers, stopped>>,
         running' \ stopped = running \ stopped, paused' \ stopped = paused \ stopped,
         sub.at = "ended" => sub'.at = "ended"
  PROVE  CountersRight'
BY DEF CountersRight

LEMMA AddCounted ==
  ASSUME Inv, CountersRight, NEW a \in Attr, AttributeAdd(a)
  PROVE  CountersRight'
<1>1. /\ listed \in SUBSET Attr /\ stopped \in SUBSET Attr
      /\ a \notin listed /\ a \notin running \cup paused \cup stopped
  BY DEF Inv, TypeOK, ListOK, AttributeAdd
<1>2. /\ listed' = listed \cup {a} /\ stopped' = stopped \cup {a}
      /\ UNCHANGED <<running, paused>>
  BY DEF AttributeAdd
<1>3. /\ Cardinality(listed') = Cardinality(listed) + 1
      /\ Cardinality(stopped') = Cardinality(stopped) + 1
  BY <1>1, <1>2, Members
<1>4. /\ Cardinality(running' \ stopped') = Cardinality(running \ stopped) + 0
      /\ Cardinality(paused' \ stopped') = Cardinality(paused \ stopped) + 0
  <2>1. running' \ stopped' = running \ stopped /\ paused' \ stopped' = paused \ stopped
    BY <1>1, <1>2
  <2>2. running \ stopped \in SUBSET Attr /\ paused \ stopped \in SUBSET Attr
    BY DEF Inv, TypeOK, ListOK
  <2>3. /\ Cardinality(running \ stopped) = Cardinality(running \ stopped) + 0
        /\ Cardinality(paused \ stopped) = Cardinality(paused \ stopped) + 0
    BY <2>2, SameNumber
  <2> QED BY <2>1, <2>3, Zenon
<1>5. sub.at = "ended" => sub'.at = "ended"
  BY DEF AttributeAdd, Inv, TypeOK, ThreadOK, ThreadState
<1>6. numbers' = [all |-> numbers.all + 1, started |-> numbers.started + 0,
                  paused |-> numbers.paused + 0,
                  stopped |-> numbers.stopped + 1]
  BY DEF AttributeAdd, Numbers
<1> QED BY <1>3, <1>4, <1>5, <1>6, CountersChange, Zenon DEF Inv

LEMMA StartCounted ==
  ASSUME Inv, CountersRight, NEW a \in Attr, Start(a)
  PROVE  CountersRight'
<1>1. /\ running \in SUBSET Attr /\ paused \in SUBSET Attr /\ stopped \in SUBSET Attr
      /\ listed \in SUBSET Attr
      /\ a \notin running /\ (a \in paused => a \notin stopped)
  BY DEF Inv, TypeOK, ListOK, Held, Asked, Command, Continue, Start
<1>2. /\ running' = running \cup {a} /\ paused' = paused \ {a} /\ stopped' = stopped \ {a}
      /\ listed' = listed
  BY DEF Start, Flags
<1>3. Cardinality(running' \ stopped') = Cardinality(running \ stopped) + 1
  <2>1. running' \ stopped' = (running \ stopped) \cup {a}
    BY <1>1, <1>2
  <2> QED BY <1>1, <2>1, Members
<1>4. Cardinality(paused' \ stopped') = Cardinality(paused \ stopped) + (-One(a, paused))
  <2>1. CASE a \in paused
    <3>1. paused' \ stopped' = (paused \ stopped) \ {a}
      BY <1>1, <1>2, <2>1
    <3> QED BY <1>1, <2>1, <3>1, Members DEF One
  <2>2. CASE a \notin paused
    <3>1. paused' \ stopped' = paused \ stopped
      BY <1>1, <1>2, <2>2
    <3> QED BY <1>1, <2>2, <3>1, NumberOf DEF One
  <2> QED BY <2>1, <2>2
<1>5. Cardinality(stopped') = Cardinality(stopped) + (-One(a, stopped))
  <2>1. CASE a \in stopped
    BY <1>1, <1>2, <2>1, Members DEF One
  <2>2. CASE a \notin stopped
    <3>1. stopped' = stopped
      BY <1>2, <2>2
    <3> QED BY <1>1, <2>2, <3>1, NumberOf DEF One
  <2> QED BY <2>1, <2>2
<1>6. Cardinality(listed') = Cardinality(listed) + 0
  BY <1>1, <1>2, NumberOf
<1>7. sub.at = "ended" => sub'.at = "ended"
  BY DEF Start, AddAgain, AddProxy, Woken, Asleep
<1>8. numbers' = [all |-> numbers.all + 0, started |-> numbers.started + 1,
                  paused |-> numbers.paused + (-One(a, paused)),
                  stopped |-> numbers.stopped + (-One(a, stopped))]
  BY DEF Start, StartNumbers, Numbers
<1> QED BY <1>3, <1>4, <1>5, <1>6, <1>7, <1>8, CountersChange, Zenon DEF Inv

LEMMA PauseCounted ==
  ASSUME Inv, CountersRight, NEW a \in Attr, AttributePause(a)
  PROVE  CountersRight'
<1>1. /\ running \in SUBSET Attr /\ paused \in SUBSET Attr /\ stopped \in SUBSET Attr
      /\ listed \in SUBSET Attr
      /\ a \in running /\ a \notin stopped /\ a \notin paused
  BY DEF Inv, TypeOK, ListOK, AttributePause
<1>2. /\ running' = running \ {a} /\ paused' = paused \cup {a} /\ stopped' = stopped
      /\ listed' = listed /\ sub' = sub
  BY <1>1 DEF AttributePause, Flags
<1>3. Cardinality(running' \ stopped') = Cardinality(running \ stopped) + (-1)
  <2>1. running' \ stopped' = (running \ stopped) \ {a}
    BY <1>1, <1>2
  <2> QED BY <1>1, <2>1, Members
<1>4. Cardinality(paused' \ stopped') = Cardinality(paused \ stopped) + 1
  <2>1. paused' \ stopped' = (paused \ stopped) \cup {a}
    BY <1>1, <1>2
  <2> QED BY <1>1, <2>1, Members
<1>5. /\ Cardinality(listed') = Cardinality(listed) + 0
      /\ Cardinality(stopped') = Cardinality(stopped) + 0
  BY <1>1, <1>2, NumberOf
<1>6. numbers' = [all |-> numbers.all + 0, started |-> numbers.started + (-1),
                  paused |-> numbers.paused + 1,
                  stopped |-> numbers.stopped + 0]
  BY DEF AttributePause, Numbers
<1> QED BY <1>2, <1>3, <1>4, <1>5, <1>6, CountersChange, Zenon DEF Inv

\* stop: from the moment it is to be stopped.
LEMMA HaltCounted ==
  ASSUME Inv, CountersRight, NEW op, NEW a \in Attr, cmd.at # "drop", Halt(op, a)
  PROVE  CountersRight'
<1>1. /\ running \in SUBSET Attr /\ paused \in SUBSET Attr /\ stopped \in SUBSET Attr
      /\ listed \in SUBSET Attr
      /\ a \notin stopped
  BY DEF Inv, TypeOK, ListOK, Held, Halt
<1>2. /\ stopped' = stopped \cup {a} /\ listed' = listed /\ sub' = sub
      /\ running' = running \/ running' = running \ {a}
      /\ paused' = paused \/ paused' = paused \ {a}
  BY DEF Halt, Drop
<1>3. Cardinality(running' \ stopped') = Cardinality(running \ stopped) + (-One(a, running))
  <2>1. running' \ stopped' = (running \ stopped) \ {a}
    BY <1>2
  <2>2. CASE a \in running
    BY <1>1, <2>1, <2>2, Members DEF One
  <2>3. CASE a \notin running
    <3>1. running' \ stopped' = running \ stopped /\ running \ stopped \in SUBSET Attr
      BY <1>1, <2>1, <2>3
    <3>2. One(a, running) = 0
      BY <2>3, OneIs
    <3>3. Cardinality(running \ stopped) = Cardinality(running \ stopped) + (-One(a, running))
      BY <3>1, <3>2, NumberOf
    <3> QED BY <3>1, <3>3, Zenon
  <2> QED BY <2>2, <2>3
<1>4. Cardinality(paused' \ stopped') = Cardinality(paused \ stopped) + (-One(a, paused))
  <2>1. paused' \ stopped' = (paused \ stopped) \ {a}
    BY <1>2
  <2>2. CASE a \in paused
    BY <1>1, <2>1, <2>2, Members DEF One
  <2>3. CASE a \notin paused
    <3>1. paused' \ stopped' = paused \ stopped /\ paused \ stopped \in SUBSET Attr
      BY <1>1, <2>1, <2>3
    <3>2. One(a, paused) = 0
      BY <2>3, OneIs
    <3>3. Cardinality(paused \ stopped) = Cardinality(paused \ stopped) + (-One(a, paused))
      BY <3>1, <3>2, NumberOf
    <3> QED BY <3>1, <3>3, Zenon
  <2> QED BY <2>2, <2>3
<1>5. Cardinality(stopped') = Cardinality(stopped) + 1
  BY <1>1, <1>2, Members
<1>6. Cardinality(listed') = Cardinality(listed) + 0
  BY <1>1, <1>2, NumberOf
<1>7. numbers' = [all |-> numbers.all + 0, started |-> numbers.started + (-One(a, running)),
                  paused |-> numbers.paused + (-One(a, paused)),
                  stopped |-> numbers.stopped + 1]
  BY DEF Halt, Numbers
<1> QED BY <1>2, <1>3, <1>4, <1>5, <1>6, <1>7, CountersChange, Zenon DEF Inv

LEMMA EraseCounted == ASSUME Inv, CountersRight, Erase PROVE CountersRight'
<1>1. /\ listed \in SUBSET Attr /\ stopped \in SUBSET Attr
      /\ running \in SUBSET Attr /\ paused \in SUBSET Attr /\ cmd.attr \in Attr
      /\ cmd.attr \in listed /\ cmd.attr \in stopped /\ cmd.attr \notin running \cup paused
  BY DEF Inv, TypeOK, ListOK, Held, Erase, Continue
<1>2. /\ listed' = listed \ {cmd.attr} /\ stopped' = stopped \ {cmd.attr}
      /\ UNCHANGED <<running, paused>>
  BY DEF Erase
<1>3. /\ Cardinality(listed') = Cardinality(listed) + (-1)
      /\ Cardinality(stopped') = Cardinality(stopped) + (-1)
  BY <1>1, <1>2, Members
<1>4. /\ Cardinality(running' \ stopped') = Cardinality(running \ stopped) + 0
      /\ Cardinality(paused' \ stopped') = Cardinality(paused \ stopped) + 0
  <2>1. running' \ stopped' = running \ stopped /\ paused' \ stopped' = paused \ stopped
    BY <1>1, <1>2
  <2>2. running \ stopped \in SUBSET Attr /\ paused \ stopped \in SUBSET Attr
    BY <1>1
  <2>3. /\ Cardinality(running \ stopped) = Cardinality(running \ stopped) + 0
        /\ Cardinality(paused \ stopped) = Cardinality(paused \ stopped) + 0
    BY <2>2, SameNumber
  <2> QED BY <2>1, <2>3, Zenon
<1>5. sub.at = "ended" => sub'.at = "ended"
  BY DEF Erase, Inv, TypeOK, ThreadOK, ThreadState
<1>6. numbers' = [all |-> numbers.all + (-1), started |-> numbers.started + 0,
                  paused |-> numbers.paused + 0,
                  stopped |-> numbers.stopped + (-1)]
  BY DEF Erase, Numbers
<1> QED BY <1>3, <1>4, <1>5, <1>6, CountersChange, Zenon DEF Inv

LEMMA DeleteCounted == ASSUME Inv, CountersRight, Delete PROVE CountersRight'
<1>1. /\ running \in SUBSET Attr /\ paused \in SUBSET Attr /\ stopped \in SUBSET Attr
      /\ listed \in SUBSET Attr
      /\ running \cap paused = {} /\ (running \cup paused) \cap stopped = {}
  BY DEF Inv, TypeOK, ListOK, Held, Delete
<1>2. /\ running' = {} /\ paused' = paused \cup running
      /\ UNCHANGED <<listed, stopped>>
  BY DEF Delete
<1>3. /\ IsFiniteSet(running) /\ IsFiniteSet(paused)
      /\ Cardinality(running) \in Int /\ Cardinality(paused) \in Int
  BY <1>1, ArchiverAssumption, FS_Subset, NumberOf
<1>4. Cardinality(paused \cup running) = Cardinality(paused) + Cardinality(running)
  <2>1. paused \cap running = {}
    BY <1>1
  <2>2. Cardinality(paused \cup running)
          = Cardinality(paused) + Cardinality(running) - Cardinality(paused \cap running)
    BY <1>3, FS_Union
  <2>3. Cardinality(paused \cap running) = 0
    BY <2>1, FS_EmptySet
  <2> QED BY <1>3, <2>2, <2>3
<1>5. Cardinality(running' \ stopped')
        = Cardinality(running \ stopped) + (-Cardinality(running))
  <2>1. running' \ stopped' = {} /\ running \ stopped = running
    BY <1>1, <1>2
  <2> QED BY <1>3, <2>1, FS_EmptySet
<1>6. Cardinality(paused' \ stopped') = Cardinality(paused \ stopped) + Cardinality(running)
  <2>1. paused' \ stopped' = paused \cup running /\ paused \ stopped = paused
    BY <1>1, <1>2
  <2> QED BY <1>4, <2>1
<1>7. /\ Cardinality(listed') = Cardinality(listed) + 0
      /\ Cardinality(stopped') = Cardinality(stopped) + 0
  BY <1>1, <1>2, NumberOf
<1>8. sub.at = "ended" => sub'.at = "ended"
  BY DEF Delete, Woken, Asleep
<1>9. numbers' = [all |-> numbers.all + 0,
                  started |-> numbers.started + (-Cardinality(running)),
                  paused |-> numbers.paused + Cardinality(running),
                  stopped |-> numbers.stopped + 0]
  BY DEF Delete, Numbers
<1> QED BY <1>3, <1>5, <1>6, <1>7, <1>8, <1>9, CountersChange, Zenon DEF Inv

\* What is stopped was hidden from the numbers since Halt.
LEMMA DroppedCounted == ASSUME Inv, CountersRight, Dropped PROVE CountersRight'
<1>1. cmd.attr \in stopped
  BY DEF Inv, Held, Dropped, Continue
<1>2. running' \ stopped' = running \ stopped /\ paused' \ stopped' = paused \ stopped
  BY <1>1 DEF Dropped, Drop
<1> QED BY <1>2, CountersStay DEF Dropped

LEMMA RemoveCounted ==
  ASSUME Inv, CountersRight, NEW a \in Attr, AttributeRemove(a)
  PROVE  CountersRight'
<1>1. CASE Halt("remove", a)
  BY <1>1, HaltCounted DEF AttributeRemove, Command
<1>2. CASE ~Halt("remove", a)
  BY <1>2, CountersStay DEF AttributeRemove
<1> QED BY <1>1, <1>2

LEMMA StopCounted ==
  ASSUME Inv, CountersRight, NEW a \in Attr, AttributeStop(a)
  PROVE  CountersRight'
BY HaltCounted DEF AttributeStop, Asked, Command, Continue

LEMMA LeaveCounted ==
  ASSUME Inv, CountersRight, Leave
  PROVE  CountersRight'
BY DEF Leave, Goes, CountersRight, Inv, TypeOK, ThreadOK

\* The other steps of the thread.
LEMMA ThreadCounted ==
  ASSUME Inv, CountersRight, ThreadStep
  PROVE  CountersRight'
<1>1. CASE Leave
  BY <1>1, LeaveCounted
<1>2. CASE ~Leave
  <2>1. UNCHANGED <<listed, running, paused, stopped, numbers>> /\ sub.at # "ended"
    BY <1>2 DEF ThreadStep, Top, Write, LowerRead, Lower, EndRound, Count, Decide, Wait,
         Visit, GetConfig, Subscribe, SubscribeConf, Ask, Note, Failed
  <2> QED BY <2>1, CountersStay
<1> QED BY <1>1, <1>2

-----------------------------------------------------------------------------
(* The theorems *)

LEMMA InitHolds == Init => Inv /\ CountersRight
<1> SUFFICES ASSUME Init PROVE Inv /\ CountersRight
  OBVIOUS
<1> USE DEF Init
<1>1. Cardinality({}) = 0 /\ Cardinality(listed) \in Int
  BY FS_EmptySet, NumberOf
<1>2. CountersRight
  <2>1. running \ stopped = {} /\ paused \ stopped = {} /\ stopped = listed
    OBVIOUS
  <2> QED BY <1>1, <2>1 DEF CountersRight
<1>3. ListOK /\ EventsOK
  BY <1>1 DEF ListOK, EventsOK
<1>4. sub.at = "count" /\ cmd.at = "idle"
  OBVIOUS
<1>5. ThreadOK
  <2>1. sub \in ThreadState
    OBVIOUS
  <2> QED BY <1>4, <2>1 DEF ThreadOK
<1>6. CommandOK
  <2>1. cmd \in CommandState
    OBVIOUS
  <2> QED BY <1>4, <2>1, ArchiverAssumption DEF CommandOK
<1>7. Held
  <2>1. stop = FALSE
    OBVIOUS
  <2>2. (cmd.at \in {"join", "gone"}) = FALSE
    BY <1>4
  <2>3. (running \cup paused) \cap stopped = {}
    OBVIOUS
  <2> QED BY <1>4, <2>1, <2>2, <2>3 DEF Held
<1>8. StoppedIsSilent /\ Accounted
  BY <1>4 DEF StoppedIsSilent, Accounted
<1> QED BY <1>2, <1>3, <1>5, <1>6, <1>7, <1>8 DEF Inv, TypeOK

LEMMA ThreadKeeps == ASSUME Inv, ThreadStep PROVE Inv'
<1> USE DEF ThreadStep
<1>1. CASE Top \/ Write \/ LowerRead \/ Lower
  BY <1>1, TopKeeps, WriteKeeps, LowerReadKeeps, LowerKeeps
<1>2. CASE EndRound \/ Count \/ Decide \/ Wait \/ Leave
  BY <1>2, EndRoundKeeps, CountKeeps, DecideKeeps, WaitKeeps, LeaveKeeps
<1>3. CASE \E a \in Attr : Visit(a)
  BY <1>3, VisitKeeps
<1>4. CASE GetConfig \/ Subscribe \/ SubscribeConf \/ Note \/ Failed
  BY <1>4, GetConfigKeeps, SubscribeKeeps, SubscribeConfKeeps, NoteKeeps, FailedKeeps
<1> QED BY <1>1, <1>2, <1>3, <1>4

LEMMA GoOnKeeps == ASSUME Inv, GoOn PROVE Inv'
<1>1. CASE Load \/ Store \/ Signal \/ UpdateTtl
  BY <1>1, LoadKeeps, StoreKeeps, SignalKeeps, UpdateTtlKeeps
<1>2. CASE Dropped \/ Erase \/ Unneeded \/ Join
  BY <1>2, DroppedKeeps, EraseKeeps, UnneededKeeps, JoinKeeps
<1>3. CASE \E a \in Attr : Start(a) \/ AttributeStop(a)
  BY <1>3, StartKeeps, StopKeeps
<1> QED BY <1>1, <1>2, <1>3 DEF GoOn

LEMMA GoOnCounted == ASSUME Inv, CountersRight, GoOn PROVE CountersRight'
<1>1. CASE Load \/ Store \/ Signal \/ UpdateTtl \/ Unneeded \/ Join
  <2>1. UNCHANGED <<listed, running, paused, stopped, numbers>>
    BY <1>1 DEF Load, Store, Signal, UpdateTtl, Unneeded, Join
  <2>2. sub.at = "ended" => sub'.at = "ended"
    BY <1>1 DEF Load, Store, Signal, UpdateTtl, Unneeded, Join, Woken, Inv, TypeOK, ThreadOK
  <2> QED BY <2>1, <2>2, CountersStay
<1>2. CASE Dropped \/ Erase
  BY <1>2, DroppedCounted, EraseCounted
<1>3. CASE \E a \in Attr : Start(a) \/ AttributeStop(a)
  BY <1>3, StartCounted, StopCounted
<1> QED BY <1>1, <1>2, <1>3 DEF GoOn

\* The commands of clients on an attribute, and what comes for it.
AttributeStep(a) ==
    \/ Event(a) \/ Timeout(a)
    \/ AttributeAdd(a) \/ AttributeRemove(a)
    \/ Start(a) \/ AttributeStop(a) \/ AttributePause(a)
    \/ \E op \in {"strategy", "ttl"} : SetAttribute(op, a)

LEMMA AttributeKeeps ==
  ASSUME Inv, NEW a \in Attr, AttributeStep(a)
  PROVE  Inv'
BY EventKeeps, TimeoutKeeps, AddKeeps, RemoveKeeps, StartKeeps, StopKeeps, PauseKeeps,
   SetKeeps DEF AttributeStep

LEMMA AttributeCounted ==
  ASSUME Inv, CountersRight, NEW a \in Attr, AttributeStep(a)
  PROVE  CountersRight'
<1>1. CASE Event(a) \/ Timeout(a) \/ \E op \in {"strategy", "ttl"} : SetAttribute(op, a)
  <2>1. UNCHANGED <<listed, running, paused, stopped, numbers>>
    BY <1>1 DEF Event, Timeout, SetAttribute
  <2>2. sub.at = "ended" => sub'.at = "ended"
    BY <1>1 DEF Event, Timeout, SetAttribute, Inv, TypeOK, ThreadOK
  <2> QED BY <2>1, <2>2, CountersStay
<1>2. CASE AttributeAdd(a) \/ AttributeRemove(a) \/ AttributePause(a)
  BY <1>2, AddCounted, RemoveCounted, PauseCounted
<1>3. CASE Start(a) \/ AttributeStop(a)
  BY <1>3, StartCounted, StopCounted
<1> QED BY <1>1, <1>2, <1>3 DEF AttributeStep

LEMMA NextHolds == Inv /\ CountersRight /\ [Next]_vars => Inv' /\ CountersRight'
<1> SUFFICES ASSUME Inv, CountersRight, [Next]_vars PROVE Inv' /\ CountersRight'
  OBVIOUS
<1>1. CASE ThreadStep
  BY <1>1, ThreadKeeps, ThreadCounted
<1>2. CASE RetryStep
  <2>1. UNCHANGED <<listed, running, paused, stopped, numbers>> /\ sub.at # "ended"
    BY <1>2 DEF RetryStep, Retry
  <2> QED BY <1>2, <2>1, RetryKeeps, CountersStay DEF RetryStep
<1>3. CASE UseProxy \/ UseCallback
  <2>1. UNCHANGED <<listed, running, paused, stopped, numbers, sub>>
    BY <1>3 DEF UseProxy, UseCallback, UsesDeleted
  <2> QED BY <1>3, <2>1, UseProxyKeeps, UseCallbackKeeps, CountersStay
<1>4. CASE GoOn
  BY <1>4, GoOnKeeps, GoOnCounted
<1>5. CASE Delete
  BY <1>5, DeleteKeeps, DeleteCounted
<1>6. CASE \E a \in Attr : AttributeStep(a)
  BY <1>6, AttributeKeeps, AttributeCounted
<1>7. CASE UNCHANGED vars
  <2>1. UNCHANGED <<listed, running, paused, stopped, numbers, sub>>
    BY <1>7 DEF vars
  <2>2. CountersRight'
    BY <2>1, CountersStay
  <2>3. TypeOK'
    BY <1>7 DEF vars, Inv, TypeOK, ListOK, EventsOK, ThreadOK, CommandOK
  <2>4. Held' /\ StoppedIsSilent' /\ Accounted'
    BY <1>7 DEF vars, Inv, Held, StoppedIsSilent, Accounted
  <2> QED BY <2>2, <2>3, <2>4 DEF Inv
<1> QED BY <1>1, <1>2, <1>3, <1>4, <1>5, <1>6, <1>7 DEF Next, AttributeStep

LEMMA InvHolds == Spec => [](Inv /\ CountersRight)
BY InitHolds, NextHolds, PTL DEF Spec

\* The types, and what the thread may rely on between its steps: the attribute it works
\* on stays listed although commands run (SubscribeThread.cpp, subscribe_events and
\* remove), and the counter action stays within 0..2 although ++ and -- hold no lock
\* (put_signal_property).
THEOREM ArchiverTypeCorrect == Spec => []TypeOK
<1>1. Inv => TypeOK
  BY DEF Inv
<1> QED BY <1>1, InvHolds, PTL

\* stop leaves nothing of a subscription, also one that the thread was making.
THEOREM ArchiverStoppedIsSilent == Spec => []StoppedIsSilent
<1>1. Inv => StoppedIsSilent
  BY DEF Inv
<1> QED BY <1>1, InvHolds, PTL

\* SubscriptionKnown: once subscribe_events is done with an attribute, only a subscription
\* whose second call failed is without its event_id, and only after such a failure is an
\* attribute subscribed again.
THEOREM ArchiverSubscriptionKnown == Spec => []SubscriptionKnown
<1>1. Inv => SubscriptionKnown
  BY DEF Inv, Accounted, Held, SubscriptionKnown
<1> QED BY <1>1, InvHolds, PTL

\* AttributeNumber, AttributeStartedNumber, AttributePausedNumber and
\* AttributeStoppedNumber, which add, start, pause, stop, remove and delete_device each
\* raise and lower, agree with the flags of the attributes.
THEOREM ArchiverCountersRight == Spec => []CountersRight
BY InvHolds, PTL
=============================================================================
