--------------------------- MODULE Starter_proofs ---------------------------
(***************************************************************************)
(* Theorems about Starter, for any number of servers, levels, threads and  *)
(* commands: types, that no level stays behind but for a thread that was not *)
(* created, that the start-up is in order, and that a server at rest stays *)
(* down until a command comes.                                             *)
(***************************************************************************)
EXTENDS Starter, SequenceTheorems, WellFoundedInduction, TLAPS

\* A set of numbers has a least one.
LEMMA LeastNumber ==
  ASSUME NEW S \in SUBSET Nat, S # {}
  PROVE  \E m \in S : \A n \in S : m <= n
<1> DEFINE R == {ss \in Nat \X Nat : ss[1] < ss[2]}
<1>1. IsWellFoundedOn(R, Nat)
  BY NatLessThanWellFounded, Zenon DEF OpToRel
<1>2. PICK m \in S : \A n \in S : ~(<<n, m>> \in R)
  <2> HIDE DEF R
  <2> QED BY <1>1, WFMin, Zenon
<1>3. ASSUME NEW n \in S
      PROVE  m <= n
  <2>1. m \in Nat /\ n \in Nat
    OBVIOUS
  <2>2. n < m => <<n, m>> \in R
    BY <2>1
  <2> QED BY <1>2, <2>1, <2>2
<1> QED BY <1>3

\* Min of FiniteSetsExt.
LEMMA MinIsLeast ==
  ASSUME NEW S \in SUBSET Nat, S # {}
  PROVE  Min(S) \in S /\ \A n \in S : Min(S) <= n
  BY LeastNumber, Zenon DEF Min

\* What remove_level leaves.
LEMMA FirstRemoved ==
  ASSUME NEW S, NEW q \in Seq(S), NEW e
  PROVE  \/ /\ \A i \in 1..Len(q) : q[i] # e
            /\ RemoveFirst(q, e) = q
         \/ \E k \in 1..Len(q) :
               /\ q[k] = e
               /\ RemoveFirst(q, e) \in Seq(S)
               /\ Len(RemoveFirst(q, e)) = Len(q) - 1
               /\ \A i \in 1..Len(q) - 1 :
                     RemoveFirst(q, e)[i] = IF i < k THEN q[i] ELSE q[i + 1]
<1>1. CASE ~ \E i \in 1..Len(q) : q[i] = e
  BY <1>1, Zenon DEF RemoveFirst
<1>2. CASE \E i \in 1..Len(q) : q[i] = e
  <2> DEFINE I == {i \in 1..Len(q) : q[i] = e}
             k == Min(I)
  <2>1. I \in SUBSET Nat /\ I # {}
    BY <1>2
  <2>2. k \in I
    <3> HIDE DEF I
    <3> QED BY <2>1, MinIsLeast
  <2>3. k \in 1..Len(q) /\ q[k] = e
    BY <2>2, Zenon
  <2>4. RemoveFirst(q, e) = SubSeq(q, 1, k - 1) \o SubSeq(q, k + 1, Len(q))
    BY <1>2, <2>1, Zenon DEF RemoveFirst, SelectInSeq, RemoveAt
  <2> HIDE DEF k
  <2> DEFINE a == SubSeq(q, 1, k - 1)
             b == SubSeq(q, k + 1, Len(q))
  <2>5. Len(q) \in Nat /\ \A i \in 1..Len(q) : q[i] \in S
    BY LenProperties, ElementOfSeq
  <2>6. /\ a \in Seq(S) /\ Len(a) = k - 1
        /\ \A i \in 1..k - 1 : a[i] = q[i]
    BY <2>3, <2>5, SubSeqProperties, SMT
  <2>7. /\ b \in Seq(S) /\ Len(b) = Len(q) - k
        /\ \A i \in 1..Len(q) - k : b[i] = q[k + i]
    BY <2>3, <2>5, SubSeqProperties, SMT
  <2> HIDE DEF a, b
  <2>8. /\ a \o b \in Seq(S) /\ Len(a \o b) = Len(q) - 1
        /\ \A i \in 1..Len(q) - 1 : (a \o b)[i] = IF i < k THEN q[i] ELSE q[i + 1]
    <3>1. /\ a \o b \in Seq(S) /\ Len(a \o b) = Len(a) + Len(b)
          /\ \A i \in 1..Len(a) + Len(b) :
                (a \o b)[i] = IF i <= Len(a) THEN a[i] ELSE b[i - Len(a)]
      BY <2>6, <2>7, ConcatProperties
    <3>2. ASSUME NEW i \in 1..Len(q) - 1
          PROVE  (a \o b)[i] = IF i < k THEN q[i] ELSE q[i + 1]
      <4>1. CASE i < k
        BY <2>3, <2>5, <2>6, <2>7, <3>1, <4>1
      <4>2. CASE ~(i < k)
        <5> DEFINE j == i - Len(a)
        <5>1. j \in 1..Len(q) - k /\ k + j = i + 1 /\ ~(i <= Len(a))
          BY <2>3, <2>5, <2>6, <4>2
        <5>2. (a \o b)[i] = b[j]
          BY <2>3, <2>5, <2>6, <2>7, <3>1, <5>1
        <5>3. b[j] = q[k + j]
          BY <2>7, <5>1
        <5> QED BY <5>1, <5>2, <5>3, <4>2
      <4> QED BY <4>1, <4>2
    <3> QED BY <2>3, <2>5, <2>6, <2>7, <3>1, <3>2
  <2> QED BY <2>3, <2>4, <2>8 DEF a, b
<1> QED BY <1>1, <1>2

-----------------------------------------------------------------------------
(* Types *)

\* What a thread begins with is a thread, and one that waits is above the first level.
LEMMA NewThreadType ==
  ASSUME NEW l \in Levels, NEW todo \in SUBSET Server
  PROVE  /\ NewThread(l, todo) \in [level : Levels, phase : Phase, todo : SUBSET Server]
         /\ NewThread(l, todo).level = l
         /\ NewThread(l, todo).phase # "free" /\ NewThread(l, todo).phase # "last"
         /\ NewThread(l, todo).phase = "wait" => l > 1
         /\ NewThread(l, todo).phase = "loop" => ~(l > 1)
  BY DEF NewThread, FirstPhase, Phase

\* The levels of the start-up have their threads, the other slots are free.
LEMMA InitialThreads ==
  ASSUME Init
  PROVE  /\ threads = [t \in Thread |-> threads[t]]
         /\ \A t \in Thread :
               /\ t > Len(levels) => threads[t] = Free
               /\ ~(t > Len(levels)) =>
                     \E todo \in SUBSET Server : threads[t] = NewThread(levels[t], todo)
<1>1. PICK prepared \in SUBSET Down(Server), unborn \in SUBSET (1..NbLevels) :
         threads = [t \in Thread |->
             IF t > Len(levels) THEN Free
             ELSE NewThread(levels[t], {s \in {r \in prepared : Level[r] \notin unborn} :
                                           Level[s] = levels[t]})]
  BY Zenon DEF Init
<1> DEFINE todo(l) == {s \in {r \in prepared : Level[r] \notin unborn} : Level[s] = l}
<1>2. \A l : todo(l) \in SUBSET Server
  BY DEF Down
<1>3. threads = [t \in Thread |-> IF t > Len(levels) THEN Free
                                  ELSE NewThread(levels[t], todo(levels[t]))]
  BY <1>1, Zenon
<1> HIDE DEF todo
<1> QED BY <1>2, <1>3

LEMMA InitType == Init => TypeOK
<1> SUFFICES ASSUME Init
             PROVE  TypeOK
  OBVIOUS
<1>1. PICK n \in 0..NbLevels : levels \in [1..n -> 1..NbLevels]
  BY DEF Init
<1>2. n \in Nat /\ NbLevels \in Nat /\ MaxThreads \in Nat
  BY StarterAssumption
<1>3. levels \in Seq(Levels) /\ Len(levels) = n
  BY <1>1, <1>2 DEF Levels
<1>4. \A t \in Thread : threads[t] \in [level : Levels, phase : Phase, todo : SUBSET Server]
                       /\ (threads[t].phase = "wait" => threads[t].level > 1)
  <2> SUFFICES ASSUME NEW t \in Thread
               PROVE  threads[t] \in [level : Levels, phase : Phase, todo : SUBSET Server]
                      /\ (threads[t].phase = "wait" => threads[t].level > 1)
    OBVIOUS
  <2>1. CASE t > Len(levels)
    <3>1. threads[t] = Free
      BY <2>1, InitialThreads
    <3> QED BY <3>1, <1>2 DEF Free, Levels, Phase
  <2>2. CASE ~(t > Len(levels))
    <3>1. PICK todo \in SUBSET Server : threads[t] = NewThread(levels[t], todo)
      BY <2>2, InitialThreads
    <3>2. levels[t] \in Levels
      BY <1>1, <1>2, <1>3, <2>2 DEF Thread, Levels
    <3> QED BY <3>1, <3>2, NewThreadType
  <2> QED BY <2>1, <2>2
<1>5. threads \in [Thread -> [level : Levels, phase : Phase, todo : SUBSET Server]]
  BY <1>4, InitialThreads
<1>6. /\ proc \in [Server -> Proc]
      /\ ping \in [Server -> DevState] /\ state \in [Server -> DevState]
  BY DEF Init, Proc, Ended, Running, DevState
<1>7. /\ stopped = {} /\ longAgo = {} /\ commands = 0 /\ startAll = FALSE
      /\ trouble = 0 \/ trouble = MaxTrouble
      /\ thwarted \subseteq Down(Server)
  BY DEF Init
<1>8. \A t \in Thread : threads[t].phase = "wait" => threads[t].level > 1
  BY <1>4
<1>9. /\ stopped \subseteq Server /\ longAgo \subseteq Server
      /\ commands \in 0..MaxCommands /\ trouble \in 0..MaxTrouble
  BY <1>7, StarterAssumption
<1>10. startAll \in BOOLEAN
  BY <1>7, Zenon
<1> QED BY <1>3, <1>5, <1>6, <1>7, <1>8, <1>9, <1>10, Zenon DEF TypeOK

\* A slot for the new thread is there.
LEMMA SlotIsFree == Room => Unused \in Thread /\ ~Alive(Unused)
  BY Zenon DEF Room, Unused

LEMMA StartType ==
  ASSUME TypeOK, NEW begun \in SUBSET Server, NEW l \in Levels, StartProcesses(begun, l)
  PROVE  /\ levels' \in Seq(Levels)
         /\ threads' \in [Thread -> [level : Levels, phase : Phase, todo : SUBSET Server]]
         /\ \A t \in Thread : threads'[t].phase = "wait" => threads'[t].level > 1
<1> DEFINE new == NewThread(l, begun)
<1>1. levels' \in Seq(Levels)
  BY AppendProperties DEF TypeOK, StartProcesses
<1>2. /\ new \in [level : Levels, phase : Phase, todo : SUBSET Server]
      /\ new.phase = "wait" => new.level > 1
  BY NewThreadType
<1>3. /\ Unused \in Thread
      /\ threads' = [threads EXCEPT ![Unused] = new]
  BY SlotIsFree DEF StartProcesses
<1> HIDE DEF new
<1> QED BY <1>1, <1>2, <1>3 DEF TypeOK

\* What the attempt to start servers comes to: a thread for some of them, or none.
LEMMA TryOutcome ==
  ASSUME NEW todo \in SUBSET Server, NEW begun, NEW l, TryToStart(todo, begun, l)
  PROVE  /\ begun \in SUBSET Server
         /\ UNCHANGED <<levels, threads>> \/ StartProcesses(begun, l)
         /\ thwarted' = thwarted \cup Down(todo \ begun)
         /\ trouble' = trouble \/ (trouble < MaxTrouble /\ trouble' = trouble + 1)
  BY DEF TryToStart, ComesToNothing

LEMMA TryType ==
  ASSUME TypeOK, NEW todo \in SUBSET Server, NEW begun, NEW l \in Levels,
         TryToStart(todo, begun, l), proc' = proc
  PROVE  /\ levels' \in Seq(Levels)
         /\ threads' \in [Thread -> [level : Levels, phase : Phase, todo : SUBSET Server]]
         /\ \A t \in Thread : threads'[t].phase = "wait" => threads'[t].level > 1
         /\ trouble' \in 0..MaxTrouble /\ thwarted' \subseteq Down(Server)'
<1>1. /\ begun \in SUBSET Server
      /\ UNCHANGED <<levels, threads>> \/ StartProcesses(begun, l)
      /\ thwarted' = thwarted \cup Down(todo \ begun)
      /\ trouble' = trouble \/ (trouble < MaxTrouble /\ trouble' = trouble + 1)
  BY TryOutcome
<1>2. /\ levels' \in Seq(Levels)
      /\ threads' \in [Thread -> [level : Levels, phase : Phase, todo : SUBSET Server]]
      /\ \A t \in Thread : threads'[t].phase = "wait" => threads'[t].level > 1
  BY <1>1, StartType DEF TypeOK
<1>3. trouble' \in 0..MaxTrouble
  BY <1>1, StarterAssumption DEF TypeOK
<1>4. thwarted' \subseteq Down(Server)'
  BY <1>1 DEF TypeOK, Down
<1> QED BY <1>2, <1>3, <1>4

LEMMA StartOneType ==
  ASSUME TypeOK, NEW s \in Server, StartOne(s), proc' = proc
  PROVE  /\ levels' \in Seq(Levels)
         /\ threads' \in [Thread -> [level : Levels, phase : Phase, todo : SUBSET Server]]
         /\ \A t \in Thread : threads'[t].phase = "wait" => threads'[t].level > 1
         /\ trouble' \in 0..MaxTrouble /\ thwarted' \subseteq Down(Server)'
         /\ stopped' \subseteq Server /\ longAgo' \subseteq Server
<1>1. PICK begun \in SUBSET {s} : /\ TryToStart({s}, begun, 0)
                                  /\ stopped' = stopped \ begun /\ longAgo' = longAgo \ begun
  BY DEF StartOne
<1>2. {s} \in SUBSET Server /\ 0 \in Levels
  BY StarterAssumption DEF Levels
<1>3. stopped' \subseteq Server /\ longAgo' \subseteq Server
  BY <1>1 DEF TypeOK
<1> QED BY <1>1, <1>2, <1>3, TryType

LEMMA RemovalType ==
  ASSUME TypeOK, NEW l
  PROVE  WithoutLevel(l) \in Seq(Levels)
  BY FirstRemoved DEF TypeOK, WithoutLevel

\* The vector servers has a first one of those to start.
LEMMA FirstIsOne ==
  ASSUME NEW todo \in SUBSET Server, todo # {}
  PROVE  First(todo) \in todo
<1>1. \E s \in todo : \A r \in todo : Place[s] <= Place[r]
  <2> DEFINE places == {Place[s] : s \in todo}
  <2>1. places \in SUBSET Nat /\ places # {}
    BY StarterAssumption
  <2>2. PICK m \in places : \A n \in places : m <= n
    BY <2>1, LeastNumber
  <2> QED BY <2>2
<1> QED BY <1>1 DEF First

LEMMA ThreadType ==
  ASSUME TypeOK, NEW t \in Thread, ThreadStep(t)
  PROVE  TypeOK'
<1> USE DEF TypeOK, hostVars, serverVars, clientVars, Phase
<1>1. CASE LevelBegins(t)
  BY <1>1 DEF LevelBegins, Down
<1>2. CASE Fork(t)
  <2> DEFINE s == First(threads[t].todo)
  <2>1. \/ /\ proc' = IF proc[s] \in Ended THEN [proc EXCEPT ![s] = "silent"] ELSE proc
           /\ thwarted' = thwarted \ {s} /\ trouble' = trouble
        \/ ComesToNothing({s}) /\ proc' = proc
    BY <1>2 DEF Fork
  <2>2. threads' = [threads EXCEPT ![t].todo = @ \ {s}]
    BY <1>2 DEF Fork
  <2> HIDE DEF s
  <2>3. proc' \in [Server -> Proc]
    BY <2>1 DEF Proc, Running
  <2>4. thwarted' \subseteq Down(Server)' /\ trouble' \in 0..MaxTrouble
    <3>1. CASE ComesToNothing({s}) /\ proc' = proc
      <4>1. First(threads[t].todo) \in Server
        BY <1>2, FirstIsOne DEF Fork
      <4>2. s \in Server
        BY <4>1 DEF s
      <4> QED BY <3>1, <4>2, StarterAssumption DEF ComesToNothing, Down
    <3>2. CASE /\ proc' = IF proc[s] \in Ended THEN [proc EXCEPT ![s] = "silent"] ELSE proc
               /\ thwarted' = thwarted \ {s} /\ trouble' = trouble
      BY <3>2 DEF Down
    <3> QED BY <2>1, <3>1, <3>2
  <2> QED BY <1>2, <2>2, <2>3, <2>4 DEF Fork
<1>3. CASE LoopEnds(t)
  <2>1. thwarted' \subseteq Down(Server)'
    BY <1>3 DEF LoopEnds, Down
  <2> QED BY <1>3, <2>1 DEF LoopEnds
<1>4. CASE ThreadEnds(t)
  <2>1. levels' \in Seq(Levels)
    BY <1>4, RemovalType DEF ThreadEnds
  <2>2. Free \in [level : Levels, phase : Phase, todo : SUBSET Server]
    BY StarterAssumption DEF Free, Levels
  <2>3. thwarted' \subseteq Down(Server)'
    BY <1>4 DEF ThreadEnds, Down
  <2> QED BY <1>4, <2>1, <2>2, <2>3 DEF ThreadEnds, Free
<1> QED BY <1>1, <1>2, <1>3, <1>4 DEF ThreadStep

LEMMA NextType == TypeOK /\ [Next]_vars => TypeOK'
<1> SUFFICES ASSUME TypeOK, [Next]_vars
             PROVE  TypeOK'
  OBVIOUS
<1>0. CASE UNCHANGED vars
  BY <1>0 DEF TypeOK, vars, hostVars, serverVars, startVars, clientVars, Down
<1>1. ASSUME NEW s \in Server,
             Answers(s) \/ Hangs(s) \/ Fails(s) \/ TimePasses(s) \/ \E late \in BOOLEAN : Ping(s, late)
      PROVE  TypeOK'
  <2> USE DEF TypeOK, hostVars, serverVars, startVars, clientVars, Down
  <2>1. CASE Answers(s)
    BY <2>1 DEF Answers, Proc, Running, Ended
  <2>2. CASE Hangs(s)
    BY <2>2, StarterAssumption DEF Hangs, Proc, Running, Ended
  <2>3. CASE Fails(s)
    BY <2>3, StarterAssumption DEF Fails, Proc, Ended
  <2>4. CASE TimePasses(s)
    BY <2>4 DEF TimePasses
  <2>5. CASE \E late \in BOOLEAN : Ping(s, late)
    BY <2>5 DEF Ping, DevState
  <2> QED BY <1>1, <2>1, <2>2, <2>3, <2>4, <2>5
<1>2. ASSUME NEW s \in Server, ReadServer(s)
      PROVE  TypeOK'
  <2>1. /\ state' = [state EXCEPT ![s] = ping[s]]
        /\ UNCHANGED <<proc, ping, clientVars>>
    BY <1>2 DEF ReadServer
  <2>2. CASE Restarts(s)
    <3>1. StartOne(s)
      BY <1>2, <2>2 DEF ReadServer
    <3> QED BY <2>1, <3>1, StartOneType DEF TypeOK, clientVars
  <2>3. CASE ~Restarts(s)
    <3>1. longAgo' \subseteq Server /\ UNCHANGED <<startVars, stopped, trouble>>
      BY <1>2, <2>3 DEF ReadServer, TypeOK
    <3> QED BY <2>1, <3>1 DEF TypeOK, clientVars, startVars, Down
  <2> QED BY <2>2, <2>3
<1>3. ASSUME NEW s \in Server, DevStart(s)
      PROVE  TypeOK'
  <2>1. /\ StartOne(s) /\ commands' \in 0..MaxCommands
        /\ UNCHANGED <<proc, ping, state, startAll>>
    BY <1>3, StarterAssumption DEF DevStart, Called, TypeOK
  <2> QED BY <2>1, StartOneType DEF TypeOK
<1>4. ASSUME NEW s \in Server, DevStop(s)
      PROVE  TypeOK'
  BY <1>4, StarterAssumption DEF DevStop, Called, TypeOK, startVars, Proc, Ended, Down
<1>5. ASSUME NEW l \in Levels, DevStartAll(l)
      PROVE  TypeOK'
  <2>1. PICK begun : TryToStart(ToStart(l), begun, l)
    BY <1>5 DEF DevStartAll
  <2>2. ToStart(l) \in SUBSET Server
    BY DEF ToStart
  <2>3. /\ commands' \in 0..MaxCommands /\ startAll' = TRUE
        /\ UNCHANGED <<proc, ping, serverVars>>
    BY <1>5, StarterAssumption DEF DevStartAll, Called, TypeOK
  <2> QED BY <2>1, <2>2, <2>3, TryType DEF TypeOK, serverVars
<1>6. ASSUME NEW l \in Levels, DevStopAll(l)
      PROVE  TypeOK'
  <2>1. levels' \in Seq(Levels)
    BY <1>6, RemovalType DEF DevStopAll
  <2>2. proc' \in [Server -> Proc] /\ \A s \in Server : proc[s] \in Ended => proc'[s] \in Ended
    BY <1>6 DEF DevStopAll, TypeOK, Proc, Ended
  <2>3. StopsAt(l) \subseteq Server
    BY DEF StopsAt, FoundUp
  <2>4. thwarted' \subseteq Down(Server)'
    BY <1>6, <2>2 DEF DevStopAll, TypeOK, Down
  <2> QED BY <1>6, <2>1, <2>2, <2>3, <2>4, StarterAssumption DEF DevStopAll, Called, TypeOK
<1>7. ASSUME NEW t \in Thread, ThreadStep(t)
      PROVE  TypeOK'
  BY <1>7, ThreadType
<1> QED BY <1>0, <1>1, <1>2, <1>3, <1>4, <1>5, <1>6, <1>7 DEF Next

\* Processes, states, levels and threads stay in their ranges, and only a thread of
\* a level above the first ever waits.
THEOREM StarterTypeCorrect == Spec => []TypeOK
  BY InitType, NextType, PTL DEF Spec

-----------------------------------------------------------------------------
(* The levels and their threads *)

\* owner gives each level announced a thread of its own.
Owners(owner) ==
    /\ owner \in [1..Len(levels) -> Thread]
    /\ \A i \in 1..Len(levels) : Alive(owner[i]) /\ threads[owner[i]].level = levels[i]
    /\ \A i, j \in 1..Len(levels) : owner[i] = owner[j] => i = j

LEMMA OwnersAreWitness == LevelsOwned <=> \E owner : Owners(owner)
  BY Zenon DEF LevelsOwned, Owners

LEMMA InitialOwners == Init => LevelsOwned
<1> SUFFICES ASSUME Init
             PROVE  LevelsOwned
  OBVIOUS
<1> DEFINE owner == [i \in 1..Len(levels) |-> i]
<1>1. PICK n \in 0..NbLevels : levels \in [1..n -> 1..NbLevels]
  BY DEF Init
<1>2. Len(levels) = n /\ n \in Nat
  BY <1>1, StarterAssumption
<1>3. \A i \in 1..Len(levels) : i \in Thread
  BY <1>2, StarterAssumption DEF Thread
<1>4. ASSUME NEW i \in 1..Len(levels)
      PROVE  Alive(i) /\ threads[i].level = levels[i]
  <2>1. i \in Thread /\ ~(i > Len(levels))
    BY <1>2, <1>3
  <2>2. PICK todo \in SUBSET Server : threads[i] = NewThread(levels[i], todo)
    BY <2>1, InitialThreads
  <2>3. levels[i] \in Levels
    BY <1>1, <1>2, StarterAssumption DEF Levels
  <2> QED BY <2>2, <2>3, NewThreadType DEF Alive
<1>5. \A i \in 1..Len(levels) : Alive(owner[i]) /\ threads[owner[i]].level = levels[i]
  BY <1>4
<1>6. owner \in [1..Len(levels) -> Thread] /\ \A i, j \in 1..Len(levels) : owner[i] = owner[j] => i = j
  BY <1>3
<1> HIDE DEF owner
<1> QED BY <1>5, <1>6, OwnersAreWitness DEF Owners

\* A step that removes nothing and ends no thread.
LEMMA OwnersKept ==
  ASSUME LevelsOwned, levels' = levels,
         \A t \in Thread : Alive(t) => Alive(t)' /\ threads'[t].level = threads[t].level
  PROVE  LevelsOwned'
<1>1. PICK owner : Owners(owner)
  BY OwnersAreWitness
<1> QED BY <1>1 DEF Owners, LevelsOwned

LEMMA OwnersAfterStart ==
  ASSUME TypeOK, LevelsOwned, NEW begun \in SUBSET Server, NEW l \in Levels,
         StartProcesses(begun, l)
  PROVE  LevelsOwned'
<1>1. PICK owner : Owners(owner)
  BY OwnersAreWitness
<1> DEFINE n == Len(levels)
           u == Unused
           new == [i \in 1..n + 1 |-> IF i = n + 1 THEN u ELSE owner[i]]
<1>2. /\ n \in Nat /\ Len(levels') = n + 1
      /\ \A i \in 1..n : levels'[i] = levels[i]
      /\ levels'[n + 1] = l
  BY AppendProperties, LenProperties DEF TypeOK, StartProcesses
<1>3. u \in Thread /\ ~Alive(u)
  BY SlotIsFree DEF StartProcesses
<1>4. /\ threads'[u] = NewThread(l, begun)
      /\ \A t \in Thread : t # u => threads'[t] = threads[t]
  BY <1>3, Zenon DEF StartProcesses, TypeOK
<1> HIDE DEF u
<1>5. \A i \in 1..n : owner[i] \in Thread /\ owner[i] # u
  BY <1>1, <1>3 DEF Owners
<1>6. /\ new \in [1..Len(levels') -> Thread]
      /\ \A i, j \in 1..Len(levels') : new[i] = new[j] => i = j
  BY <1>1, <1>2, <1>3, <1>5 DEF Owners
<1>7. ASSUME NEW i \in 1..Len(levels')
      PROVE  threads'[new[i]].phase # "free" /\ threads'[new[i]].level = levels'[i]
  <2>1. CASE i = n + 1
    <3>1. new[i] = u /\ levels'[i] = l
      BY <2>1, <1>2
    <3>2. threads'[u].phase # "free" /\ threads'[u].level = l
      BY <1>4, NewThreadType
    <3> QED BY <3>1, <3>2, Zenon
  <2>2. CASE i # n + 1
    <3>1. i \in 1..n /\ new[i] = owner[i]
      BY <2>2, <1>2
    <3> QED BY <3>1, <1>1, <1>2, <1>4, <1>5 DEF Owners, Alive
  <2> QED BY <2>1, <2>2
<1> HIDE DEF new
<1> QED BY <1>6, <1>7, Zenon DEF LevelsOwned, Alive

\* The level at k is gone.
GoneAt(k) ==
    /\ Len(levels') = Len(levels) - 1
    /\ \A i \in 1..Len(levels) - 1 : levels'[i] = IF i < k THEN levels[i] ELSE levels[i + 1]

OnlyMoves(t) == \A s \in Thread : s # t => threads'[s] = threads[s]

\* What a step that removes a level does.
LEMMA LevelRemoved ==
  ASSUME TypeOK, NEW l, levels' = WithoutLevel(l)
  PROVE  \/ levels' = levels /\ \A i \in 1..Len(levels) : levels[i] # l
         \/ \E k \in 1..Len(levels) : levels[k] = l /\ GoneAt(k)
<1>1. levels \in Seq(Levels) /\ levels' = RemoveFirst(levels, l)
  BY DEF TypeOK, WithoutLevel
<1>2. CASE levels' = levels /\ \A i \in 1..Len(levels) : levels[i] # l
  BY <1>2
<1>3. CASE \E k \in 1..Len(levels) :
               /\ levels[k] = l
               /\ RemoveFirst(levels, l) \in Seq(Levels)
               /\ Len(RemoveFirst(levels, l)) = Len(levels) - 1
               /\ \A i \in 1..Len(levels) - 1 :
                     RemoveFirst(levels, l)[i] = IF i < k THEN levels[i] ELSE levels[i + 1]
  BY <1>1, <1>3 DEF GoneAt
<1> QED BY <1>1, <1>2, <1>3, FirstRemoved

\* A thread that owns nothing may have ended.
LEMMA OwnersUnmoved ==
  ASSUME NEW owner, Owners(owner), levels' = levels,
         \A i \in 1..Len(levels) : threads'[owner[i]] = threads[owner[i]]
  PROVE  LevelsOwned'
  BY DEF Owners, LevelsOwned, Alive

\* A thread t that has ended passes its own entry, if it is
\* another one of that level, on to the thread that owned k.
LEMMA OwnersAfterRemoval ==
  ASSUME TypeOK, NEW owner, Owners(owner), NEW t, NEW k \in 1..Len(levels),
         \A i \in 1..Len(levels) : owner[i] = t => levels[i] = levels[k],
         GoneAt(k), OnlyMoves(t)
  PROVE  LevelsOwned'
<1> USE DEF GoneAt, OnlyMoves
<1> DEFINE n == Len(levels)
           swapped == [i \in 1..n |-> IF owner[i] = t THEN owner[k] ELSE owner[i]]
           at(i) == IF i < k THEN i ELSE i + 1
           new == [i \in 1..n - 1 |-> swapped[at(i)]]
<1>1. n \in Nat
  BY LenProperties DEF TypeOK
<1>2. ASSUME NEW i \in 1..n, i # k
      PROVE  /\ swapped[i] \in Thread /\ swapped[i] # t
             /\ Alive(swapped[i]) /\ threads[swapped[i]].level = levels[i]
  <2>1. k \in 1..n /\ i \in 1..n /\ owner[i] \in Thread /\ owner[k] \in Thread
    BY <1>2 DEF Owners
  <2>2. CASE owner[i] = t
    <3>1. owner[k] # t /\ levels[i] = levels[k]
      BY <2>1, <2>2, <1>2 DEF Owners
    <3> QED BY <2>1, <2>2, <3>1 DEF Owners
  <2>3. CASE owner[i] # t
    BY <2>1, <2>3 DEF Owners
  <2> QED BY <2>2, <2>3
<1>3. ASSUME NEW i \in 1..n, NEW j \in 1..n, i # k, j # k, swapped[i] = swapped[j]
      PROVE  i = j
  BY <1>3 DEF Owners
<1> HIDE DEF swapped
<1>4. \A i \in 1..n - 1 : at(i) \in 1..n /\ at(i) # k
  BY <1>1
<1>5. \A i, j \in 1..n - 1 : at(i) = at(j) => i = j
  BY <1>1
<1>6. \A i \in 1..n - 1 : levels'[i] = levels[at(i)]
  BY <1>1
<1> HIDE DEF at
<1>7. /\ new \in [1..n - 1 -> Thread]
      /\ \A i, j \in 1..n - 1 : new[i] = new[j] => i = j
  BY <1>2, <1>3, <1>4, <1>5
<1>8. ASSUME NEW i \in 1..n - 1
      PROVE  threads'[new[i]].phase # "free" /\ threads'[new[i]].level = levels'[i]
  <2>1. /\ new[i] = swapped[at(i)] /\ new[i] \in Thread /\ new[i] # t
        /\ Alive(new[i]) /\ threads[new[i]].level = levels[at(i)]
    BY <1>2, <1>4
  <2> HIDE DEF new
  <2>2. threads'[new[i]] = threads[new[i]]
    BY <2>1
  <2>3. levels'[i] = levels[at(i)]
    BY <1>6
  <2> QED BY <2>1, <2>2, <2>3, Zenon DEF Alive
<1> HIDE DEF new
<1>9. Len(levels') = n - 1
  OBVIOUS
<1> HIDE DEF n
<1>10. /\ new \in [1..Len(levels') -> Thread]
       /\ \A i, j \in 1..Len(levels') : new[i] = new[j] => i = j
  BY <1>7, <1>9, Zenon
<1>11. \A i \in 1..Len(levels') :
          threads'[new[i]].phase # "free" /\ threads'[new[i]].level = levels'[i]
  BY <1>8, <1>9, Zenon
<1> QED BY <1>10, <1>11, Zenon DEF LevelsOwned, Alive

LEMMA OwnersAfterThreadStep ==
  ASSUME TypeOK, LevelsOwned, NEW t \in Thread, ThreadStep(t)
  PROVE  LevelsOwned'
<1>1. CASE LevelBegins(t)
  <2>1. /\ levels' = levels
        /\ threads' = [threads EXCEPT ![t].phase = "loop"]
    BY <1>1 DEF LevelBegins
  <2> QED BY <2>1, OwnersKept DEF TypeOK, Alive
<1>2. CASE Fork(t)
  <2>1. levels' = levels
    BY <1>2 DEF Fork
  <2>2. \A s \in Thread : threads'[s].phase = threads[s].phase /\ threads'[s].level = threads[s].level
    BY <1>2 DEF Fork, TypeOK
  <2> QED BY <2>1, <2>2, OwnersKept DEF Alive
<1>3. CASE LoopEnds(t)
  <2>1. /\ levels' = levels
        /\ threads' = [threads EXCEPT ![t].phase = "last"]
    BY <1>3 DEF LoopEnds
  <2> QED BY <2>1, OwnersKept DEF TypeOK, Alive
<1>4. CASE ThreadEnds(t)
  <2> DEFINE l == threads[t].level
  <2>1. PICK owner : Owners(owner)
    BY OwnersAreWitness
  <2>2. levels' = WithoutLevel(l) /\ OnlyMoves(t)
    BY <1>4 DEF ThreadEnds, TypeOK, OnlyMoves
  <2>3. \A i \in 1..Len(levels) : owner[i] \in Thread /\ (owner[i] = t => levels[i] = l)
    BY <2>1 DEF Owners
  <2> HIDE DEF l
  <2>4. CASE levels' = levels /\ \A i \in 1..Len(levels) : levels[i] # l
    <3>1. \A i \in 1..Len(levels) : threads'[owner[i]] = threads[owner[i]]
      BY <2>2, <2>3, <2>4 DEF OnlyMoves
    <3> QED BY <2>1, <2>4, <3>1, OwnersUnmoved
  <2>5. ASSUME NEW k \in 1..Len(levels), levels[k] = l, GoneAt(k)
        PROVE  LevelsOwned'
    <3>1. \A i \in 1..Len(levels) : owner[i] = t => levels[i] = levels[k]
      BY <2>3, <2>5
    <3> QED BY <2>1, <2>2, <2>5, <3>1, OwnersAfterRemoval
  <2> QED BY <2>2, <2>4, <2>5, LevelRemoved
<1> QED BY <1>1, <1>2, <1>3, <1>4 DEF ThreadStep

LEMMA OwnersAfterStop ==
  ASSUME TypeOK, LevelsOwned, NEW l, levels' = WithoutLevel(l), threads' = threads
  PROVE  LevelsOwned'
<1>1. PICK owner : Owners(owner)
  BY OwnersAreWitness
<1>2. CASE levels' = levels
  BY <1>1, <1>2, OwnersUnmoved
\* Nobody has ended: the thread that owned k stands for the one that has.
<1>3. ASSUME NEW k \in 1..Len(levels), GoneAt(k)
      PROVE  LevelsOwned'
  <2>1. \A i \in 1..Len(levels) : owner[i] = owner[k] => levels[i] = levels[k]
    BY <1>1 DEF Owners
  <2>2. OnlyMoves(owner[k])
    BY DEF OnlyMoves
  <2> QED BY <1>1, <1>3, <2>1, <2>2, OwnersAfterRemoval
<1> QED BY <1>2, <1>3, LevelRemoved

LEMMA OwnersAfterTry ==
  ASSUME TypeOK, LevelsOwned, NEW todo \in SUBSET Server, NEW begun, NEW l \in Levels,
         TryToStart(todo, begun, l)
  PROVE  LevelsOwned'
<1>1. begun \in SUBSET Server /\ (UNCHANGED <<levels, threads>> \/ StartProcesses(begun, l))
  BY TryOutcome
<1>2. CASE UNCHANGED <<levels, threads>>
  BY <1>2, OwnersKept DEF Alive
<1>3. CASE StartProcesses(begun, l)
  BY <1>1, <1>3, OwnersAfterStart
<1> QED BY <1>1, <1>2, <1>3

LEMMA OwnersAfterStartOne ==
  ASSUME TypeOK, LevelsOwned, NEW s \in Server, StartOne(s)
  PROVE  LevelsOwned'
<1>1. {s} \in SUBSET Server /\ 0 \in Levels
  BY StarterAssumption DEF Levels
<1> QED BY <1>1, OwnersAfterTry DEF StartOne

LEMMA OwnersStep == TypeOK /\ LevelsOwned /\ [Next]_vars => LevelsOwned'
<1> SUFFICES ASSUME TypeOK, LevelsOwned, [Next]_vars
             PROVE  LevelsOwned'
  OBVIOUS
<1>1. CASE UNCHANGED startVars
  BY <1>1, OwnersKept DEF startVars, Alive
<1>2. ASSUME NEW s \in Server, ReadServer(s)
      PROVE  LevelsOwned'
  <2>1. CASE Restarts(s)
    BY <1>2, <2>1, OwnersAfterStartOne DEF ReadServer
  <2>2. CASE ~Restarts(s)
    BY <1>1, <1>2, <2>2 DEF ReadServer
  <2> QED BY <2>1, <2>2
<1>3. ASSUME NEW s \in Server, DevStart(s)
      PROVE  LevelsOwned'
  BY <1>3, OwnersAfterStartOne DEF DevStart
<1>4. ASSUME NEW l \in Levels, DevStartAll(l)
      PROVE  LevelsOwned'
  <2>1. PICK begun : TryToStart(ToStart(l), begun, l)
    BY <1>4 DEF DevStartAll
  <2>2. ToStart(l) \in SUBSET Server
    BY DEF ToStart
  <2> QED BY <2>1, <2>2, OwnersAfterTry
<1>5. ASSUME NEW l \in Levels, DevStopAll(l)
      PROVE  LevelsOwned'
  BY <1>5, OwnersAfterStop DEF DevStopAll
<1>6. ASSUME NEW t \in Thread, ThreadStep(t)
      PROVE  LevelsOwned'
  BY <1>6, OwnersAfterThreadStep
<1>7. ASSUME NEW s \in Server,
             \/ Answers(s) \/ Hangs(s) \/ Fails(s) \/ TimePasses(s)
             \/ (\E late \in BOOLEAN : Ping(s, late)) \/ DevStop(s)
      PROVE  UNCHANGED startVars
  BY <1>7, Zenon DEF Answers, Hangs, Fails, TimePasses, Ping, DevStop
<1>8. CASE UNCHANGED vars
  BY <1>1, <1>8 DEF vars
<1> QED BY <1>1, <1>2, <1>3, <1>4, <1>5, <1>6, <1>7, <1>8 DEF Next

\* All the levels announced have each a thread of its own that removes it, or one that
\* could not be created.
THEOREM LevelsOwnedTheorem == Spec => []LevelsOwned
<1>1. Init => TypeOK /\ LevelsOwned
  BY InitType, InitialOwners
<1>2. TypeOK /\ LevelsOwned /\ [Next]_vars => (TypeOK /\ LevelsOwned)'
  BY NextType, OwnersStep
<1> QED BY <1>1, <1>2, PTL DEF Spec

-----------------------------------------------------------------------------
(* The start-up is in order *)

\* The levels stand in their order, with single servers among them: what makes the
\* first of them the lowest.
LevelsAscend ==
    ~startAll => \A i, j \in 1..Len(levels) :
                    i < j /\ levels[i] # 0 /\ levels[j] # 0 => levels[i] < levels[j]

OrderInv == TypeOK /\ LevelsAscend /\ LevelsInOrder

LEMMA InitialOrder == Init => OrderInv
<1> SUFFICES ASSUME Init
             PROVE  LevelsAscend /\ LevelsInOrder
  BY InitType DEF OrderInv
<1>1. TypeOK
  BY InitType
<1>2. LevelsAscend
  BY DEF Init, LevelsAscend
<1>3. ASSUME NEW t \in Thread, threads[t].phase = "loop"
      PROVE  ~(threads[t].level > 1)
  <2>1. ~(t > Len(levels))
    BY <1>3, InitialThreads DEF Free
  <2>2. PICK todo \in SUBSET Server : threads[t] = NewThread(levels[t], todo)
    BY <2>1, InitialThreads
  <2>3. levels[t] \in Levels
    <3>1. Len(levels) \in Nat /\ t \in 1..Len(levels)
      BY <1>1, <2>1, StarterAssumption, LenProperties DEF TypeOK, Thread
    <3> QED BY <1>1, <3>1, ElementOfSeq DEF TypeOK
  <2> QED BY <1>3, <2>2, <2>3, NewThreadType
<1>4. LevelsInOrder
  <2> SUFFICES ASSUME NEW t \in Thread, threads[t].phase = "loop",
                      NEW l \in 1..threads[t].level - 1
               PROVE  FALSE
    BY DEF LevelsInOrder
  <2>1. threads[t].level \in Nat
    BY <1>1, StarterAssumption DEF TypeOK, Levels
  <2> QED BY <1>3, <2>1
<1> QED BY <1>2, <1>4

\* No level comes, and no thread but one at or below the first begins.
LEMMA OrderKept ==
  ASSUME OrderInv, levels' = levels, startAll' = startAll,
         \A t \in Thread : threads'[t].phase = "loop" =>
             threads[t].phase = "loop" /\ threads'[t].level = threads[t].level
  PROVE  (LevelsAscend /\ LevelsInOrder)'
  BY DEF OrderInv, LevelsAscend, LevelsInOrder, LevelIsStillActive

LEMMA OrderAfterRemoval ==
  ASSUME OrderInv, NEW l, levels' = WithoutLevel(l), startAll' = startAll,
         \A t \in Thread : threads'[t].phase = "loop" => threads'[t] = threads[t]
  PROVE  (LevelsAscend /\ LevelsInOrder)'
<1> USE DEF OrderInv
<1>1. CASE levels' = levels
  <2>1. \A t \in Thread : threads'[t].phase = "loop" =>
           threads[t].phase = "loop" /\ threads'[t].level = threads[t].level
    OBVIOUS
  <2> QED BY <1>1, <2>1, OrderKept
<1>2. ASSUME NEW k \in 1..Len(levels), GoneAt(k)
      PROVE  (LevelsAscend /\ LevelsInOrder)'
  <2>1. Len(levels) \in Nat /\ \A i \in 1..Len(levels) : levels[i] \in Nat
    BY StarterAssumption, LenProperties, ElementOfSeq DEF TypeOK, Levels
  <2> DEFINE at(i) == IF i < k THEN i ELSE i + 1
  <2>2. /\ \A i \in 1..Len(levels') : at(i) \in 1..Len(levels) /\ levels'[i] = levels[at(i)]
        /\ \A i, j \in 1..Len(levels') : i < j => at(i) < at(j)
    BY <1>2, <2>1 DEF GoneAt
  <2> HIDE DEF at
  <2>3. LevelsAscend'
    BY <2>2 DEF LevelsAscend
  <2>4. \A m : LevelIsStillActive(m)' => LevelIsStillActive(m)
    BY <2>2 DEF LevelIsStillActive
  <2>5. LevelsInOrder'
    BY <2>4 DEF LevelsInOrder
  <2> QED BY <2>3, <2>5
<1> QED BY <1>1, <1>2, LevelRemoved

\* A single server is started: that is level 0.
LEMMA OrderAfterStart ==
  ASSUME OrderInv, NEW begun \in SUBSET Server, StartProcesses(begun, 0), startAll' = startAll
  PROVE  (LevelsAscend /\ LevelsInOrder)'
<1> USE DEF OrderInv
<1> DEFINE n == Len(levels)
<1>1. /\ n \in Nat /\ Len(levels') = n + 1
      /\ \A i \in 1..n : levels'[i] = levels[i] /\ levels[i] \in Nat
      /\ levels'[n + 1] = 0
  BY AppendProperties, LenProperties, ElementOfSeq, StarterAssumption
     DEF TypeOK, StartProcesses, Levels
<1>2. /\ Unused \in Thread
      /\ threads'[Unused].level = 0
      /\ \A t \in Thread : t # Unused => threads'[t] = threads[t]
  <2>1. Unused \in Thread
    BY SlotIsFree DEF StartProcesses
  <2> DEFINE new == NewThread(0, begun)
  <2>2. threads' = [threads EXCEPT ![Unused] = new] /\ new.level = 0
    BY DEF StartProcesses, NewThread
  <2> HIDE DEF new
  <2> QED BY <2>1, <2>2 DEF TypeOK
<1>3. LevelsAscend'
  BY <1>1 DEF LevelsAscend
<1>4. \A m : m # 0 /\ LevelIsStillActive(m)' => LevelIsStillActive(m)
  BY <1>1 DEF LevelIsStillActive
<1>5. LevelsInOrder'
  <2> SUFFICES ASSUME ~startAll', NEW t \in Thread, threads'[t].phase = "loop",
                      LevelIsStillActive(threads[t].level)',
                      NEW l \in 1..threads'[t].level - 1, LevelIsStillActive(l)'
               PROVE  FALSE
    BY DEF LevelsInOrder
  <2>1. t # Unused /\ threads'[t] = threads[t]
    BY <1>2
  <2>2. threads[t].level \in Nat /\ l # 0 /\ threads[t].level # 0
    BY <2>1, StarterAssumption DEF TypeOK, Levels
  <2> QED BY <1>4, <2>1, <2>2 DEF LevelsInOrder
<1> QED BY <1>3, <1>5

LEMMA OrderAfterStartOne ==
  ASSUME OrderInv, NEW s \in Server, StartOne(s), startAll' = startAll
  PROVE  (LevelsAscend /\ LevelsInOrder)'
<1>1. PICK begun : TryToStart({s}, begun, 0)
  BY DEF StartOne
<1>2. begun \in SUBSET Server /\ (UNCHANGED <<levels, threads>> \/ StartProcesses(begun, 0))
  BY <1>1, TryOutcome
<1>3. CASE UNCHANGED <<levels, threads>>
  BY <1>3, OrderKept
<1>4. CASE StartProcesses(begun, 0)
  BY <1>2, <1>4, OrderAfterStart
<1> QED BY <1>2, <1>3, <1>4

\* The level that comes first among the levels is the lowest of them.
LEMMA OrderAfterBegin ==
  ASSUME OrderInv, NEW t \in Thread, LevelBegins(t)
  PROVE  (LevelsAscend /\ LevelsInOrder)'
<1> USE DEF OrderInv
<1>1. /\ levels' = levels /\ startAll' = startAll
      /\ threads' = [threads EXCEPT ![t].phase = "loop"]
      /\ threads[t].phase = "wait"
  BY DEF LevelBegins, clientVars
<1>2. LevelsAscend'
  BY <1>1 DEF LevelsAscend
<1>3. LevelsInOrder'
  <2> SUFFICES ASSUME ~startAll, NEW s \in Thread, threads'[s].phase = "loop",
                      LevelIsStillActive(threads'[s].level),
                      NEW l \in 1..threads'[s].level - 1, LevelIsStillActive(l)
               PROVE  FALSE
    BY <1>1 DEF LevelsInOrder, LevelIsStillActive
  <2>1. threads'[s].level = threads[s].level
    BY <1>1 DEF TypeOK
  <2>2. CASE s # t
    BY <1>1, <2>1, <2>2 DEF LevelsInOrder, TypeOK
  <2>3. CASE s = t
    <3>1. levels # <<>> /\ Head(levels) = threads[t].level
      BY <2>1, <2>3 DEF LevelBegins
    <3>2. levels[1] = threads[t].level /\ Len(levels) \in Nat /\ 1 \in 1..Len(levels)
      BY <3>1, LenProperties, EmptySeq DEF TypeOK
    <3>3. PICK i \in 1..Len(levels) : levels[i] = l
      BY DEF LevelIsStillActive
    <3>4. threads[t].level \in Nat /\ l # 0 /\ l < threads[t].level
      BY <2>1, <2>3, StarterAssumption DEF TypeOK, Levels
    <3>5. i # 1
      BY <3>2, <3>3, <3>4
    <3>6. 1 < i /\ levels[1] # 0 /\ levels[i] # 0
      BY <3>2, <3>3, <3>4, <3>5
    <3>7. levels[1] < levels[i]
      BY <3>2, <3>6 DEF LevelsAscend
    <3> QED BY <3>2, <3>3, <3>4, <3>7
  <2> QED BY <2>2, <2>3
<1> QED BY <1>2, <1>3

LEMMA OrderAfterThreadStep ==
  ASSUME OrderInv, NEW t \in Thread, ThreadStep(t)
  PROVE  (LevelsAscend /\ LevelsInOrder)'
<1> USE DEF clientVars
<1>1. CASE LevelBegins(t)
  BY <1>1, OrderAfterBegin
<1>2. CASE Fork(t)
  BY <1>2, OrderKept DEF Fork, OrderInv, TypeOK
<1>3. CASE LoopEnds(t)
  BY <1>3, OrderKept DEF LoopEnds, OrderInv, TypeOK
<1>4. CASE ThreadEnds(t)
  <2>1. \A s \in Thread : threads'[s].phase = "loop" => threads'[s] = threads[s]
    BY <1>4 DEF ThreadEnds, Free, OrderInv, TypeOK
  <2> QED BY <1>4, <2>1, OrderAfterRemoval DEF ThreadEnds
<1> QED BY <1>1, <1>2, <1>3, <1>4 DEF ThreadStep

LEMMA OrderStep == OrderInv /\ [Next]_vars => OrderInv'
<1> SUFFICES ASSUME OrderInv, [Next]_vars
             PROVE  (LevelsAscend /\ LevelsInOrder)'
  BY NextType DEF OrderInv
<1>1. CASE UNCHANGED <<startVars, startAll>>
  BY <1>1, OrderKept DEF startVars
<1>2. ASSUME NEW s \in Server, ReadServer(s)
      PROVE  (LevelsAscend /\ LevelsInOrder)'
  <2>1. startAll' = startAll
    BY <1>2 DEF ReadServer, clientVars
  <2>2. CASE Restarts(s)
    BY <1>2, <2>1, <2>2, OrderAfterStartOne DEF ReadServer
  <2>3. CASE ~Restarts(s)
    BY <1>1, <1>2, <2>1, <2>3 DEF ReadServer
  <2> QED BY <2>2, <2>3
<1>3. ASSUME NEW s \in Server, DevStart(s)
      PROVE  (LevelsAscend /\ LevelsInOrder)'
  BY <1>3, OrderAfterStartOne DEF DevStart
\* From now on nothing is said of the order.
<1>4. ASSUME NEW l \in Levels, DevStartAll(l)
      PROVE  (LevelsAscend /\ LevelsInOrder)'
  BY <1>4 DEF DevStartAll, LevelsAscend, LevelsInOrder
<1>5. ASSUME NEW l \in Levels, DevStopAll(l)
      PROVE  (LevelsAscend /\ LevelsInOrder)'
  BY <1>5, OrderAfterRemoval DEF DevStopAll
<1>6. ASSUME NEW t \in Thread, ThreadStep(t)
      PROVE  (LevelsAscend /\ LevelsInOrder)'
  BY <1>6, OrderAfterThreadStep
<1>7. ASSUME NEW s \in Server,
             \/ Answers(s) \/ Hangs(s) \/ Fails(s) \/ TimePasses(s)
             \/ (\E late \in BOOLEAN : Ping(s, late)) \/ DevStop(s)
      PROVE  UNCHANGED <<startVars, startAll>>
  BY <1>7 DEF Answers, Hangs, Fails, TimePasses, Ping, DevStop, clientVars
<1>8. CASE UNCHANGED vars
  BY <1>1, <1>8 DEF vars, clientVars
<1> QED BY <1>1, <1>2, <1>3, <1>4, <1>5, <1>6, <1>7, <1>8 DEF Next

\* Until somebody calls DevStartAll, no level starts before the levels below it.
THEOREM LevelsInOrderTheorem == Spec => []LevelsInOrder
<1>1. OrderInv => LevelsInOrder
  BY DEF OrderInv
<1> QED BY <1>1, InitialOrder, OrderStep, PTL DEF Spec

-----------------------------------------------------------------------------
(* A server at rest stays down *)

\* A server that is down by DevStop was found to answer when it was stopped: it is
\* marked until it was found down and DevStart is called, and what was found down
\* stays so.
StoppedKnown ==
    \A s \in Server : proc[s] = "stopped" =>
        /\ state[s] = "FAULT" => ping[s] = "FAULT"
        /\ s \notin stopped => state[s] = "FAULT"

StoppedInv == TypeOK /\ StoppedKnown

LEMMA StoppedStep == StoppedInv /\ [Next]_vars => StoppedInv'
<1> SUFFICES ASSUME StoppedInv, [Next]_vars
             PROVE  StoppedKnown'
  BY NextType DEF StoppedInv
<1> USE DEF StoppedInv, StoppedKnown, TypeOK
<1>0. CASE UNCHANGED <<proc, ping, state, stopped>>
  BY <1>0
<1>1. ASSUME NEW s \in Server, Answers(s) \/ Hangs(s) \/ Fails(s)
      PROVE  StoppedKnown'
  BY <1>1 DEF Answers, Hangs, Fails, serverVars
<1>2. ASSUME NEW s \in Server, NEW late \in BOOLEAN, Ping(s, late)
      PROVE  StoppedKnown'
  BY <1>2 DEF Ping, hostVars, serverVars
<1>3. ASSUME NEW s \in Server, ReadServer(s)
      PROVE  StoppedKnown'
  <2>1. state' = [state EXCEPT ![s] = ping[s]] /\ UNCHANGED <<proc, ping>>
    BY <1>3 DEF ReadServer
  <2>2. CASE Restarts(s)
    <3>1. stopped' = stopped \/ stopped' = stopped \ {s}
      BY <1>3, <2>2 DEF ReadServer, StartOne
    <3>2. proc[s] # "stopped"
      BY <2>2 DEF Restarts
    <3> QED BY <2>1, <3>1, <3>2
  <2>3. CASE ~Restarts(s)
    BY <1>3, <2>1, <2>3 DEF ReadServer
  <2> QED BY <2>2, <2>3
<1>4. ASSUME NEW s \in Server, DevStart(s)
      PROVE  StoppedKnown'
  BY <1>4 DEF DevStart, StartOne
<1>5. ASSUME NEW s \in Server, DevStop(s)
      PROVE  StoppedKnown'
  BY <1>5 DEF DevStop
<1>6. ASSUME NEW l \in Levels, DevStopAll(l)
      PROVE  StoppedKnown'
  <2>1. \A s \in StopsAt(l) : s \in Server /\ state[s] = "ON"
    BY DEF StopsAt, FoundUp
  <2> HIDE DEF StopsAt
  <2> QED BY <1>6, <2>1 DEF DevStopAll
<1>7. ASSUME NEW t \in Thread, ThreadStep(t)
      PROVE  StoppedKnown'
  <2>1. CASE Fork(t)
    <3> DEFINE s == First(threads[t].todo)
    <3>1. proc' = proc \/ proc' = [proc EXCEPT ![s] = "silent"]
      BY <2>1 DEF Fork, ComesToNothing
    <3> HIDE DEF s
    <3> QED BY <2>1, <3>1 DEF Fork, serverVars
  <2>2. CASE ~Fork(t)
    BY <1>0, <1>7, <2>2 DEF ThreadStep, LevelBegins, LoopEnds, ThreadEnds, hostVars, serverVars
  <2> QED BY <2>1, <2>2
<1>8. ASSUME NEW s \in Server, TimePasses(s)
      PROVE  UNCHANGED <<proc, ping, state, stopped>>
  BY <1>8 DEF TimePasses, hostVars
<1>9. ASSUME NEW l \in Levels, DevStartAll(l)
      PROVE  UNCHANGED <<proc, ping, state, stopped>>
  BY <1>9 DEF DevStartAll, serverVars
<1>10. CASE UNCHANGED vars
  BY <1>0, <1>10 DEF vars, hostVars, serverVars
<1> QED BY <1>0, <1>1, <1>2, <1>3, <1>4, <1>5, <1>6, <1>7, <1>8, <1>9, <1>10 DEF Next

\* A step that is no command starts no server at rest.
LEMMA RestStep ==
  ASSUME StoppedInv, [Next]_vars, commands' = commands, NEW s \in Server, AtRest(s)
  PROVE  AtRest(s)'
<1> USE DEF AtRest, StoppedInv, TypeOK
<1>1. CASE UNCHANGED <<proc, threads>>
  BY <1>1
<1>2. ASSUME NEW r \in Server, Answers(r) \/ Hangs(r) \/ Fails(r)
      PROVE  AtRest(s)'
  BY <1>2 DEF Answers, Hangs, Fails, startVars, Running
<1>3. ASSUME NEW r \in Server, TimePasses(r) \/ \E late \in BOOLEAN : Ping(r, late)
      PROVE  AtRest(s)'
  BY <1>1, <1>3 DEF TimePasses, Ping, hostVars, startVars
<1>4. ASSUME NEW r \in Server, ReadServer(r)
      PROVE  AtRest(s)'
  <2>1. CASE ~Restarts(r)
    BY <1>1, <1>4, <2>1 DEF ReadServer, startVars
  <2>2. CASE Restarts(r)
    <3>1. r # s
      BY <2>2 DEF StoppedKnown, Restarts
    <3>2. PICK begun \in SUBSET {r} : TryToStart({r}, begun, 0)
      BY <1>4, <2>2 DEF ReadServer, StartOne
    <3>3. UNCHANGED <<levels, threads>> \/ StartProcesses(begun, 0)
      BY <3>2, TryOutcome
    <3>4. proc' = proc
      BY <1>4 DEF ReadServer
    <3>5. CASE StartProcesses(begun, 0)
      <4> DEFINE new == NewThread(0, begun)
      <4>1. threads' = [threads EXCEPT ![Unused] = new] /\ s \notin new.todo
        BY <3>1, <3>5 DEF StartProcesses, NewThread
      <4> HIDE DEF new
      <4> QED BY <3>4, <4>1
    <3> QED BY <1>1, <3>3, <3>4, <3>5
  <2> QED BY <2>1, <2>2
<1>5. ASSUME NEW t \in Thread, Fork(t)
      PROVE  AtRest(s)'
  <2> DEFINE r == First(threads[t].todo)
  <2>1. r # s
    BY <1>5, FirstIsOne DEF Fork
  <2>2. /\ proc' = proc \/ proc' = [proc EXCEPT ![r] = "silent"]
        /\ threads' = [threads EXCEPT ![t].todo = @ \ {r}]
    BY <1>5 DEF Fork, ComesToNothing
  <2> HIDE DEF r
  <2> QED BY <2>1, <2>2
<1>6. ASSUME NEW t \in Thread, LevelBegins(t) \/ LoopEnds(t) \/ ThreadEnds(t)
      PROVE  AtRest(s)'
  <2>1. proc' = proc
    BY <1>6 DEF LevelBegins, LoopEnds, ThreadEnds, hostVars
  <2>2. CASE LevelBegins(t)
    BY <2>1, <2>2 DEF LevelBegins
  <2>3. CASE LoopEnds(t)
    BY <2>1, <2>3 DEF LoopEnds
  <2>4. CASE ThreadEnds(t)
    BY <2>1, <2>4 DEF ThreadEnds, Free
  <2> QED BY <1>6, <2>2, <2>3, <2>4
<1>7. ASSUME NEW r \in Server, DevStart(r) \/ DevStop(r)
      PROVE  FALSE
  BY <1>7 DEF DevStart, DevStop, Called
<1>8. ASSUME NEW l \in Levels, DevStartAll(l) \/ DevStopAll(l)
      PROVE  FALSE
  BY <1>8 DEF DevStartAll, DevStopAll, Called
<1>9. CASE UNCHANGED vars
  BY <1>1, <1>9 DEF vars, hostVars, startVars
<1> QED BY <1>2, <1>3, <1>4, <1>5, <1>6, <1>7, <1>8, <1>9 DEF Next, ThreadStep

\* No poll, ping or thread starts a server at rest: only a command does.
THEOREM StoppedStaysDownTheorem == Spec => StoppedStaysDown
<1>1. Init => StoppedInv
  <2>1. Init => StoppedKnown
    BY DEF Init, StoppedKnown
  <2> QED BY <2>1, InitType DEF StoppedInv
<1>2. StoppedInv /\ [Next]_vars =>
         [\A s \in Server : AtRest(s) /\ UNCHANGED commands => AtRest(s)']_vars
  BY RestStep
<1> QED BY <1>1, <1>2, StoppedStep, PTL DEF Spec, StoppedStaysDown
=============================================================================
