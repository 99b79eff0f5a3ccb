------------------------ MODULE TaskDependency_proofs -------------------------
(***************************************************************************)
(* SetTaskDependency, for sequences of any length: it refuses exactly the  *)
(* matrices that make tasks wait for each other, sorts the tasks of the    *)
(* others with dependencies first, and gives them times that fit and that  *)
(* make CompareTask a strict total order, as the std::set of the queue     *)
(* requires.                                                               *)
(*                                                                         *)
(* Both searches keep the visited tasks apart into those on the call stack *)
(* and those left behind, whose dependencies are all left behind too.  The *)
(* stack is a chain of dependencies: coming back to it is a cycle.  What   *)
(* has been left behind holds no cycle: the task left last would be in it, *)
(* yet all it depends on was left before.                                  *)
(***************************************************************************)
EXTENDS TaskDependency, SequenceTheorems, TLAPS

-----------------------------------------------------------------------------
(* CompareTask, on any tasks of any number of sequences: a task is compared *)
(* by its rank -- start time, priority, expiration, key -- and the rule     *)
(* that dependencies come first never contradicts it.                       *)

\* CompareTask without the rule about dependencies.
Outranks(a, b) ==
    \/ StartsAtOnce(a) /\ ~StartsAtOnce(b)
    \/ /\ StartsAtOnce(a) <=> StartsAtOnce(b)
       /\ \/ ~StartsAtOnce(a) /\ StartTime(a) < StartTime(b)
          \/ /\ StartsAtOnce(a) \/ StartTime(a) = StartTime(b)
             /\ BeforeAmongEqualStarts(a, b)

\* A dependent task never starts at once and starts after what it depends on:
\* the first rule of CompareTask follows from the others.
LEMMA BeforeIsOutranks ==
    ASSUME NEW S, Comparable(S), StartsAfterDependencies(S),
           NEW a \in S, NEW b \in S
    PROVE  Before(a, b) <=> Outranks(a, b)
<1>1. StartTime(a) \in Int /\ StartTime(b) \in Int
  BY DEF Comparable, StartTime
<1>2. DependsOn(a, b) => ~StartsAtOnce(a) /\ ~Outranks(a, b)
  BY <1>1 DEF StartsAfterDependencies, DependsOn, StartsAtOnce, Outranks
<1>3. DependsOn(b, a) => Outranks(a, b)
  BY <1>1 DEF StartsAfterDependencies, DependsOn, StartsAtOnce, Outranks
<1>4. DependsOn(b, a) => ~DependsOn(a, b)
  BY <1>2, <1>3
<1> QED
  BY <1>2, <1>3, <1>4 DEF Before, Outranks

\* CompareTask (comparatorFcn) is irreflexive, decides between any two tasks,
\* and is transitive: no task is lost in the std::set as equivalent to another.
THEOREM QueueOrder ==
    ASSUME NEW S, Comparable(S), StartsAfterDependencies(S)
    PROVE  /\ \A a \in S : ~Before(a, a)
           /\ \A a, b \in S : a # b => (Before(a, b) <=> ~Before(b, a))
           /\ \A a, b, c \in S : Before(a, b) /\ Before(b, c) => Before(a, c)
<1>1. \A a, b \in S : Before(a, b) <=> Outranks(a, b)
  BY BeforeIsOutranks
<1>2. \A a \in S : /\ StartTime(a) \in Int
                   /\ a.prio \in Int /\ a.exp \in Int /\ a.key \in Int
  BY DEF Comparable, StartTime
<1>3. \A a \in S : ~Outranks(a, a)
  BY <1>2 DEF Outranks, BeforeAmongEqualStarts
<1>4. \A a, b \in S : a # b => (Outranks(a, b) <=> ~Outranks(b, a))
  <2> TAKE a, b \in S
  <2>1. HAVE a # b
  <2>2. a.key # b.key
    BY <2>1 DEF Comparable
  <2> QED
    BY <1>2, <2>2 DEF Outranks, BeforeAmongEqualStarts
<1>5. \A a, b, c \in S : Outranks(a, b) /\ Outranks(b, c) => Outranks(a, c)
  BY <1>2 DEF Outranks, BeforeAmongEqualStarts
<1> QED
  BY <1>1, <1>3, <1>4, <1>5

\* A task never precedes one it depends on, wherever the two stand in the
\* queue: PopTask meets dependencies first.
THEOREM DependenciesFirst ==
    ASSUME NEW S, Comparable(S), StartsAfterDependencies(S),
           NEW a \in S, NEW b \in S, DependsOn(b, a)
    PROVE  Before(a, b)
<1>1. ~DependsOn(a, b)
  BY DEF StartsAfterDependencies, Comparable, DependsOn, StartsAtOnce, StartTime
<1> QED
  BY <1>1 DEF Before

-----------------------------------------------------------------------------
(* The inductive invariant *)

\* The tasks the search has come back from.
LeftBehind == visited \ ToSet(path)

Task == [seq : {"sequence"}, index : Index, deps : SUBSET Index, act : Nat,
         startMax : Nat, exp : Nat, prio : Int, key : Index]

TypeInv ==
    /\ matrix \in [Index -> Seq(Index)]
    /\ spec \in [Index -> Specs]
    /\ stage \in Stage
    /\ loop \in Nat
    /\ path \in Seq(Index) /\ at \in [Index -> Nat \ {0}] /\ visited \subseteq Index
    /\ order \in Seq(Index)
    /\ latest \in Nat
    /\ tasks \in [Index -> Task]

Injective(s) == \A k, l \in 1..Len(s) : s[k] = s[l] => k = l

\* Entry e of the row at place q of the stack: the search has come back from it,
\* or is under way there.
Followed(q, e) ==
    /\ e <= Len(matrix[path[q]])
    /\ \/ matrix[path[q]][e] \in LeftBehind
       \/ q < Len(path) /\ matrix[path[q]][e] = path[q + 1]

\* Each task on the stack depends on the next.
Chained ==
    \A q \in 1..(Len(path) - 1) : path[q + 1] \in ToSet(matrix[path[q]])

SearchInv ==
    /\ loop <= N /\ 0..(loop - 1) \subseteq visited
    /\ ToSet(path) \subseteq visited /\ Injective(path)
    /\ Chained
    /\ \A q \in 1..Len(path) : \A e \in 1..(at[path[q]] - 1) : Followed(q, e)
    /\ \A i \in Index \ visited : at[i] = 1
    /\ \A i \in LeftBehind : ToSet(matrix[i]) \subseteq LeftBehind

NoneDeadlocked(T) == \A S \in SUBSET T : ~IsDeadlocked(S)

VerdictInv ==
    /\ stage = "check" => NoneDeadlocked(LeftBehind)
    /\ stage = "refused" => \E S \in SUBSET Index : IsDeadlocked(S)
    /\ stage \in {"sort", "times", "accepted"} => NoneDeadlocked(Index)

\* What the task noted k-th depends on was noted before.
DependenciesNoted(k) == ToSet(matrix[order[k]]) \subseteq {order[l] : l \in 1..(k - 1)}

SortInv ==
    /\ Injective(order)
    /\ \A k \in 1..Len(order) : DependenciesNoted(k)
    /\ stage = "check" => order = <<>>
    /\ stage = "sort" => ToSet(order) = LeftBehind
    /\ stage \in {"times", "accepted"} => ToSet(order) = Index

Keeps(i) ==
    /\ tasks[i].index = i /\ tasks[i].key = i
    /\ tasks[i].act = spec[i].act
    /\ stage = "check" => tasks[i].deps = {}
    /\ stage \in {"sort", "times", "accepted"} => tasks[i].deps = ToSet(matrix[i])
    /\ tasks[i].deps = {} => tasks[i].exp = Created(i).exp

\* A task that waits for others has its times.
Timed(i) ==
    matrix[i] # <<>> =>
        LET due == {tasks[j].exp : j \in ToSet(matrix[i])} \cup {tasks[i].act}
        IN  /\ tasks[i].startMax \in due
            /\ \A t \in due : t <= tasks[i].startMax
            /\ tasks[i].exp = tasks[i].startMax + spec[i].dur
            /\ tasks[i].startMax >= Now

\* The dependencies of task i looked at so far are due by latest at the latest.
LookedAt(i) ==
    /\ \A e \in 1..(at[i] - 1) : e <= Len(matrix[i]) /\ DueTime(matrix[i][e]) <= latest
    /\ \/ latest = NoTime /\ at[i] = 1
       \/ \E e \in 1..(at[i] - 1) : latest = DueTime(matrix[i][e])

TimesInv ==
    /\ stage \in {"check", "sort"} => latest = NoTime
    /\ stage \in {"times", "accepted"} =>
          /\ loop <= Len(order)
          /\ \A k \in 1..loop : Timed(order[k])
    /\ stage = "times" =>
          /\ \A k \in (loop + 2)..Len(order) : at[order[k]] = 1
          /\ loop < Len(order) => LookedAt(order[loop + 1])
          /\ loop = Len(order) => latest = NoTime
    /\ stage = "accepted" => loop = Len(order)

Inv ==
    /\ TypeInv
    /\ Searching => SearchInv
    /\ VerdictInv /\ SortInv /\ TimesInv
    /\ \A i \in Index : Keeps(i)

-----------------------------------------------------------------------------
(* What the proofs need of sequences *)

\* The entries of a row, and the tasks on the stack, are indexes.
LEMMA EntryInSet ==
    ASSUME NEW S, NEW s \in Seq(S)
    PROVE  /\ Len(s) \in Nat /\ DOMAIN s = 1..Len(s)
           /\ ToSet(s) \subseteq S
           /\ \A k \in 1..Len(s) : s[k] \in S /\ s[k] \in ToSet(s)
           /\ \A x \in ToSet(s) : \E k \in 1..Len(s) : s[k] = x
           /\ s = <<>> <=> ToSet(s) = {}
           /\ s # <<>> => Len(s) \in 1..Len(s)
<1>1. Len(s) \in Nat /\ DOMAIN s = 1..Len(s) /\ \A k \in 1..Len(s) : s[k] \in S
  BY LenProperties
<1>2. s = <<>> <=> Len(s) = 0
  BY EmptySeq
<1>3. ToSet(s) \subseteq S /\ \A k \in 1..Len(s) : s[k] \in ToSet(s)
  BY <1>1 DEF ToSet
<1>4. \A x \in ToSet(s) : \E k \in 1..Len(s) : s[k] = x
  BY <1>1 DEF ToSet
<1>5. s # <<>> => Len(s) \in 1..Len(s)
  BY <1>1, <1>2
<1>6. s = <<>> <=> ToSet(s) = {}
  BY <1>1, <1>2, <1>3, <1>4, <1>5
<1> QED
  BY <1>1, <1>3, <1>4, <1>5, <1>6

\* A call, or a task noted, adds one task at the end.
LEMMA AddedLast ==
    ASSUME NEW S, NEW s \in Seq(S), NEW x \in S
    PROVE  LET t == Append(s, x) IN
           /\ t \in Seq(S) /\ t # <<>> /\ Len(t) = Len(s) + 1
           /\ t[Len(t)] = x /\ \A k \in 1..Len(s) : t[k] = s[k]
           /\ ToSet(t) = ToSet(s) \cup {x}
           /\ Injective(s) /\ x \notin ToSet(s) => Injective(t)
<1> DEFINE t == Append(s, x)
<1>1. /\ t \in Seq(S) /\ t # <<>> /\ Len(t) = Len(s) + 1 /\ Len(s) \in Nat
      /\ t[Len(t)] = x /\ \A k \in 1..Len(s) : t[k] = s[k]
  BY AppendProperties, LenProperties
<1> HIDE DEF t
<1>2. DOMAIN t = 1..Len(t) /\ DOMAIN s = 1..Len(s)
  BY <1>1, LenProperties
<1>3. ToSet(t) = ToSet(s) \cup {x}
  BY <1>1, <1>2 DEF ToSet
<1>4. Injective(s) /\ x \notin ToSet(s) => Injective(t)
  BY <1>1, <1>2 DEF ToSet, Injective
<1> QED
  BY <1>1, <1>3, <1>4 DEF t

\* A return takes the last task off the stack.
LEMMA LastRemoved ==
    ASSUME NEW S, NEW s \in Seq(S), s # <<>>, Injective(s)
    PROVE  /\ Front(s) \in Seq(S) /\ Len(Front(s)) = Len(s) - 1
           /\ \A k \in 1..(Len(s) - 1) : Front(s)[k] = s[k]
           /\ Last(s) \in ToSet(s) /\ Last(s) = s[Len(s)] /\ Last(s) \in S
           /\ ToSet(Front(s)) = ToSet(s) \ {Last(s)}
           /\ Injective(Front(s))
<1> DEFINE f == Front(s)
<1>1. Len(s) \in Nat \ {0} /\ DOMAIN s = 1..Len(s) /\ \A k \in 1..Len(s) : s[k] \in S
  BY EntryInSet, EmptySeq, LenProperties
<1>2. f = SubSeq(s, 1, Len(s) - 1)
  BY DEF Front
<1>3. /\ f \in Seq(S) /\ Len(f) = Len(s) - 1
      /\ \A k \in 1..(Len(s) - 1) : f[k] = s[k]
  BY <1>1, <1>2, SubSeqProperties
<1> HIDE DEF f
<1>4. DOMAIN f = 1..Len(f)
  BY <1>3, LenProperties
<1>5. Last(s) = s[Len(s)] /\ Last(s) \in ToSet(s) /\ Last(s) \in S
  BY <1>1 DEF Last, ToSet
<1>6. ToSet(f) = ToSet(s) \ {Last(s)}
  BY <1>1, <1>3, <1>4, <1>5 DEF ToSet, Injective
<1>7. Injective(f)
  BY <1>1, <1>3 DEF Injective
<1> QED
  BY <1>3, <1>5, <1>6, <1>7 DEF f

-----------------------------------------------------------------------------
(* Cycles *)

\* A search that comes back to a task on its stack has found tasks that wait
\* for each other: those on the stack from that task on.
LEMMA BackOnStack ==
    ASSUME TypeInv, Chained, path # <<>>, NEW m \in ToSet(path), m \in ToSet(matrix[Here])
    PROVE  \E S \in SUBSET Index : IsDeadlocked(S)
<1>1. /\ Len(path) \in Nat \ {0} /\ \A q \in 1..Len(path) : path[q] \in Index
      /\ Here = path[Len(path)]
  BY EntryInSet DEF TypeInv, Here, Last
<1>2. PICK p \in 1..Len(path) : path[p] = m
  BY EntryInSet DEF TypeInv
<1> DEFINE S == {path[q] : q \in p..Len(path)}
<1>3. S \in SUBSET Index /\ m \in S
  BY <1>1, <1>2
<1>4. ASSUME NEW q \in p..Len(path)
      PROVE  ToSet(matrix[path[q]]) \cap S # {}
  <2>1. CASE q = Len(path)
    BY <2>1, <1>1, <1>3
  <2>2. CASE q # Len(path)
    <3>1. q \in 1..(Len(path) - 1) /\ q + 1 \in p..Len(path)
      BY <2>2, <1>1, <1>2
    <3>2. path[q + 1] \in ToSet(matrix[path[q]]) /\ path[q + 1] \in S
      BY <3>1 DEF Chained
    <3> QED
      BY <3>2
  <2> QED
    BY <2>1, <2>2
<1>5. IsDeadlocked(S)
  BY <1>3, <1>4 DEF IsDeadlocked
<1> QED
  BY <1>3, <1>5

\* A task all of whose dependencies were left behind closes no cycle: without
\* it, those that wait for each other would have done so before.
LEMMA LeavingNoCycle ==
    ASSUME NEW T, NoneDeadlocked(T), \A i \in T : ToSet(matrix[i]) \subseteq T,
           NEW h, h \notin T, ToSet(matrix[h]) \subseteq T
    PROVE  NoneDeadlocked(T \cup {h})
<1> SUFFICES ASSUME NEW S \in SUBSET (T \cup {h}), IsDeadlocked(S)
             PROVE  FALSE
  BY DEF NoneDeadlocked
<1>1. IsDeadlocked(S \ {h})
  BY DEF IsDeadlocked
<1>2. S \ {h} \in SUBSET T
  OBVIOUS
<1> QED
  BY <1>1, <1>2 DEF NoneDeadlocked

-----------------------------------------------------------------------------
(* The first state *)

\* What a caller may give.
LEMMA Given ==
    /\ N \in Nat \ {0} /\ Now \in Nat \ {0} /\ Rows \subseteq Seq(Index)
    /\ \A s \in Specs : /\ s.act \in Nat /\ s.dur \in Nat \ {0} /\ s.prio \in Int
                        /\ s.act = NoTime \/ s.act + s.dur >= Now
  BY DependencyAssumption

\* The setters leave every task with its own index, times and priority.
LEMMA CreatedTask ==
    ASSUME spec \in [Index -> Specs], NEW i \in Index
    PROVE  /\ Created(i) \in Task
           /\ Created(i).index = i /\ Created(i).key = i /\ Created(i).deps = {}
           /\ Created(i).act = spec[i].act /\ Created(i).exp >= Now
           /\ spec[i].act # NoTime => Created(i).exp = spec[i].act + spec[i].dur
  BY Given DEF Created, Task, NoTime

LEMMA InitInv == Init => Inv
<1> SUFFICES ASSUME Init PROVE Inv
  OBVIOUS
<1>1. path = <<>> /\ order = <<>> /\ Len(path) = 0 /\ Len(order) = 0
  BY EmptySeq DEF Init
<1>2. ToSet(path) = {} /\ ToSet(order) = {} /\ path \in Seq(Index) /\ order \in Seq(Index)
  BY <1>1, EmptySeq, EntryInSet
<1>3. TypeInv
  <2>1. tasks \in [Index -> Task]
    BY CreatedTask DEF Init
  <2> QED
    BY <1>2, <2>1, Given DEF Init, TypeInv, Stage, FirstEntries, NoTime
<1>4. LeftBehind = {}
  BY DEF Init, LeftBehind
<1>5. SearchInv
  BY <1>1, <1>2, <1>4, Given DEF Init, SearchInv, Injective, Chained, FirstEntries
<1>6. VerdictInv
  BY <1>4 DEF Init, VerdictInv, NoneDeadlocked, IsDeadlocked
<1>7. SortInv
  BY <1>1 DEF Init, SortInv, Injective
<1>8. TimesInv
  BY DEF Init, TimesInv
<1>9. \A i \in Index : Keeps(i)
  BY CreatedTask DEF Init, Keeps
<1> QED
  BY <1>3, <1>5, <1>6, <1>7, <1>8, <1>9 DEF Inv

-----------------------------------------------------------------------------
(* The searches *)

\* The parts of the invariant a step of a search does not touch.
LEMMA SearchFrame ==
    ASSUME Inv, Searching, UNCHANGED <<matrix, spec, latest, tasks>>,
           stage' \in {stage, "refused"}
    PROVE  TimesInv' /\ \A i \in Index : Keeps(i)'
<1>1. TimesInv'
  BY DEF Inv, Searching, TimesInv
<1>2. \A i \in Index : Keeps(i)'
  BY DEF Inv, Searching, Keeps, Created
<1> QED
  BY <1>1, <1>2

\* The task at the top of the stack, and its row.
LEMMA AtHere ==
    ASSUME TypeInv, path # <<>>
    PROVE  /\ Here \in Index /\ Here = path[Len(path)] /\ Here \in ToSet(path)
           /\ Len(path) \in Nat \ {0}
           /\ matrix[Here] \in Seq(Index) /\ Len(matrix[Here]) \in Nat
           /\ at[Here] \in Nat \ {0}
           /\ at[Here] \in Entries => Met \in Index /\ Met \in ToSet(matrix[Here])
<1>1. Len(path) \in Nat /\ Len(path) \in 1..Len(path) /\ Here = path[Len(path)]
  BY EntryInSet DEF TypeInv, Here, Last
<1>2. Here \in Index /\ Here \in ToSet(path)
  BY <1>1, EntryInSet DEF TypeInv
<1>3. matrix[Here] \in Seq(Index) /\ at[Here] \in Nat \ {0}
  BY <1>2 DEF TypeInv
<1> QED
  BY <1>1, <1>2, <1>3, EntryInSet DEF Entries, Met

\* A call puts a task on the stack and leaves none behind.
LEMMA CallStacks ==
    ASSUME TypeInv, SearchInv, NEW i \in Index, i \notin visited, Call(i)
    PROVE  /\ path' \in Seq(Index) /\ path' # <<>> /\ Len(path') = Len(path) + 1
           /\ path'[Len(path')] = i /\ \A q \in 1..Len(path) : path'[q] = path[q]
           /\ visited' \subseteq Index /\ ToSet(path') \subseteq visited' /\ Injective(path)'
           /\ LeftBehind' = LeftBehind
           /\ Len(path) \in Nat
<1>1. path' = Append(path, i) /\ visited' = visited \cup {i}
  BY DEF Call
<1>2. i \notin ToSet(path) /\ path \in Seq(Index) /\ Injective(path)
  BY DEF SearchInv, TypeInv
<1>3. /\ path' \in Seq(Index) /\ path' # <<>> /\ Len(path') = Len(path) + 1
      /\ path'[Len(path')] = i /\ \A q \in 1..Len(path) : path'[q] = path[q]
      /\ ToSet(path') = ToSet(path) \cup {i} /\ Injective(path')
  BY <1>1, <1>2, AddedLast
<1>4. Len(path) \in Nat
  BY <1>2, EntryInSet
<1>5. ToSet(path) \subseteq visited /\ visited \subseteq Index
  BY DEF SearchInv, TypeInv
<1>6. LeftBehind' = LeftBehind
  BY <1>1, <1>3, <1>5 DEF LeftBehind
<1>7. visited' \subseteq Index /\ ToSet(path') \subseteq visited'
  BY <1>1, <1>3, <1>5
<1>8. Injective(path)'
  BY <1>3 DEF Injective
<1> QED
  BY <1>3, <1>4, <1>6, <1>7, <1>8

\* Tasks noted in a topological order stay in one.
LEMMA NotedStays ==
    ASSUME SortInv, UNCHANGED <<matrix, order>>
    PROVE  Injective(order)' /\ \A k \in 1..Len(order) : DependenciesNoted(k)'
<1>1. Injective(order)'
  BY DEF SortInv, Injective
<1>2. \A k \in 1..Len(order) : DependenciesNoted(k)'
  BY DEF SortInv, DependenciesNoted
<1> QED
  BY <1>1, <1>2

\* As long as no search comes back from a task, the verdict and the sorted
\* tasks stay.
LEMMA NoneLeft ==
    ASSUME Inv, UNCHANGED <<matrix, stage, order>>, LeftBehind' = LeftBehind
    PROVE  VerdictInv' /\ SortInv'
<1>1. VerdictInv'
  BY DEF Inv, VerdictInv, NoneDeadlocked, IsDeadlocked
<1>2. SortInv
  BY DEF Inv
<1>3. SortInv'
  BY <1>2, NotedStays DEF SortInv
<1> QED
  BY <1>1, <1>3

LEMMA SearchFromInv == Inv /\ SearchFrom => Inv'
<1> SUFFICES ASSUME Inv, SearchFrom PROVE Inv'
  OBVIOUS
<1> USE DEF Inv
<1>1. TypeInv /\ SearchInv /\ Searching /\ Searching' /\ path = <<>> /\ Len(path) = 0
  BY EmptySeq DEF SearchFrom, Searching
<1>2. loop \in Index /\ loop' = loop + 1 /\ loop' \in Nat /\ loop' <= N
  BY <1>1, Given DEF SearchFrom, Index, TypeInv
<1>3. CASE loop \in visited
  <2>1. UNCHANGED <<matrix, spec, stage, searchVars, order, latest, tasks>>
    BY <1>3 DEF SearchFrom, searchVars
  <2>2. TypeInv'
    BY <1>1, <1>2, <2>1 DEF TypeInv, searchVars
  <2>3. LeftBehind' = LeftBehind
    BY <2>1 DEF LeftBehind, searchVars
  <2>4. SearchInv'
    <3>1. loop' <= N /\ (0..(loop - 1))' \subseteq visited'
      BY <1>1, <1>2, <1>3, <2>1 DEF SearchInv, searchVars, TypeInv
    <3> QED
      BY <1>1, <2>1, <2>3, <3>1 DEF SearchInv, searchVars, Injective, Chained, Followed
  <2>5. VerdictInv' /\ SortInv'
    BY <2>1, <2>3, NoneLeft
  <2> QED
    BY <1>1, <2>1, <2>2, <2>4, <2>5, SearchFrame
<1>4. CASE loop \notin visited
  <2>1. Call(loop) /\ UNCHANGED <<matrix, spec, stage, at, order, latest, tasks>>
    BY <1>4 DEF SearchFrom
  <2>2. /\ path' \in Seq(Index) /\ Len(path') = 1
        /\ path'[1] = loop
        /\ visited' \subseteq Index /\ ToSet(path') \subseteq visited' /\ Injective(path)'
        /\ LeftBehind' = LeftBehind
    BY <1>1, <1>2, <1>4, <2>1, CallStacks
  <2>3. TypeInv'
    BY <1>1, <1>2, <2>1, <2>2 DEF TypeInv
  <2>4. SearchInv'
    <3>1. visited' = visited \cup {loop}
      BY <2>1 DEF Call
    <3>2. loop' <= N /\ (0..(loop - 1))' \subseteq visited'
      BY <1>1, <1>2, <3>1 DEF SearchInv, TypeInv
    <3>3. Chained'
      BY <2>2 DEF Chained
    <3>4. (\A q \in 1..Len(path) : \A e \in 1..(at[path[q]] - 1) : Followed(q, e))'
      BY <1>1, <1>2, <1>4, <2>1, <2>2 DEF SearchInv
    <3>5. (\A i \in Index \ visited : at[i] = 1)'
      BY <1>1, <2>1, <3>1 DEF SearchInv
    <3>6. (\A i \in LeftBehind : ToSet(matrix[i]) \subseteq LeftBehind)'
      BY <1>1, <2>1, <2>2 DEF SearchInv
    <3> QED
      BY <2>2, <3>2, <3>3, <3>4, <3>5, <3>6 DEF SearchInv
  <2>5. VerdictInv' /\ SortInv'
    BY <2>1, <2>2, NoneLeft
  <2> QED
    BY <1>1, <2>1, <2>3, <2>4, <2>5, SearchFrame
<1> QED
  BY <1>3, <1>4

\* A search that meets a task of its own stack has found a cycle, so that none
\* does while the tasks are sorted.
LEMMA MetOnStack ==
    ASSUME TypeInv, SearchInv, VerdictInv, Searching, path # <<>>, at[Here] \in Entries,
           OnCallStack(Met)
    PROVE  stage = "check" /\ \E S \in SUBSET Index : IsDeadlocked(S)
<1>1. \E S \in SUBSET Index : IsDeadlocked(S)
  BY AtHere, BackOnStack DEF SearchInv, OnCallStack
<1> QED
  BY <1>1 DEF VerdictInv, NoneDeadlocked, Searching

\* The entries followed from the stack, once the search has gone one further
\* along the row of the task at its top.
LEMMA OneFurther ==
    ASSUME TypeInv, SearchInv, path # <<>>, at[Here] \in Entries,
           at' = [at EXCEPT ![Here] = @ + 1],
           NEW q \in 1..Len(path), NEW e \in 1..(at'[path[q]] - 1)
    PROVE  Followed(q, e) \/ (q = Len(path) /\ e = at[Here])
<1>1. path[q] \in Index /\ Len(path) \in Nat \ {0} /\ Here = path[Len(path)]
  BY AtHere, EntryInSet DEF TypeInv
<1>2. CASE q = Len(path)
  <2>1. at'[path[q]] = at[Here] + 1
    BY <1>1, <1>2 DEF TypeInv
  <2>2. e \in 1..(at[path[q]] - 1) \/ e = at[Here]
    BY <1>1, <1>2, <2>1, AtHere
  <2> QED
    BY <1>2, <2>2 DEF SearchInv
<1>3. CASE q # Len(path)
  <2>1. path[q] # Here
    BY <1>1, <1>3 DEF SearchInv, Injective
  <2>2. at'[path[q]] = at[path[q]]
    BY <1>1, <2>1 DEF TypeInv
  <2> QED
    BY <2>2 DEF SearchInv
<1> QED
  BY <1>2, <1>3

LEMMA FollowDependencyInv == Inv /\ FollowDependency => Inv'
<1> SUFFICES ASSUME Inv, FollowDependency PROVE Inv'
  OBVIOUS
<1> USE DEF Inv
<1>1. /\ TypeInv /\ SearchInv /\ VerdictInv /\ Searching /\ Searching'
      /\ path # <<>> /\ at[Here] \in Entries /\ at' = [at EXCEPT ![Here] = @ + 1]
      /\ UNCHANGED <<matrix, spec, stage, loop, order, latest, tasks>>
  BY DEF FollowDependency, Searching
<1>2. /\ Here \in Index /\ Here = path[Len(path)] /\ Here \in ToSet(path)
      /\ Len(path) \in Nat \ {0}
      /\ at[Here] \in Nat \ {0} /\ at[Here] \in 1..Len(matrix[Here])
      /\ Met \in Index /\ Met \in ToSet(matrix[Here])
  BY <1>1, AtHere DEF Entries
<1>3. at' \in [Index -> Nat \ {0}] /\ \A i \in Index \ {Here} : at'[i] = at[i]
  <2>1. at \in [Index -> Nat \ {0}]
    BY <1>1 DEF TypeInv
  <2>2. at[Here] + 1 \in Nat \ {0}
    BY <1>2
  <2> QED
    BY <1>1, <1>2, <2>1, <2>2
<1>4. Here \in visited
  BY <1>1, <1>2 DEF SearchInv
<1>5. CASE Met \notin visited /\ Call(Met)
  <2>1. /\ path' \in Seq(Index) /\ Len(path') = Len(path) + 1
        /\ path'[Len(path')] = Met /\ \A q \in 1..Len(path) : path'[q] = path[q]
        /\ visited' \subseteq Index /\ ToSet(path') \subseteq visited' /\ Injective(path)'
        /\ LeftBehind' = LeftBehind
    BY <1>1, <1>2, <1>5, CallStacks
  <2>2. visited' = visited \cup {Met}
    BY <1>5 DEF Call
  <2>3. TypeInv'
    BY <1>1, <1>3, <2>1 DEF TypeInv
  <2>4. Chained'
    <3> SUFFICES ASSUME NEW q \in 1..Len(path)
                 PROVE  path'[q + 1] \in ToSet(matrix[path'[q]])
      BY <1>1, <1>2, <2>1 DEF Chained
    <3>1. CASE q = Len(path)
      BY <1>2, <2>1, <3>1
    <3>2. CASE q # Len(path)
      <4>1. q \in 1..(Len(path) - 1) /\ q + 1 \in 1..Len(path)
        BY <1>2, <3>2
      <4> QED
        BY <1>1, <2>1, <4>1 DEF SearchInv, Chained
    <3> QED
      BY <3>1, <3>2
  <2>5. ASSUME NEW q \in 1..Len(path'), NEW e \in 1..(at'[path'[q]] - 1)
        PROVE  Followed(q, e)'
    <3>1. CASE q = Len(path')
      <4>1. at'[path'[q]] = 1
        BY <1>1, <1>2, <1>3, <1>4, <1>5, <2>1, <3>1 DEF SearchInv
      <4> QED
        BY <4>1
    <3>2. CASE q # Len(path')
      <4>1. q \in 1..Len(path) /\ path'[q] = path[q]
        BY <1>2, <2>1, <3>2
      <4>2. Followed(q, e) \/ (q = Len(path) /\ e = at[Here])
        BY <1>1, <4>1, OneFurther
      <4>3. CASE Followed(q, e)
        <5>1. q < Len(path) => q + 1 \in 1..Len(path)
          BY <1>2, <4>1
        <5> QED
          BY <1>1, <1>2, <2>1, <4>1, <4>3, <5>1 DEF Followed
      <4>4. CASE q = Len(path) /\ e = at[Here]
        <5>1. matrix'[path'[q]][e] = path'[q + 1] /\ e <= Len(matrix'[path'[q]])
          BY <1>1, <1>2, <2>1, <4>1, <4>4 DEF Met
        <5> QED
          BY <1>2, <2>1, <4>4, <5>1 DEF Followed
      <4> QED
        BY <4>2, <4>3, <4>4
    <3> QED
      BY <3>1, <3>2
  <2>6. SearchInv'
    <3>1. loop' <= N /\ (0..(loop - 1))' \subseteq visited'
      BY <1>1, <2>2 DEF SearchInv
    <3>2. (\A i \in Index \ visited : at[i] = 1)'
      BY <1>1, <1>3, <1>4, <2>2 DEF SearchInv
    <3>3. (\A i \in LeftBehind : ToSet(matrix[i]) \subseteq LeftBehind)'
      BY <1>1, <2>1 DEF SearchInv
    <3> QED
      BY <2>1, <2>4, <2>5, <3>1, <3>2, <3>3 DEF SearchInv
  <2> QED
    BY <1>1, <2>1, <2>3, <2>6, SearchFrame, NoneLeft
<1>6. CASE Met \in visited /\ (stage = "check" => ~OnCallStack(Met))
           /\ UNCHANGED <<path, visited>>
  <2>1. ~OnCallStack(Met)
    BY <1>1, <1>6, MetOnStack
  <2>2. Met \in LeftBehind /\ LeftBehind' = LeftBehind
    BY <1>6, <2>1 DEF LeftBehind, OnCallStack
  <2>3. TypeInv'
    BY <1>1, <1>3, <1>6 DEF TypeInv
  <2>4. ASSUME NEW q \in 1..Len(path'), NEW e \in 1..(at'[path'[q]] - 1)
        PROVE  Followed(q, e)'
    <3>1. Followed(q, e) \/ (q = Len(path) /\ e = at[Here])
      BY <1>1, <1>6, OneFurther
    <3>2. CASE Followed(q, e)
      BY <1>1, <1>6, <2>2, <3>2 DEF Followed
    <3>3. CASE q = Len(path) /\ e = at[Here]
      <4>1. matrix[path[q]][e] = Met /\ e <= Len(matrix[path[q]])
        BY <1>2, <3>3 DEF Met
      <4> QED
        BY <1>1, <1>6, <2>2, <4>1 DEF Followed
    <3> QED
      BY <3>1, <3>2, <3>3
  <2>5. SearchInv'
    <3>1. Injective(path)' /\ Chained'
      BY <1>1, <1>6 DEF SearchInv, Injective, Chained
    <3>2. (\A i \in Index \ visited : at[i] = 1)'
      BY <1>1, <1>3, <1>4, <1>6 DEF SearchInv
    <3> QED
      BY <1>1, <1>6, <2>2, <2>4, <3>1, <3>2 DEF SearchInv
  <2> QED
    BY <1>1, <2>2, <2>3, <2>5, SearchFrame, NoneLeft
<1> QED
  BY <1>5, <1>6 DEF FollowDependency

LEMMA FindCycleInv == Inv /\ FindCycle => Inv'
<1> SUFFICES ASSUME Inv, FindCycle PROVE Inv'
  OBVIOUS
<1> USE DEF Inv
<1>1. /\ TypeInv /\ SearchInv /\ VerdictInv /\ SortInv /\ Searching /\ stage = "check"
      /\ stage' = "refused"
      /\ UNCHANGED <<matrix, spec, loop, path, at, visited, order, latest, tasks>>
  BY DEF FindCycle, Searching, searchVars
<1>2. PICK S \in SUBSET Index : IsDeadlocked(S)
  BY <1>1, MetOnStack DEF FindCycle
<1>3. TypeInv'
  BY <1>1 DEF TypeInv, Stage
<1>4. VerdictInv'
  <2>1. IsDeadlocked(S)'
    BY <1>1, <1>2 DEF IsDeadlocked
  <2> QED
    BY <1>1, <2>1 DEF VerdictInv
<1>5. SortInv'
  BY <1>1, NotedStays DEF SortInv
<1> QED
  BY <1>1, <1>3, <1>4, <1>5, SearchFrame DEF Searching

LEMMA ReturnInv == Inv /\ Return => Inv'
<1> SUFFICES ASSUME Inv, Return PROVE Inv'
  OBVIOUS
<1> USE DEF Inv
<1>1. /\ TypeInv /\ SearchInv /\ VerdictInv /\ SortInv /\ Searching /\ Searching'
      /\ path # <<>> /\ at[Here] \notin Entries
      /\ path' = Front(path)
      /\ order' = IF stage = "sort" THEN Noted(Here) ELSE order
      /\ UNCHANGED <<matrix, spec, stage, loop, at, visited, latest, tasks>>
  BY DEF Return, Searching
<1>2. /\ Here \in Index /\ Here = path[Len(path)] /\ Here \in ToSet(path)
      /\ Len(path) \in Nat \ {0} /\ at[Here] \in Nat \ {0}
      /\ matrix[Here] \in Seq(Index) /\ Len(matrix[Here]) \in Nat
  BY <1>1, AtHere
<1>3. /\ path' \in Seq(Index) /\ Len(path') = Len(path) - 1
      /\ \A q \in 1..(Len(path) - 1) : path'[q] = path[q]
      /\ ToSet(path') = ToSet(path) \ {Here} /\ Injective(path)'
  <2>1. path \in Seq(Index) /\ Injective(path)
    BY <1>1 DEF TypeInv, SearchInv
  <2>2. /\ path' \in Seq(Index) /\ Len(path') = Len(path) - 1
        /\ \A q \in 1..(Len(path) - 1) : path'[q] = path[q]
        /\ ToSet(path') = ToSet(path) \ {Here} /\ Injective(path')
    BY <1>1, <2>1, LastRemoved DEF Here
  <2> QED
    BY <2>2 DEF Injective
<1>4. Here \notin LeftBehind /\ LeftBehind' = LeftBehind \cup {Here}
  <2>1. Here \in visited
    BY <1>1, <1>2 DEF SearchInv
  <2> QED
    BY <1>1, <1>2, <1>3, <2>1 DEF LeftBehind
<1>5. ToSet(matrix[Here]) \subseteq LeftBehind
  <2> SUFFICES ASSUME NEW m \in ToSet(matrix[Here]) PROVE m \in LeftBehind
    OBVIOUS
  <2>1. PICK e \in 1..Len(matrix[Here]) : matrix[Here][e] = m
    BY <1>2, EntryInSet
  <2>2. e \in 1..(at[path[Len(path)]] - 1)
    BY <1>1, <1>2 DEF Entries
  <2>3. Followed(Len(path), e)
    BY <1>1, <1>2, <2>2 DEF SearchInv
  <2> QED
    BY <1>2, <2>1, <2>3 DEF Followed
<1>6. TypeInv'
  <2>1. order' \in Seq(Index)
    BY <1>1, <1>2, AddedLast DEF TypeInv, Noted
  <2> QED
    BY <1>1, <1>3, <2>1 DEF TypeInv
<1>7. SearchInv'
  <2>1. ToSet(path') \subseteq visited'
    BY <1>1, <1>3 DEF SearchInv
  <2>2. Chained'
    BY <1>1, <1>2, <1>3 DEF SearchInv, Chained
  <2>3. ASSUME NEW q \in 1..Len(path'), NEW e \in 1..(at'[path'[q]] - 1)
        PROVE  Followed(q, e)'
    <3>1. q \in 1..(Len(path) - 1) /\ q \in 1..Len(path) /\ path'[q] = path[q]
      BY <1>2, <1>3
    <3>2. Followed(q, e)
      BY <1>1, <3>1 DEF SearchInv
    <3>3. CASE matrix[path[q]][e] \in LeftBehind
      BY <1>1, <1>4, <3>1, <3>2, <3>3 DEF Followed
    <3>4. CASE matrix[path[q]][e] = path[q + 1]
      <4>1. CASE q + 1 = Len(path)
        BY <1>1, <1>2, <1>4, <3>1, <3>2, <3>4, <4>1 DEF Followed
      <4>2. CASE q + 1 # Len(path)
        <5>1. q + 1 \in 1..(Len(path) - 1) /\ q < Len(path')
          BY <1>2, <1>3, <3>1, <4>2
        <5> QED
          BY <1>1, <1>3, <3>1, <3>2, <3>4, <5>1 DEF Followed
      <4> QED
        BY <4>1, <4>2
    <3> QED
      BY <3>2, <3>3, <3>4 DEF Followed
  <2>4. (\A i \in LeftBehind : ToSet(matrix[i]) \subseteq LeftBehind)'
    BY <1>1, <1>4, <1>5 DEF SearchInv
  <2> QED
    BY <1>1, <1>3, <2>1, <2>2, <2>3, <2>4 DEF SearchInv
<1>8. VerdictInv'
  <2>1. CASE stage = "check"
    <3>1. NoneDeadlocked(LeftBehind \cup {Here})
      BY <1>1, <1>4, <1>5, <2>1, LeavingNoCycle DEF VerdictInv, SearchInv
    <3>2. NoneDeadlocked(LeftBehind)'
      BY <1>1, <1>4, <3>1 DEF NoneDeadlocked, IsDeadlocked
    <3> QED
      BY <1>1, <2>1, <3>2 DEF VerdictInv
  <2>2. CASE stage = "sort"
    BY <1>1, <2>2 DEF VerdictInv, NoneDeadlocked, IsDeadlocked
  <2> QED
    BY <1>1, <2>1, <2>2 DEF Searching
<1>9. SortInv'
  <2>1. CASE stage = "check"
    <3>1. Injective(order)' /\ \A k \in 1..Len(order) : DependenciesNoted(k)'
      BY <1>1, <2>1, NotedStays
    <3> QED
      BY <1>1, <2>1, <3>1 DEF SortInv
  <2>2. CASE stage = "sort"
    <3>1. order' = Append(order, Here) /\ order \in Seq(Index) /\ Len(order) \in Nat
      BY <1>1, <2>2, EntryInSet DEF Noted, TypeInv
    <3>2. ToSet(order) = LeftBehind /\ Injective(order)
      BY <1>1, <2>2 DEF SortInv
    <3>3. /\ Len(order') = Len(order) + 1 /\ order'[Len(order')] = Here
          /\ \A k \in 1..Len(order) : order'[k] = order[k]
          /\ ToSet(order') = LeftBehind' /\ Injective(order')
      BY <1>2, <1>4, <3>1, <3>2, AddedLast
    <3>4. ASSUME NEW k \in 1..Len(order')
          PROVE  DependenciesNoted(k)'
      <4>1. CASE k = Len(order')
        <5>1. \A x \in ToSet(order) : \E l \in 1..(k - 1) : order'[l] = x
          BY <3>1, <3>3, <4>1, EntryInSet
        <5> QED
          BY <1>1, <1>5, <3>2, <3>3, <4>1, <5>1 DEF DependenciesNoted
      <4>2. CASE k # Len(order')
        <5>1. k \in 1..Len(order) /\ \A l \in 1..(k - 1) : order'[l] = order[l]
          BY <3>1, <3>3, <4>2
        <5>2. DependenciesNoted(k)
          BY <1>1, <5>1 DEF SortInv
        <5>3. \A x \in ToSet(matrix[order[k]]) : \E l \in 1..(k - 1) : x = order'[l]
          BY <5>1, <5>2 DEF DependenciesNoted
        <5> QED
          BY <1>1, <3>3, <5>1, <5>3 DEF DependenciesNoted
      <4> QED
        BY <4>1, <4>2
    <3>5. Injective(order)'
      BY <3>3 DEF Injective
    <3> QED
      BY <1>1, <2>2, <3>3, <3>4, <3>5 DEF SortInv
  <2> QED
    BY <1>1, <2>1, <2>2 DEF Searching
<1> QED
  BY <1>1, <1>6, <1>7, <1>8, <1>9, SearchFrame

\* When no search is under way and all tasks have been visited, all were left
\* behind.
LEMMA AllLeftBehind ==
    ASSUME TypeInv, SearchInv, path = <<>>, loop = N
    PROVE  LeftBehind = Index
<1>1. ToSet(path) = {}
  BY EntryInSet DEF TypeInv
<1>2. visited = Index
  BY DEF SearchInv, TypeInv, Index
<1> QED
  BY <1>1, <1>2 DEF LeftBehind

LEMMA BeginSortInv == Inv /\ BeginSort => Inv'
<1> SUFFICES ASSUME Inv, BeginSort PROVE Inv'
  OBVIOUS
<1> USE DEF Inv
<1>1. /\ TypeInv /\ SearchInv /\ VerdictInv /\ SortInv /\ TimesInv
      /\ stage = "check" /\ path = <<>> /\ loop = N
      /\ tasks' = [i \in Index |-> [tasks[i] EXCEPT !.deps = ToSet(matrix[i])]]
      /\ stage' = "sort" /\ loop' = 0 /\ at' = FirstEntries /\ visited' = {}
      /\ UNCHANGED <<matrix, spec, path, order, latest>>
  BY DEF BeginSort, Searching
<1>2. /\ Len(path) = 0 /\ ToSet(path) = {} /\ path = <<>> /\ order = <<>>
      /\ ToSet(order) = {} /\ Len(order) = 0
  BY <1>1, EmptySeq, EntryInSet DEF SortInv, TypeInv
<1>3. LeftBehind' = {}
  BY <1>1 DEF LeftBehind
<1>4. TypeInv'
  <2>1. tasks' \in [Index -> Task]
    <3>1. \A i \in Index : ToSet(matrix[i]) \subseteq Index
      BY <1>1, EntryInSet DEF TypeInv
    <3>2. ASSUME NEW i \in Index
          PROVE  [tasks[i] EXCEPT !.deps = ToSet(matrix[i])] \in Task
      <4>1. tasks[i] \in Task
        BY <1>1 DEF TypeInv
      <4> QED
        BY <3>1, <4>1 DEF Task
    <3> QED
      BY <1>1, <3>2
  <2>2. at' \in [Index -> Nat \ {0}]
    BY <1>1 DEF FirstEntries
  <2> QED
    BY <1>1, <2>1, <2>2 DEF TypeInv, Stage
<1>5. SearchInv'
  BY <1>1, <1>2, <1>3, Given DEF SearchInv, Injective, Chained, FirstEntries
<1>6. VerdictInv'
  <2>1. NoneDeadlocked(Index)
    BY <1>1, AllLeftBehind DEF VerdictInv
  <2>2. NoneDeadlocked(Index)'
    BY <1>1, <2>1 DEF NoneDeadlocked, IsDeadlocked
  <2> QED
    BY <1>1, <2>2 DEF VerdictInv
<1>7. SortInv'
  BY <1>1, <1>2, <1>3 DEF SortInv, Injective
<1>8. TimesInv'
  BY <1>1 DEF TimesInv
<1>9. ASSUME NEW i \in Index PROVE Keeps(i)'
  <2>1. Keeps(i) /\ tasks[i] \in Task
    BY <1>1 DEF TypeInv
  <2>2. /\ tasks'[i].index = tasks[i].index /\ tasks'[i].key = tasks[i].key
        /\ tasks'[i].act = tasks[i].act /\ tasks'[i].exp = tasks[i].exp
        /\ tasks'[i].deps = ToSet(matrix[i])
    BY <1>1, <2>1 DEF Task
  <2>3. Created(i)' = Created(i)
    BY <1>1 DEF Created
  <2> QED
    BY <1>1, <2>1, <2>2, <2>3 DEF Keeps
<1> QED
  BY <1>1, <1>4, <1>5, <1>6, <1>7, <1>8, <1>9

LEMMA BeginTimesInv == Inv /\ BeginTimes => Inv'
<1> SUFFICES ASSUME Inv, BeginTimes PROVE Inv'
  OBVIOUS
<1> USE DEF Inv
<1>1. /\ TypeInv /\ SearchInv /\ VerdictInv /\ SortInv /\ TimesInv
      /\ stage = "sort" /\ path = <<>> /\ loop = N
      /\ stage' = "times" /\ loop' = 0 /\ at' = FirstEntries
      /\ UNCHANGED <<matrix, spec, path, visited, order, latest, tasks>>
  BY DEF BeginTimes, Searching
<1>2. /\ ToSet(order) = Index /\ order \in Seq(Index) /\ Len(order) \in Nat
      /\ \A k \in 1..Len(order) : order[k] \in Index
  BY <1>1, AllLeftBehind, EntryInSet DEF SortInv, TypeInv
<1>3. \A i \in Index : at'[i] = 1
  BY <1>1 DEF FirstEntries
<1>4. TypeInv'
  BY <1>1, <1>3 DEF TypeInv, Stage, FirstEntries
<1>5. VerdictInv'
  BY <1>1 DEF VerdictInv, NoneDeadlocked, IsDeadlocked
<1>6. SortInv'
  <2>1. Injective(order)' /\ \A k \in 1..Len(order) : DependenciesNoted(k)'
    BY <1>1, NotedStays
  <2> QED
    BY <1>1, <1>2, <2>1 DEF SortInv
<1>7. TimesInv'
  <2>1. latest' = NoTime
    BY <1>1 DEF TimesInv
  <2>2. loop' < Len(order') => LookedAt(order[loop + 1])'
    <3>1. loop' < Len(order') => at'[order'[loop' + 1]] = 1
      BY <1>1, <1>2, <1>3
    <3> QED
      BY <2>1, <3>1 DEF LookedAt
  <2>3. (\A k \in (loop + 2)..Len(order) : at[order[k]] = 1)'
    BY <1>1, <1>2, <1>3
  <2> QED
    BY <1>1, <1>2, <2>1, <2>2, <2>3 DEF TimesInv
<1>8. \A i \in Index : Keeps(i)'
  BY <1>1 DEF Keeps, Created
<1> QED
  BY <1>1, <1>4, <1>5, <1>6, <1>7, <1>8 DEF Searching

-----------------------------------------------------------------------------
(* Times *)

\* The task the loop has come to; the tasks before it have been seen to, those
\* it depends on among them, and the tasks after it are untouched.
LEMMA AtTask ==
    ASSUME Inv, stage = "times", loop < Len(order), NEW i, i = InSortedOrder(loop)
    PROVE  /\ loop + 1 \in 1..Len(order) /\ Len(order) \in Nat
           /\ i = order[loop + 1] /\ i \in Index
           /\ \A k \in 1..Len(order) : order[k] \in Index
           /\ \A k \in 1..Len(order) : order[k] = i => k = loop + 1
           /\ \A k \in 1..(loop + 1) : \A j \in ToSet(matrix[order[k]]) :
                 \E l \in 1..(k - 1) : l \in 1..loop /\ j = order[l]
           /\ LookedAt(i)
           /\ matrix[i] \in Seq(Index) /\ Len(matrix[i]) \in Nat
           /\ \A e \in 1..Len(matrix[i]) : matrix[i][e] \in Index
           /\ at[i] \in Nat \ {0}
<1>1. loop \in Nat /\ order \in Seq(Index)
  BY DEF Inv, TypeInv
<1>2. Len(order) \in Nat /\ \A k \in 1..Len(order) : order[k] \in Index
  BY <1>1, EntryInSet
<1>3. loop + 1 \in 1..Len(order) /\ i = order[loop + 1] /\ i \in Index
  BY <1>1, <1>2 DEF InSortedOrder
<1>4. \A k \in 1..Len(order) : order[k] = i => k = loop + 1
  BY <1>3 DEF Inv, SortInv, Injective
<1>5. ASSUME NEW k \in 1..(loop + 1), NEW j \in ToSet(matrix[order[k]])
      PROVE  \E l \in 1..(k - 1) : l \in 1..loop /\ j = order[l]
  <2>1. DependenciesNoted(k)
    BY <1>1, <1>2, <1>3 DEF Inv, SortInv
  <2> QED
    BY <1>1, <2>1 DEF DependenciesNoted
<1>6. LookedAt(i)
  BY <1>3 DEF Inv, TimesInv
<1>7. matrix[i] \in Seq(Index) /\ at[i] \in Nat \ {0}
  BY <1>3 DEF Inv, TypeInv
<1> QED
  BY <1>2, <1>3, <1>4, <1>5, <1>6, <1>7, EntryInSet

\* The times of a task.
LEMMA TimesTyped ==
    ASSUME Inv, NEW j \in Index
    PROVE  /\ tasks[j].exp \in Nat /\ tasks[j].startMax \in Nat /\ tasks[j].act \in Nat
           /\ spec[j].dur \in Nat \ {0} /\ DueTime(j) \in Nat
<1>1. tasks[j] \in Task /\ spec[j] \in Specs
  BY DEF Inv, TypeInv
<1> QED
  BY <1>1, Given DEF Task, DueTime

LEMMA LookAtDependencyInv ==
    ASSUME Inv, ComputeTimes, NEW i, i = InSortedOrder(loop), LookAtDependency(i)
    PROVE  Inv'
<1> USE DEF Inv
<1>1. /\ TypeInv /\ VerdictInv /\ SortInv /\ TimesInv
      /\ stage = "times" /\ loop < Len(order)
      /\ latest' = LaterOf(latest, DueTime(matrix[i][at[i]]))
      /\ at' = [at EXCEPT ![i] = @ + 1]
      /\ UNCHANGED <<matrix, spec, stage, loop, path, visited, order, tasks>>
  BY DEF ComputeTimes, LookAtDependency
<1>2. /\ loop + 1 \in 1..Len(order) /\ Len(order) \in Nat
      /\ i = order[loop + 1] /\ i \in Index
      /\ \A k \in 1..Len(order) : order[k] \in Index
      /\ \A k \in 1..Len(order) : order[k] = i => k = loop + 1
      /\ LookedAt(i) /\ at[i] \in Nat \ {0} /\ Len(matrix[i]) \in Nat
      /\ \A e \in 1..Len(matrix[i]) : matrix[i][e] \in Index
  BY <1>1, AtTask
<1>3. at[i] \in 1..Len(matrix[i]) /\ matrix[i][at[i]] \in Index
  BY <1>2 DEF LookAtDependency
<1>4. DueTime(matrix[i][at[i]]) \in Nat /\ latest \in Nat /\ loop \in Nat
  BY <1>1, <1>3, TimesTyped DEF TypeInv
<1>5. /\ latest' \in Nat /\ latest <= latest' /\ DueTime(matrix[i][at[i]]) <= latest'
      /\ \/ latest' = DueTime(matrix[i][at[i]])
         \/ latest' = latest /\ latest # NoTime
  BY <1>1, <1>4 DEF LaterOf, NoTime
<1>6. at' \in [Index -> Nat \ {0}] /\ at'[i] = at[i] + 1
      /\ \A j \in Index \ {i} : at'[j] = at[j]
  <2>1. TypeInv /\ at' = [at EXCEPT ![i] = @ + 1]
    BY ONLY <1>1
  <2>2. at[i] \in Nat \ {0} /\ i \in Index
    BY ONLY <1>2
  <2>3. at \in [Index -> Nat \ {0}]
    BY ONLY <2>1 DEF TypeInv
  <2>4. at[i] + 1 \in Nat \ {0}
    BY ONLY <2>2
  <2> QED
    BY ONLY <2>1, <2>2, <2>3, <2>4
<1>7. \A j \in Index : DueTime(j)' = DueTime(j)
  BY <1>1 DEF DueTime
<1>8. LookedAt(i)'
  <2>1. ASSUME NEW e \in 1..(at'[i] - 1)
        PROVE  e <= Len(matrix'[i]) /\ DueTime(matrix[i][e])' <= latest'
    <3>1. e \in 1..Len(matrix[i])
      BY <1>2, <1>3, <1>6
    <3>2. matrix[i][e] \in Index /\ DueTime(matrix[i][e]) \in Nat
      BY <1>2, <3>1, TimesTyped
    <3>3. DueTime(matrix[i][e]) <= latest'
      <4>1. CASE e = at[i]
        BY <1>5, <4>1
      <4>2. CASE e # at[i]
        <5>1. e \in 1..(at[i] - 1)
          BY <1>2, <1>6, <4>2
        <5>2. DueTime(matrix[i][e]) <= latest
          BY <1>2, <5>1 DEF LookedAt
        <5> QED
          BY <1>4, <1>5, <3>2, <5>2
      <4> QED
        BY <4>1, <4>2
    <3>4. DueTime(matrix[i][e])' = DueTime(matrix[i][e])
      BY <1>1 DEF DueTime
    <3>5. e <= Len(matrix'[i])
      BY <1>1, <3>1, <1>2
    <3> QED
      BY ONLY <3>3, <3>4, <3>5
  <2>2. \E e \in 1..(at'[i] - 1) : latest' = DueTime(matrix[i][e])'
    <3>1. CASE latest' = DueTime(matrix[i][at[i]])
      <4>1. at[i] \in 1..(at'[i] - 1)
        BY <1>2, <1>6
      <4> QED
        BY <1>1, <3>1, <4>1 DEF DueTime
    <3>2. CASE latest' = latest /\ latest # NoTime
      <4>1. PICK e \in 1..(at[i] - 1) : latest = DueTime(matrix[i][e])
        BY <1>2, <3>2 DEF LookedAt
      <4>2. e \in 1..(at'[i] - 1)
        BY <1>2, <1>6, <4>1
      <4> QED
        BY <1>1, <3>2, <4>1, <4>2 DEF DueTime
    <3> QED
      BY <1>5, <3>1, <3>2
  <2> QED
    BY <1>1, <2>1, <2>2 DEF LookedAt, DueTime
<1>9. TypeInv'
  BY <1>1, <1>5, <1>6 DEF TypeInv
<1>10. VerdictInv'
  BY <1>1 DEF VerdictInv, NoneDeadlocked, IsDeadlocked
<1>11. SortInv'
  <2>1. Injective(order)' /\ \A k \in 1..Len(order) : DependenciesNoted(k)'
    BY <1>1, NotedStays
  <2> QED
    BY <1>1, <2>1 DEF SortInv
<1>12. TimesInv'
  <2>1. \A k \in (loop + 2)..Len(order) : at'[order[k]] = 1
    <3> SUFFICES ASSUME NEW k \in (loop + 2)..Len(order)
                 PROVE  at'[order[k]] = 1
      OBVIOUS
    <3>1. k \in 1..Len(order) /\ k # loop + 1
      BY <1>2, <1>4
    <3>2. order[k] \in Index \ {i}
      BY <1>2, <3>1
    <3> QED
      BY <1>1, <1>6, <3>2 DEF TimesInv
  <2>2. ASSUME NEW k \in 1..loop PROVE Timed(order[k])'
    <3>1. Timed(order[k])
      BY <1>1 DEF TimesInv
    <3>2. UNCHANGED <<matrix, spec, order, tasks>>
      BY ONLY <1>1
    <3> QED
      BY ONLY <3>1, <3>2 DEF Timed
  <2>3. LookedAt(order[loop + 1])'
    BY <1>1, <1>2, <1>8 DEF LookedAt
  <2> QED
    BY <1>1, <2>1, <2>2, <2>3 DEF TimesInv
<1>13. \A j \in Index : Keeps(j)'
  BY <1>1 DEF Keeps, Created
<1> QED
  BY <1>1, <1>9, <1>10, <1>11, <1>12, <1>13 DEF Searching

LEMMA SetTimesInv ==
    ASSUME Inv, ComputeTimes, NEW i, i = InSortedOrder(loop), SetTimes(i)
    PROVE  Inv'
<1> DEFINE start == LaterOf(latest, tasks[i].act)
<1>1. /\ TypeInv /\ VerdictInv /\ SortInv /\ TimesInv /\ \A j \in Index : Keeps(j)
      /\ stage = "times" /\ loop < Len(order)
      /\ at[i] \notin 1..Len(matrix[i])
      /\ tasks' = IF tasks[i].deps = {} THEN tasks
                  ELSE [tasks EXCEPT ![i].startMax = start,
                                     ![i].exp = Expiring(tasks[i], start + spec[i].dur)]
      /\ loop' = loop + 1 /\ latest' = NoTime
      /\ UNCHANGED <<matrix, spec, stage, path, at, visited, order>>
  BY DEF Inv, ComputeTimes, SetTimes
<1>2. /\ loop + 1 \in 1..Len(order) /\ Len(order) \in Nat /\ loop \in Nat
      /\ i = order[loop + 1] /\ i \in Index
      /\ \A k \in 1..Len(order) : order[k] \in Index
      /\ \A k \in 1..Len(order) : order[k] = i => k = loop + 1
      /\ LookedAt(i) /\ at[i] \in Nat \ {0}
      /\ matrix[i] \in Seq(Index) /\ Len(matrix[i]) \in Nat
      /\ \A e \in 1..Len(matrix[i]) : matrix[i][e] \in Index
  BY <1>1, AtTask DEF TypeInv
<1>3. \A k \in 1..(loop + 1) : \A j \in ToSet(matrix[order[k]]) :
         \E l \in 1..(k - 1) : l \in 1..loop /\ j = order[l]
  BY <1>1, AtTask
<1>4. /\ tasks[i] \in Task /\ tasks[i].deps = ToSet(matrix[i])
      /\ tasks[i].act \in Nat /\ latest \in Nat /\ spec[i].dur \in Nat \ {0}
  BY <1>1, <1>2, TimesTyped DEF Inv, TypeInv, Keeps
<1>5. tasks[i].deps = {} <=> matrix[i] = <<>>
  BY <1>2, <1>4, EntryInSet
\* The dependencies have their times, and are due when they expire.
<1>6. ASSUME NEW j \in ToSet(matrix[i])
      PROVE  /\ j \in Index /\ j # i /\ DueTime(j) = tasks[j].exp
             /\ tasks[j].exp \in Nat /\ tasks[j].exp >= Now /\ tasks[j].exp <= latest
  <2>1. PICK l \in 1..loop : j = order[l]
    <3>1. loop + 1 \in 1..(loop + 1) /\ j \in ToSet(matrix[order[loop + 1]])
      BY <1>2
    <3> QED
      BY <1>3, <3>1
  <2>2. j \in Index /\ j # i
    BY <1>2, <2>1
  <2>3. /\ tasks[j].exp \in Nat /\ tasks[j].startMax \in Nat
        /\ spec[j].dur \in Nat \ {0} /\ spec \in [Index -> Specs]
        /\ tasks[j].deps = ToSet(matrix[j]) /\ matrix[j] \in Seq(Index)
    BY <1>1, <2>2, TimesTyped DEF Inv, TypeInv, Keeps
  <2>4. DueTime(j) = tasks[j].exp /\ tasks[j].exp >= Now
    <3>1. CASE tasks[j].deps = {}
      BY <1>1, <2>2, <2>3, <3>1, CreatedTask DEF DueTime, Keeps
    <3>2. CASE tasks[j].deps # {}
      <4>1. matrix[j] # <<>>
        BY <2>3, <3>2, EntryInSet
      <4>2. tasks[j].exp = tasks[j].startMax + spec[j].dur /\ tasks[j].startMax >= Now
        BY <1>1, <2>1, <4>1 DEF TimesInv, Timed
      <4> QED
        BY <2>3, <3>2, <4>2, Given DEF DueTime
    <3> QED
      BY <3>1, <3>2
  <2>5. PICK e \in 1..Len(matrix[i]) : matrix[i][e] = j
    BY <1>2, EntryInSet
  <2>6. e \in 1..(at[i] - 1)
    BY <1>1, <1>2
  <2>7. DueTime(j) <= latest
    BY <1>2, <2>5, <2>6 DEF LookedAt
  <2> QED
    BY <2>2, <2>3, <2>4, <2>7
<1>7. ASSUME tasks[i].deps # {}
      PROVE  /\ \E j \in ToSet(matrix[i]) : latest = tasks[j].exp
             /\ latest >= Now /\ start \in Nat /\ start >= latest /\ start >= tasks[i].act
             /\ start \in {latest, tasks[i].act}
             /\ Expiring(tasks[i], start + spec[i].dur) = start + spec[i].dur
  <2>1. \E j \in ToSet(matrix[i]) : latest = tasks[j].exp
    <3>1. Len(matrix[i]) \in Nat \ {0}
      BY <1>2, <1>5, <1>7, EmptySeq
    <3>2. at[i] # 1
      BY <1>1, <1>2, <3>1
    <3>3. PICK e \in 1..(at[i] - 1) : latest = DueTime(matrix[i][e])
      BY <1>2, <3>2 DEF LookedAt
    <3>4. matrix[i][e] \in ToSet(matrix[i])
      BY <1>2, <3>3, EntryInSet DEF LookedAt
    <3> QED
      BY <1>6, <3>3, <3>4
  <2>2. latest >= Now
    BY <1>6, <2>1
  <2>3. /\ start \in Nat /\ start >= latest /\ start >= tasks[i].act
        /\ start \in {latest, tasks[i].act}
    BY <1>4 DEF LaterOf
  <2>4. ~(start + spec[i].dur < Now) /\ ~(start + spec[i].dur <= tasks[i].act)
    <3> HIDE DEF start
    <3> QED
      BY <1>4, <2>2, <2>3, Given
  <2> QED
    BY <2>1, <2>2, <2>3, <2>4 DEF Expiring
<1>8. /\ \A j \in Index \ {i} : tasks'[j] = tasks[j]
      /\ tasks[i].deps = {} => tasks' = tasks
      /\ tasks[i].deps # {} =>
            tasks'[i] = [tasks[i] EXCEPT !.startMax = start, !.exp = start + spec[i].dur]
      /\ tasks' \in [Index -> Task]
  <2> HIDE DEF start
  <2>1. CASE tasks[i].deps = {}
    BY <1>1, <2>1 DEF TypeInv
  <2>2. CASE tasks[i].deps # {}
    <3> DEFINE new == [tasks[i] EXCEPT !.startMax = start, !.exp = start + spec[i].dur]
    <3>1. new \in Task
      <4>1. start \in Nat /\ start + spec[i].dur \in Nat
        BY <1>4, <1>7, <2>2
      <4> QED
        BY <1>4, <4>1 DEF Task
    <3>2. tasks \in [Index -> Task]
      BY <1>1 DEF TypeInv
    <3>3. tasks' = [tasks EXCEPT ![i] = new]
      BY <1>1, <1>2, <1>4, <1>7, <2>2, <3>2 DEF Task
    <3> HIDE DEF new
    <3>4. /\ \A j \in Index \ {i} : tasks'[j] = tasks[j]
          /\ tasks'[i] = new
          /\ tasks' \in [Index -> Task]
      BY <1>2, <3>1, <3>2, <3>3
    <3> QED
      BY <2>2, <3>4 DEF new
  <2> QED
    BY <2>1, <2>2
<1>9. /\ tasks'[i].index = tasks[i].index /\ tasks'[i].key = tasks[i].key
      /\ tasks'[i].act = tasks[i].act /\ tasks'[i].deps = tasks[i].deps
      /\ tasks[i].deps # {} => /\ tasks'[i].startMax = start
                               /\ tasks'[i].exp = start + spec[i].dur
  <2> HIDE DEF start
  <2> QED
    BY <1>4, <1>8 DEF Task
<1> HIDE DEF start
<1>10. Timed(i)'
  <2> SUFFICES ASSUME tasks[i].deps # {} PROVE Timed(i)'
    BY <1>1, <1>5 DEF Timed
  <2>1. \A j \in ToSet(matrix[i]) : tasks'[j].exp = tasks[j].exp
    BY <1>6, <1>8
  <2>2. /\ tasks'[i].startMax \in {tasks'[j].exp : j \in ToSet(matrix[i])} \cup {tasks'[i].act}
        /\ \A j \in ToSet(matrix[i]) : tasks'[j].exp <= tasks'[i].startMax
        /\ tasks'[i].act <= tasks'[i].startMax
        /\ tasks'[i].exp = tasks'[i].startMax + spec[i].dur
        /\ tasks'[i].startMax >= Now
    <3>1. \A j \in ToSet(matrix[i]) : tasks'[j].exp <= start
      BY <1>4, <1>6, <1>7, <2>1
    <3>2. start >= Now
      BY <1>4, <1>7, Given
    <3>3. start \in {tasks'[j].exp : j \in ToSet(matrix[i])} \cup {tasks'[i].act}
      BY <1>7, <1>9, <2>1
    <3> QED
      BY <1>7, <1>9, <3>1, <3>2, <3>3
  <2> QED
    BY <1>1, <2>2 DEF Timed
<1>11. ASSUME NEW k \in 1..loop PROVE Timed(order[k])'
  <2>1. order[k] \in Index \ {i} /\ k \in 1..(loop + 1)
    BY <1>2
  <2>2. \A j \in ToSet(matrix[order[k]]) : tasks'[j] = tasks[j]
    <3> SUFFICES ASSUME NEW j \in ToSet(matrix[order[k]]) PROVE tasks'[j] = tasks[j]
      OBVIOUS
    <3>1. PICK l \in 1..loop : j = order[l]
      BY <1>3, <2>1
    <3> QED
      BY <1>2, <1>8, <3>1
  <2>3. tasks'[order[k]] = tasks[order[k]]
    BY <1>8, <2>1
  <2>4. Timed(order[k])
    BY <1>1 DEF TimesInv
  <2> DEFINE m == order[k]
             before == {tasks[j].exp : j \in ToSet(matrix[m])} \cup {tasks[m].act}
             after == {tasks'[j].exp : j \in ToSet(matrix[m])} \cup {tasks'[m].act}
  <2>5. after = before
    BY <2>2, <2>3
  <2> QED
    BY <1>1, <2>3, <2>4, <2>5 DEF Timed
<1>12. TypeInv'
  <2>1. /\ TypeInv
        /\ UNCHANGED <<matrix, spec, stage, path, at, visited, order>>
    BY ONLY <1>1
  <2>2. loop' \in Nat /\ latest' \in Nat
    BY <1>1, <1>2 DEF NoTime
  <2>3. tasks' \in [Index -> Task]
    BY ONLY <1>8
  <2> QED
    BY ONLY <2>1, <2>2, <2>3 DEF TypeInv
<1>13. VerdictInv'
  BY <1>1 DEF VerdictInv, NoneDeadlocked, IsDeadlocked
<1>14. SortInv'
  BY <1>1, NotedStays DEF SortInv
<1>15. TimesInv'
  <2>1. loop' <= Len(order') /\ \A k \in 1..loop' : Timed(order[k])'
    BY <1>1, <1>2, <1>10, <1>11
  <2>2. \A k \in (loop' + 2)..Len(order) : at[order[k]] = 1
    BY <1>1, <1>2 DEF TimesInv
  <2>3. loop' < Len(order) => LookedAt(order[loop + 1])'
    <3>1. loop' < Len(order) => loop + 2 \in (loop + 2)..Len(order)
      BY <1>1, <1>2
    <3>2. loop' < Len(order) => at[order[loop + 2]] = 1
      BY <1>1, <3>1 DEF TimesInv
    <3>3. loop' + 1 = loop + 2
      BY <1>1, <1>2
    <3> QED
      BY <1>1, <3>2, <3>3 DEF LookedAt
  <2> QED
    BY <1>1, <2>1, <2>2, <2>3 DEF TimesInv
<1>16. ASSUME NEW j \in Index PROVE Keeps(j)'
  <2>1. Created(j)' = Created(j)
    BY <1>1 DEF Created
  <2>2. CASE j = i
    <3>1. tasks'[i].deps = {} => tasks'[i].exp = tasks[i].exp
      BY <1>8, <1>9
    <3>2. Keeps(i) /\ UNCHANGED <<matrix, spec, stage>>
      BY ONLY <1>1, <1>2
    <3>3. /\ tasks'[i].index = tasks[i].index /\ tasks'[i].key = tasks[i].key
          /\ tasks'[i].act = tasks[i].act /\ tasks'[i].deps = tasks[i].deps
      BY ONLY <1>9
    <3> QED
      BY ONLY <2>1, <2>2, <3>1, <3>2, <3>3 DEF Keeps
  <2>3. CASE j # i
    BY <1>1, <1>8, <2>1, <2>3 DEF Keeps
  <2> QED
    BY <2>2, <2>3
<1> QED
  BY <1>1, <1>12, <1>13, <1>14, <1>15, <1>16 DEF Inv, Searching

LEMMA AcceptInv == Inv /\ Accept => Inv'
<1> SUFFICES ASSUME Inv, Accept PROVE Inv'
  OBVIOUS
<1>1. /\ TypeInv /\ VerdictInv /\ SortInv /\ TimesInv
      /\ stage = "times" /\ loop = Len(order) /\ stage' = "accepted"
      /\ UNCHANGED <<matrix, spec, loop, path, at, visited, order, latest, tasks>>
  BY DEF Inv, Accept, searchVars
<1>2. TypeInv'
  BY <1>1 DEF TypeInv, Stage
<1>3. VerdictInv'
  BY <1>1 DEF VerdictInv, NoneDeadlocked, IsDeadlocked
<1>4. SortInv'
  BY <1>1, NotedStays DEF SortInv
<1>5. TimesInv'
  BY <1>1 DEF TimesInv, Timed
<1>6. \A i \in Index : Keeps(i)'
  BY <1>1 DEF Inv, Keeps, Created
<1> QED
  BY <1>1, <1>2, <1>3, <1>4, <1>5, <1>6 DEF Inv, Searching

LEMMA StutterInv == Inv /\ UNCHANGED vars => Inv'
<1> SUFFICES ASSUME Inv, UNCHANGED vars PROVE Inv'
  OBVIOUS
<1>1. /\ TypeInv /\ VerdictInv /\ SortInv /\ TimesInv
      /\ UNCHANGED <<matrix, spec, stage, loop, path, at, visited, order, latest, tasks>>
  BY DEF Inv, vars, searchVars
<1>2. TypeInv'
  BY <1>1 DEF TypeInv
<1>3. (Searching => SearchInv)'
  BY <1>1 DEF Inv, Searching, SearchInv, Injective, Chained, Followed, LeftBehind
<1>4. VerdictInv' /\ SortInv'
  BY <1>1, NoneLeft DEF LeftBehind
<1>5. TimesInv'
  <2>1. /\ \A j : DueTime(j)' = DueTime(j)
        /\ \A j : Timed(j)' <=> Timed(j)
    BY <1>1 DEF DueTime, Timed
  <2>2. \A j : LookedAt(j)' <=> LookedAt(j)
    BY <1>1, <2>1 DEF LookedAt
  <2> QED
    BY <1>1, <2>1, <2>2 DEF TimesInv
<1>6. \A i \in Index : Keeps(i)'
  BY <1>1 DEF Inv, Keeps, Created
<1> QED
  BY <1>2, <1>3, <1>4, <1>5, <1>6 DEF Inv

-----------------------------------------------------------------------------
(* Theorems *)

\* What one call of SetTaskDependency keeps true at every step of its loops and
\* of its recursion, whatever the sequence and the matrix.
THEOREM Invariance == Spec => []Inv
<1>1. ASSUME Inv, [Next]_vars PROVE Inv'
  <2>1. CASE SearchFrom
    BY <1>1, <2>1, SearchFromInv
  <2>2. CASE FollowDependency
    BY <1>1, <2>2, FollowDependencyInv
  <2>3. CASE FindCycle
    BY <1>1, <2>3, FindCycleInv
  <2>4. CASE Return
    BY <1>1, <2>4, ReturnInv
  <2>5. CASE BeginSort
    BY <1>1, <2>5, BeginSortInv
  <2>6. CASE BeginTimes
    BY <1>1, <2>6, BeginTimesInv
  <2>7. CASE ComputeTimes
    BY <1>1, <2>7, LookAtDependencyInv, SetTimesInv DEF ComputeTimes
  <2>8. CASE Accept
    BY <1>1, <2>8, AcceptInv
  <2>9. CASE UNCHANGED vars
    BY <1>1, <2>9, StutterInv
  <2> QED
    BY <1>1, <2>1, <2>2, <2>3, <2>4, <2>5, <2>6, <2>7, <2>8, <2>9 DEF Next
<1> QED
  BY InitInv, <1>1, PTL DEF Spec

\* SetTaskDependency (HasCyclicDependencies, CheckCyclicDependencies) refuses a
\* matrix exactly when it makes tasks wait for each other.
THEOREM CyclesRefusedTheorem == Spec => []CyclesRefused
<1>1. Inv => CyclesRefused
  BY DEF Inv, VerdictInv, NoneDeadlocked, CyclesRefused
<1> QED
  BY <1>1, Invariance, PTL

\* FindSortingIndexes and Sorter put every task once into the sorted sequence,
\* after the tasks it depends on.
THEOREM SortedTheorem == Spec => []SortedTopologically
<1>1. Inv => SortedTopologically
  BY DEF Inv, SortInv, DependenciesNoted, Injective, SortedTopologically
<1> QED
  BY <1>1, Invariance, PTL

\* At the end of SetTaskDependency all tasks have been seen to.
LEMMA AllTimed ==
    ASSUME Inv, stage = "accepted", NEW i \in Index
    PROVE  Timed(i)
<1>1. PICK k \in 1..Len(order) : order[k] = i
  BY EntryInSet DEF Inv, TypeInv, SortInv
<1> QED
  BY <1>1 DEF Inv, TimesInv

\* A dependent task may start when the last of its dependencies has expired,
\* but not before its activation time, and then has its full duration.
THEOREM TimesFitTheorem == Spec => []TimesFit
<1>1. Inv => TimesFit
  BY AllTimed DEF Timed, TimesFit
<1> QED
  BY <1>1, Invariance, PTL

\* The times given let every task start after those it depends on: what
\* CompareTask needs to be an order.
LEMMA TasksFit ==
    ASSUME Inv, stage = "accepted"
    PROVE  LET S == {tasks[i] : i \in Index}
           IN  Comparable(S) /\ StartsAfterDependencies(S)
<1> DEFINE S == {tasks[i] : i \in Index}
<1>1. \A i \in Index : tasks[i] \in Task /\ Keeps(i)
  BY DEF Inv, TypeInv
<1>2. Comparable(S)
  <2>1. \A i \in Index : {tasks[i].act, tasks[i].startMax, tasks[i].exp,
                          tasks[i].prio, tasks[i].key} \subseteq Int
    BY <1>1 DEF Task, Index
  <2>2. \A i, j \in Index : tasks[i].key = tasks[j].key => tasks[i] = tasks[j]
    BY <1>1 DEF Keeps
  <2> QED
    BY <2>1, <2>2 DEF Comparable
<1>3. ASSUME NEW i \in Index, NEW j \in Index, DependsOn(tasks[j], tasks[i])
      PROVE  StartsAtOnce(tasks[i]) \/ StartTime(tasks[i]) < StartTime(tasks[j])
  <2>1. /\ i \in ToSet(matrix[j]) /\ tasks[j].deps = ToSet(matrix[j])
        /\ tasks[i].deps = ToSet(matrix[i])
        /\ matrix[i] \in Seq(Index) /\ matrix[j] \in Seq(Index)
        /\ spec[i] \in Specs /\ spec \in [Index -> Specs] /\ tasks[i].act = spec[i].act
    BY <1>1, <1>3 DEF DependsOn, Keeps, Inv, TypeInv
  <2>2. matrix[j] # <<>> /\ StartTime(tasks[j]) = tasks[j].startMax
    BY <2>1, EntryInSet DEF StartTime
  <2>3. tasks[i].exp <= tasks[j].startMax
    BY <2>1, <2>2, AllTimed DEF Timed
  <2>4. /\ tasks[i].exp \in Nat /\ tasks[i].startMax \in Nat /\ tasks[i].act \in Nat
        /\ spec[i].dur \in Nat \ {0} /\ tasks[j].startMax \in Nat
    BY TimesTyped
  <2>5. CASE tasks[i].deps # {}
    <3>1. matrix[i] # <<>>
      BY <2>1, <2>5, EntryInSet
    <3>2. tasks[i].exp = tasks[i].startMax + spec[i].dur
      BY <3>1, AllTimed DEF Timed
    <3> QED
      BY <2>2, <2>3, <2>4, <2>5, <3>2 DEF StartTime
  <2>6. CASE tasks[i].deps = {} /\ tasks[i].act # NoTime
    <3>1. tasks[i].exp = tasks[i].act + spec[i].dur
      BY <1>1, <2>1, <2>6, CreatedTask DEF Keeps
    <3> QED
      BY <2>2, <2>3, <2>4, <2>6, <3>1 DEF StartTime
  <2> QED
    BY <2>5, <2>6 DEF StartsAtOnce
<1>4. StartsAfterDependencies(S)
  BY <1>3 DEF StartsAfterDependencies
<1> QED
  BY <1>2, <1>4

\* After SetTaskDependency CompareTask orders the tasks of the sequence totally
\* and every task after those it depends on.
THEOREM QueueOrderTheorem == Spec => []QueueOrderTotal
<1>1. Inv => QueueOrderTotal
  <2> SUFFICES ASSUME Inv, stage = "accepted", NEW i \in Index, NEW j \in Index
               PROVE  /\ i # j => (Before(tasks[i], tasks[j]) <=> ~Before(tasks[j], tasks[i]))
                      /\ ~Before(tasks[i], tasks[i])
                      /\ DependsOn(tasks[j], tasks[i]) => Before(tasks[i], tasks[j])
                      /\ \A k \in Index : Before(tasks[i], tasks[j]) /\ Before(tasks[j], tasks[k])
                                             => Before(tasks[i], tasks[k])
    BY DEF QueueOrderTotal
  <2> DEFINE S == {tasks[k] : k \in Index}
  <2>1. Comparable(S) /\ StartsAfterDependencies(S)
    BY TasksFit
  <2>2. /\ \A a \in S : ~Before(a, a)
        /\ \A a, b \in S : a # b => (Before(a, b) <=> ~Before(b, a))
        /\ \A a, b, c \in S : Before(a, b) /\ Before(b, c) => Before(a, c)
    BY <2>1, QueueOrder
  <2>3. DependsOn(tasks[j], tasks[i]) => Before(tasks[i], tasks[j])
    BY <2>1, DependenciesFirst
  <2>4. i # j => tasks[i] # tasks[j]
    BY DEF Inv, Keeps
  <2>5. \A k \in Index : tasks[k] \in S
    OBVIOUS
  <2> HIDE DEF S
  <2> QED
    BY <2>2, <2>3, <2>4, <2>5
<1> QED
  BY <1>1, Invariance, PTL

\* What the scheduler takes for granted of tasks (InfoAssumption and
\* OrderAssumption of TaskManager), for the tasks of one sequence; tasks of
\* different sequences do not depend on each other, and keys are unique.
ReadyForScheduler ==
    stage = "accepted" =>
        LET S == {tasks[i] : i \in Index} IN
        /\ Comparable(S) /\ StartsAfterDependencies(S)
        /\ \A a \in S : /\ a.act < a.exp
                        /\ a.deps # {} => a.act <= a.startMax
        /\ \A a, b \in S : a.index = b.index => a = b

\* SetTaskDependency hands the scheduler tasks that meet its assumptions,
\* whatever times its caller chose: so the theorems about TaskManager apply.
THEOREM ReadyTheorem == Spec => []ReadyForScheduler
<1>1. ASSUME Inv, stage = "accepted", NEW i \in Index
      PROVE  /\ tasks[i].act < tasks[i].exp
             /\ tasks[i].deps # {} => tasks[i].act <= tasks[i].startMax
  <2>1. /\ Keeps(i) /\ tasks[i].deps = ToSet(matrix[i]) /\ matrix[i] \in Seq(Index)
        /\ spec \in [Index -> Specs] /\ tasks[i].act = spec[i].act
    BY <1>1 DEF Inv, TypeInv, Keeps
  <2>2. /\ tasks[i].exp \in Nat /\ tasks[i].startMax \in Nat /\ tasks[i].act \in Nat
        /\ spec[i].dur \in Nat \ {0}
    BY <1>1, TimesTyped
  <2>3. CASE tasks[i].deps = {}
    <3>1. /\ tasks[i].exp >= Now
          /\ spec[i].act # NoTime => tasks[i].exp = spec[i].act + spec[i].dur
      BY <2>1, <2>3, CreatedTask DEF Keeps
    <3> QED
      BY <2>1, <2>2, <2>3, <3>1, Given DEF NoTime
  <2>4. CASE tasks[i].deps # {}
    <3>1. matrix[i] # <<>>
      BY <2>1, <2>4, EntryInSet
    <3>2. tasks[i].act <= tasks[i].startMax /\ tasks[i].exp = tasks[i].startMax + spec[i].dur
      BY <1>1, <3>1, AllTimed DEF Timed
    <3> QED
      BY <2>2, <3>2
  <2> QED
    BY <2>3, <2>4
<1>2. Inv => ReadyForScheduler
  <2> SUFFICES ASSUME Inv, stage = "accepted"
               PROVE  ReadyForScheduler
    BY DEF ReadyForScheduler
  <2>1. \A i, j \in Index : tasks[i].index = tasks[j].index => tasks[i] = tasks[j]
    BY DEF Inv, Keeps
  <2> QED
    BY <1>1, <2>1, TasksFit DEF ReadyForScheduler
<1> QED
  BY <1>2, Invariance, PTL
=============================================================================
