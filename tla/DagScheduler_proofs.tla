------------------------- MODULE DagScheduler_proofs -------------------------
(***************************************************************************)
(* Theorems about DagScheduler for every set of tasks, every dependency    *)
(* lists (repeated entries included) and every concurrency limit.          *)
(*                                                                         *)
(* The argument is one inductive invariant, IndInv.  Its heart is Counting:*)
(* the counter remaining[t] never falls below the number of dependencies   *)
(* that have not completed, so that it can reach zero only when they all   *)
(* have; and every coroutine that is alive is in in_flight, so that the    *)
(* tests len(in_flight) <= 1 and tasks_left == 0 mean what they are used   *)
(* for.                                                                    *)
(*                                                                         *)
(* Two more results rest on it.  If no list repeats an entry the counter is*)
(* exact, and whoever is ready has been launched (Exact).  And the module  *)
(* implements TaskOrder (Recorded): of the tasks that are over, only one   *)
(* that raised has left no result, and it stops all launches.  So nobody is*)
(* skipped because of it, and a call that returns has all results.         *)
(***************************************************************************)
EXTENDS DagScheduler, FiniteSetTheorems, TLAPS

Alive == {"launched", "queued", "running"}

\* TypeOK with the bound on sem left to SlotsCounted.
Types ==
  /\ depends \in Graphs
  /\ remaining \in [Tasks -> Nat]
  /\ pc \in [Tasks -> Alive \cup {"idle", "done"}]
  /\ result \in [Tasks -> {"none", "ok", "failed", "skipped"}]
  /\ failed \subseteq completed
  /\ completed = {t \in Tasks : pc[t] = "done"}
  /\ tasksLeft = Cardinality(Tasks \ completed)
  /\ inFlight \subseteq Tasks
  /\ fatal \in BOOLEAN
  /\ allDone \in BOOLEAN

CallTypes ==
  /\ main \in {"waiting", "gathering", "returned", "raised", "cancelled"}
  /\ gathered \subseteq Tasks

Counting ==
  /\ \A t \in Tasks : pc[t] # "idle" => Deps(t) \subseteq completed
  /\ \A t \in Tasks :
       pc[t] = "idle" => Cardinality(Deps(t) \ completed) <= remaining[t]
  /\ \A t \in Tasks : pc[t] \in Alive => t \in inFlight
  /\ QuiescentWhenSignalled

\* The coroutines that own a slot of the semaphore.
Waiting == {waiters[i] : i \in DOMAIN waiters}
Holders ==
  {t \in Tasks : pc[t] = "running" \/ (pc[t] = "queued" /\ t \notin Waiting)}

SlotsCounted ==
  /\ waiters \in Seq(Tasks)
  /\ \A i \in DOMAIN waiters : pc[waiters[i]] = "queued"
  /\ \A i, j \in DOMAIN waiters : waiters[i] = waiters[j] => i = j
  /\ sem \in Nat
  /\ sem + Cardinality(Holders) = MaxConcurrency

Results ==
  /\ \A t \in Tasks : pc[t] # "done" => result[t] = "none"
  /\ \A t \in completed : result[t] = "ok" <=> t \notin failed
  /\ DependenciesFirst

\* How the end of t's coroutine moves the others: some idle ones are launched.
Moves(t) ==
  /\ completed' = completed \cup {t}
  /\ \A u \in Tasks :
       IF u = t THEN pc'[u] = "done"
       ELSE pc'[u] = pc[u] \/ (pc[u] = "idle" /\ pc'[u] = "launched")

IndInv == Types /\ CallTypes /\ Counting /\ SlotsCounted /\ Results
-----------------------------------------------------------------------------
\* Dependencies are tasks, and every set of tasks is finite.
LEMMA DepsAreTasks ==
  ASSUME depends \in Graphs, NEW t \in Tasks
  PROVE  Deps(t) \subseteq Tasks
BY GraphsAssumption DEF Deps

LEMMA FiniteTaskSet ==
  ASSUME NEW S \in SUBSET Tasks
  PROVE  IsFiniteSet(S) /\ Cardinality(S) \in Nat
BY TasksAssumption, FS_Subset, FS_CardinalityType

\* Taking out an element makes a finite set smaller by one.
LEMMA OneLess ==
  ASSUME NEW S, IsFiniteSet(S), NEW x \in S
  PROVE  /\ Cardinality(S) \in Nat \ {0}
         /\ Cardinality(S \ {x}) = Cardinality(S) - 1
BY FS_RemoveElement, FS_CardinalityType, FS_EmptySet

LEMMA DisjointUnion ==
  ASSUME NEW S, IsFiniteSet(S), NEW T, IsFiniteSet(T), S \cap T = {}
  PROVE  Cardinality(S \cup T) = Cardinality(S) + Cardinality(T)
<1>1. Cardinality(S \cup T) = Cardinality(S) + Cardinality(T) - Cardinality(S \cap T)
  BY FS_Union
<1>2. Cardinality(S \cap T) = 0
  BY FS_EmptySet
<1> QED BY <1>1, <1>2, FS_CardinalityType

\* A list is at least as long as the set of its entries is large.
LEMMA ListCoversSet ==
  ASSUME depends \in Graphs, NEW t \in Tasks
  PROVE  Len(depends[t]) \in Nat /\ Cardinality(Deps(t)) <= Len(depends[t])
<1> DEFINE s == depends[t]
<1>1. s \in Seq(Tasks)
  BY GraphsAssumption
<1>2. Len(s) \in Nat /\ DOMAIN s = 1 .. Len(s)
  BY <1>1
<1>3. s \in [1 .. Len(s) -> Deps(t)]
  BY <1>1, <1>2 DEF Deps
<1>4. s \in Surjection(1 .. Len(s), Deps(t))
  BY <1>2, <1>3 DEF Surjection, Deps
<1>5. IsFiniteSet(1 .. Len(s)) /\ Cardinality(1 .. Len(s)) = Len(s)
  BY <1>2, FS_Interval
<1>6. Cardinality(Deps(t)) <= Cardinality(1 .. Len(s))
  BY <1>4, <1>5, FS_Surjection
<1> QED BY <1>2, <1>5, <1>6

\* The end of a coroutine keeps the tables and the counters in agreement.
LEMMA CompleteKeepsCounts ==
  ASSUME Types, Counting,
         NEW t \in Tasks, pc[t] \in Alive,
         NEW isFailed \in BOOLEAN, NEW isFatal \in BOOLEAN,
         Complete(t, isFailed, isFatal),
         depends' = depends,
         result' \in [Tasks -> {"none", "ok", "failed", "skipped"}]
  PROVE  Types' /\ Counting' /\ Moves(t)
<1> USE DEF Types, Counting, BecomesReady, LastInFlight
<1> DEFINE Ready == BecomesReady(t)
<1>1. t \notin completed /\ t \in inFlight /\ ~allDone
  BY DEF Alive, QuiescentWhenSignalled
<1>2. /\ fatal' = (fatal \/ isFatal)
      /\ failed' = IF isFailed THEN failed \cup {t} ELSE failed
      /\ completed' = completed \cup {t}
      /\ tasksLeft' = tasksLeft - 1
  BY DEF Complete
<1>3. \A u \in Tasks : Deps(u)' = Deps(u)
  BY DEF Deps
<1>4. tasksLeft' = Cardinality(Tasks \ completed')
  <2> DEFINE open == Tasks \ completed
  <2>1. Tasks \ completed' = open \ {t} /\ t \in open
    BY <1>1, <1>2
  <2>2. IsFiniteSet(open)
    BY FiniteTaskSet
  <2>3. tasksLeft = Cardinality(open)
    OBVIOUS
  <2> HIDE DEF open
  <2>4. Cardinality(open \ {t}) = tasksLeft - 1
    BY <2>1, <2>2, <2>3, OneLess
  <2> QED BY <1>2, <2>1, <2>4
\* Every task that waits for t is idle, and loses one open dependency.
<1>5. ASSUME NEW u \in Dependents(t)
      PROVE  /\ pc[u] = "idle"
             /\ Cardinality(Deps(u) \ completed') \in Nat
             /\ remaining[u] - 1 \in Nat
             /\ Cardinality(Deps(u) \ completed') <= remaining[u] - 1
  <2>1. u \in Tasks /\ t \in Deps(u)
    BY DEF Dependents
  <2>2. pc[u] = "idle"
    BY <1>1, <2>1
  <2> DEFINE open == Deps(u) \ completed
  <2>3. Deps(u) \ completed' = open \ {t} /\ t \in open
    BY <1>1, <1>2, <2>1
  <2>4. IsFiniteSet(open)
    BY <2>1, DepsAreTasks, FiniteTaskSet
  <2>5. Cardinality(open) <= remaining[u] /\ remaining[u] \in Nat
    BY <2>1, <2>2
  <2> HIDE DEF open
  <2>6. /\ Cardinality(open \ {t}) \in Nat
        /\ remaining[u] - 1 \in Nat
        /\ Cardinality(open \ {t}) <= remaining[u] - 1
    BY <2>3, <2>4, <2>5, OneLess
  <2> USE DEF open
  <2> QED BY <2>1, <2>2, <2>3, <2>5, <2>6
<1>6. CASE /\ fatal'
           /\ allDone' = (allDone \/ Cardinality(inFlight) <= 1)
           /\ pc' = [pc EXCEPT ![t] = "done"]
           /\ UNCHANGED <<remaining, inFlight>>
  <2>1. Types'
    BY <1>2, <1>4, <1>6
  <2>2. ASSUME NEW u \in Tasks, pc'[u] # "idle"
        PROVE  Deps(u)' \subseteq completed'
    BY <1>2, <1>3, <1>6, <2>2 DEF Alive
  <2>3. ASSUME NEW u \in Tasks, pc'[u] = "idle"
        PROVE  Cardinality(Deps(u) \ completed') <= remaining[u]
    <3>1. CASE u \in Dependents(t)
      <4>1. remaining[u] \in Nat
        OBVIOUS
      <4> QED BY <1>5, <3>1, <4>1
    <3>2. CASE u \notin Dependents(t)
      <4>1. Deps(u) \ completed' = Deps(u) \ completed
        BY <1>2, <3>2 DEF Dependents
      <4>2. pc[u] = "idle"
        BY <1>6, <2>3
      <4> QED BY <4>1, <4>2
    <3> QED BY <3>1, <3>2
  <2>4. ASSUME allDone', NEW u \in Tasks
        PROVE  pc'[u] \in {"idle", "done"}
    <3>1. Cardinality(inFlight) \in Nat /\ Cardinality(inFlight) <= 1 /\ IsFiniteSet(inFlight)
      BY <1>1, <1>6, <2>4, FiniteTaskSet
    <3>2. Cardinality(inFlight) # 0
      BY <1>1, <3>1, FS_EmptySet
    <3>3. inFlight = {t}
      BY <1>1, <3>1, <3>2, FS_Singleton
    <3> QED BY <1>6, <3>3 DEF Alive
  <2>5. \A u \in Tasks : pc'[u] \in Alive => u \in inFlight'
    BY <1>6 DEF Alive
  <2>6. Moves(t)
    BY <1>2, <1>6 DEF Moves
  <2> QED BY <1>3, <1>6, <2>1, <2>2, <2>3, <2>4, <2>5, <2>6 DEF QuiescentWhenSignalled
<1>7. CASE /\ ~fatal'
           /\ remaining' = [u \in Tasks |->
                IF u \in Dependents(t) \ completed' THEN remaining[u] - 1
                                                    ELSE remaining[u]]
           /\ pc' = [u \in Tasks |-> IF u = t THEN "done"
                                     ELSE IF u \in Ready THEN "launched"
                                     ELSE pc[u]]
           /\ inFlight' = inFlight \cup Ready
           /\ allDone' = (allDone \/ tasksLeft' = 0)
  <2>1. \A u \in Ready : pc[u] = "idle" /\ u \in Tasks
    BY <1>5 DEF Dependents
  <2>2. remaining' \in [Tasks -> Nat]
    <3>1. \A u \in Tasks : remaining[u] \in Nat
      OBVIOUS
    <3>2. \A u \in Dependents(t) : remaining[u] - 1 \in Nat
      BY <1>5
    <3> QED BY <1>7, <3>1, <3>2
  <2>3. completed' = {u \in Tasks : pc'[u] = "done"}
    BY <1>2, <1>7, <2>1
  <2>4. Types'
    <3>1. pc' \in [Tasks -> Alive \cup {"idle", "done"}]
      BY <1>7 DEF Alive
    <3>2. inFlight' \subseteq Tasks
      BY <1>7, <2>1
    <3>3. failed' \subseteq completed'
      BY <1>2
    <3>4. fatal' \in BOOLEAN /\ allDone' \in BOOLEAN
      BY <1>2, <1>7
    <3> QED BY <1>4, <2>2, <2>3, <3>1, <3>2, <3>3, <3>4
  <2>5. ASSUME NEW u \in Tasks, pc'[u] # "idle"
        PROVE  Deps(u) \subseteq completed'
    <3>1. CASE u \in Ready
      <4>1. remaining[u] = 1 /\ u \in Dependents(t)
        BY <3>1
      <4>3. Cardinality(Deps(u) \ completed') = 0
        BY <1>5, <4>1
      <4>2. IsFiniteSet(Deps(u) \ completed')
        BY DepsAreTasks, FiniteTaskSet
      <4> QED BY <4>2, <4>3, FS_EmptySet
    <3>2. CASE u \notin Ready
      BY <1>2, <1>7, <2>5, <3>2 DEF Alive
    <3> QED BY <3>1, <3>2
  <2>6. ASSUME NEW u \in Tasks, pc'[u] = "idle"
        PROVE  Cardinality(Deps(u) \ completed') <= remaining'[u]
    <3>1. CASE u \in Dependents(t)
      <4>1. u \notin completed'
        BY <2>3, <2>6
      <4>2. remaining'[u] = remaining[u] - 1
        BY <1>7, <3>1, <4>1
      <4> QED BY <1>5, <3>1, <4>2
    <3>2. CASE u \notin Dependents(t)
      <4>1. Deps(u) \ completed' = Deps(u) \ completed
        BY <1>2, <3>2 DEF Dependents
      <4>2. remaining'[u] = remaining[u]
        BY <1>7, <3>2
      <4>3. pc[u] = "idle"
        BY <1>7, <2>6
      <4> QED BY <4>1, <4>2, <4>3
    <3> QED BY <3>1, <3>2
  <2>7. ASSUME allDone', NEW u \in Tasks
        PROVE  pc'[u] \in {"idle", "done"}
    <3>1. Cardinality(Tasks \ completed') = 0 /\ IsFiniteSet(Tasks \ completed')
      BY <1>1, <1>4, <1>7, <2>7, FiniteTaskSet
    <3>2. Tasks \subseteq completed'
      BY <3>1, FS_EmptySet
    <3> QED BY <2>3, <3>2
  <2>8. \A u \in Tasks : pc'[u] \in Alive => u \in inFlight'
    BY <1>7 DEF Alive
  <2>9. Moves(t)
    BY <1>2, <1>7, <2>1 DEF Moves
  <2> QED BY <1>3, <2>4, <2>5, <2>6, <2>7, <2>8, <2>9 DEF QuiescentWhenSignalled
<1> QED BY <1>6, <1>7 DEF Complete

\* Waking the first n waiters of the queue: they are n coroutines that were
\* waiting, and exactly the others keep waiting.
Woken(n) == {waiters[i] : i \in 1 .. n}

LEMMA WakeSplitsQueue ==
  ASSUME waiters \in Seq(Tasks),
         \A i, j \in DOMAIN waiters : waiters[i] = waiters[j] => i = j,
         NEW value \in Nat, NEW n \in 0 .. Len(waiters), WakeNext(value, n)
  PROVE  /\ waiters' \in Seq(Tasks)
         /\ \A i, j \in DOMAIN waiters' : waiters'[i] = waiters'[j] => i = j
         /\ \A i \in DOMAIN waiters' : waiters'[i] \in Waiting
         /\ Waiting' = Waiting \ Woken(n)
         /\ Woken(n) \subseteq Waiting
         /\ IsFiniteSet(Woken(n)) /\ Cardinality(Woken(n)) = n
<1>1. /\ Len(waiters) \in Nat /\ n \in Nat /\ n <= Len(waiters)
      /\ DOMAIN waiters = 1 .. Len(waiters)
      /\ waiters' = SubSeq(waiters, n + 1, Len(waiters))
  BY DEF WakeNext
<1>2. /\ waiters' \in Seq(Tasks)
      /\ DOMAIN waiters' = 1 .. Len(waiters) - n
      /\ \A i \in 1 .. Len(waiters) - n : waiters'[i] = waiters[i + n]
  BY <1>1
<1>3. \A i \in 1 .. Len(waiters) - n : i + n \in DOMAIN waiters /\ i + n \notin 1 .. n
  BY <1>1
<1>4. \A i, j \in DOMAIN waiters' : waiters'[i] = waiters'[j] => i = j
  BY <1>1, <1>2, <1>3
<1>8. \A i \in DOMAIN waiters' : waiters'[i] \in Waiting
  BY <1>2, <1>3 DEF Waiting
<1>5. Woken(n) \subseteq Waiting
  BY <1>1 DEF Woken, Waiting
<1>6. Waiting' = Waiting \ Woken(n)
  <2>1. ASSUME NEW u \in Waiting' PROVE u \in Waiting \ Woken(n)
    <3>1. PICK i \in 1 .. Len(waiters) - n : u = waiters[i + n]
      BY <1>2, <2>1 DEF Waiting
    <3>2. i + n \in DOMAIN waiters /\ i + n \notin 1 .. n /\ 1 .. n \subseteq DOMAIN waiters
      BY <1>1, <1>3
    <3> QED BY <3>1, <3>2 DEF Waiting, Woken
  <2>2. ASSUME NEW u \in Waiting \ Woken(n) PROVE u \in Waiting'
    <3>1. PICK i \in 1 .. Len(waiters) : u = waiters[i] /\ i \notin 1 .. n
      BY <1>1, <2>2 DEF Waiting, Woken
    <3>2. i - n \in 1 .. Len(waiters) - n /\ (i - n) + n = i
      BY <1>1, <3>1
    <3>3. i - n \in DOMAIN waiters' /\ waiters'[i - n] = u
      BY <1>2, <3>1, <3>2
    <3> QED BY <3>3 DEF Waiting
  <2> QED BY <2>1, <2>2
<1>7. IsFiniteSet(Woken(n)) /\ Cardinality(Woken(n)) = n
  <2> DEFINE f == [i \in 1 .. n |-> waiters[i]]
  <2>1. IsFiniteSet(1 .. n) /\ Cardinality(1 .. n) = n
    BY <1>1, FS_Interval
  <2>2. f \in Injection(1 .. n, Woken(n)) /\ f \in Surjection(1 .. n, Woken(n))
    BY <1>1 DEF Injection, Surjection, Woken, IsInjective
  <2> QED BY <2>1, <2>2, FS_Surjection
<1> QED BY <1>2, <1>4, <1>5, <1>6, <1>7, <1>8

\* Waking conserves the slots: those owned afterwards are the ones that
\* stayed owned and those given to the woken waiters.
LEMMA WakeConservesSlots ==
  ASSUME Types, SlotsCounted,
         NEW value \in Nat, NEW n \in 0 .. Len(waiters), n <= value,
         WakeNext(value, n),
         NEW Stay \in SUBSET Holders, value + Cardinality(Stay) = MaxConcurrency,
         Holders' = Stay \cup Woken(n),
         \A u \in Waiting : pc'[u] = "queued"
  PROVE  SlotsCounted'
<1> USE DEF SlotsCounted
<1>1. /\ waiters' \in Seq(Tasks)
      /\ \A i, j \in DOMAIN waiters' : waiters'[i] = waiters'[j] => i = j
      /\ \A i \in DOMAIN waiters' : waiters'[i] \in Waiting
      /\ Woken(n) \subseteq Waiting
      /\ IsFiniteSet(Woken(n)) /\ Cardinality(Woken(n)) = n
  BY WakeSplitsQueue
<1>2. \A i \in DOMAIN waiters' : pc'[waiters'[i]] = "queued"
  BY <1>1
<1>3. IsFiniteSet(Stay) /\ Cardinality(Stay) \in Nat
  BY FiniteTaskSet DEF Holders
<1>4. Stay \cap Woken(n) = {}
  BY <1>1 DEF Holders, Waiting
<1>5. Cardinality(Stay \cup Woken(n)) = Cardinality(Stay) + n
  BY <1>1, <1>3, <1>4, DisjointUnion
<1>6. sem' = value - n /\ n \in Nat
  BY DEF WakeNext
<1> QED BY <1>1, <1>2, <1>3, <1>5, <1>6

\* Leaving the semaphore either frees a slot or hands it to the first waiter.
LEMMA ReleaseKeepsSlots ==
  ASSUME Types, SlotsCounted, NEW t \in Tasks, pc[t] = "running",
         Release, Moves(t)
  PROVE  SlotsCounted'
<1> DEFINE n == IF waiters = <<>> THEN 0 ELSE 1
<1> USE DEF SlotsCounted
<1>1. n \in 0 .. Len(waiters) /\ sem + 1 \in Nat /\ n <= sem + 1 /\ WakeNext(sem + 1, n)
  BY DEF Release
<1>2. t \in Holders /\ IsFiniteSet(Holders) /\ Cardinality(Holders) \in Nat
  <2>1. t \in Holders
    BY DEF Holders
  <2>2. Holders \subseteq Tasks
    BY DEF Holders
  <2> QED BY <2>1, <2>2, FiniteTaskSet
<1>3. (sem + 1) + Cardinality(Holders \ {t}) = MaxConcurrency
  BY <1>2, OneLess, ConcurrencyAssumption
<1>4. Waiting' = Waiting \ Woken(n) /\ Woken(n) \subseteq Waiting
  BY <1>1, WakeSplitsQueue
<1>5. Waiting \subseteq Tasks /\ \A u \in Waiting : pc[u] = "queued" /\ pc'[u] = "queued"
  BY DEF Waiting, Moves
<1>6. \A u \in Tasks \ {t} : pc'[u] = pc[u] \/ {pc[u], pc'[u]} \cap {"queued", "running"} = {}
  BY DEF Moves
<1>7. Holders' = (Holders \ {t}) \cup Woken(n)
  BY <1>4, <1>5, <1>6 DEF Holders, Moves, Waiting
<1>8. sem + 1 \in Nat /\ Holders \ {t} \in SUBSET Holders
  OBVIOUS
<1> HIDE DEF n, SlotsCounted
<1> QED BY <1>1, <1>3, <1>5, <1>7, <1>8, WakeConservesSlots

\* The result recorded at the end of a coroutine leaves all others in place.
LEMMA ResultsKept ==
  ASSUME Types, Counting, Results, NEW t \in Tasks, Moves(t),
         depends' = depends,
         \A u \in Tasks \ {t} : result'[u] = result[u],
         \A u \in Tasks \ {t} : u \in failed' <=> u \in failed,
         result'[t] = "ok" <=> t \notin failed',
         \/ pc[t] = "running"
         \/ pc[t] = "launched" /\ result'[t] = "skipped"
  PROVE  Results'
<1> USE DEF Types, Results, Moves
<1>1. \A u \in Tasks : Deps(u)' = Deps(u) /\ Deps(u) \subseteq Tasks
  BY DepsAreTasks DEF Deps
<1>2. result[t] = "none"
  OBVIOUS
<1>3. \A u \in Tasks : result[u] = "ok" => u # t /\ result'[u] = "ok"
  BY <1>2
<1>4. DependenciesFirst'
  <2> SUFFICES ASSUME NEW u \in Tasks,
                      \/ pc'[u] \in {"queued", "running"}
                      \/ pc'[u] = "done" /\ result'[u] # "skipped"
               PROVE  \A d \in Deps(u) : result'[d] = "ok"
    BY <1>1 DEF DependenciesFirst
  <2>1. \/ pc[u] \in {"queued", "running"}
        \/ pc[u] = "done" /\ result[u] # "skipped"
    OBVIOUS
  <2>2. \A d \in Deps(u) : result[d] = "ok"
    BY <2>1 DEF DependenciesFirst
  <2> QED BY <1>1, <1>3, <2>2
<1>5. \A u \in Tasks : pc'[u] # "done" => result'[u] = "none"
  OBVIOUS
<1>6. \A u \in completed' : result'[u] = "ok" <=> u \notin failed'
  OBVIOUS
<1> QED BY <1>4, <1>5, <1>6
-----------------------------------------------------------------------------
LEMMA InitEstablishes == Init => IndInv
<1> SUFFICES ASSUME Init PROVE IndInv
  OBVIOUS
<1> USE DEF Init
<1>1. \A t \in Tasks : /\ Len(depends[t]) \in Nat
                       /\ Cardinality(Deps(t)) <= Len(depends[t])
                       /\ Len(depends[t]) = 0 => Deps(t) = {}
                       /\ Deps(t) \ completed = Deps(t)
  <2> SUFFICES ASSUME NEW t \in Tasks
               PROVE  Len(depends[t]) = 0 => Deps(t) = {}
    BY ListCoversSet
  <2>1. depends[t] \in Seq(Tasks)
    BY GraphsAssumption
  <2> QED BY <2>1 DEF Deps
<1>2. Types
  BY <1>1 DEF Types, Alive
<1>3. Counting
  BY <1>1 DEF Counting, Alive, QuiescentWhenSignalled
<1>4. SlotsCounted
  <2>1. Holders = {}
    BY DEF Holders
  <2> QED BY <2>1, FS_EmptySet, ConcurrencyAssumption DEF SlotsCounted
<1>5. Results
  BY DEF Results, DependenciesFirst
<1> QED BY <1>2, <1>3, <1>4, <1>5 DEF IndInv, CallTypes

LEMMA StepPreserves == IndInv /\ [Next]_vars => IndInv'
<1> SUFFICES ASSUME IndInv, [Next]_vars PROVE IndInv'
  OBVIOUS
<1> USE DEF IndInv
<1>1. ASSUME NEW t \in Tasks, Skip(t) PROVE IndInv'
  <2> USE <1>1 DEF Skip
  <2>1. result' \in [Tasks -> {"none", "ok", "failed", "skipped"}]
    BY DEF Types
  <2>2. pc[t] \in Alive /\ pc[t] # "running"
    BY DEF Alive
  <2>3. Types' /\ Counting' /\ Moves(t)
    BY <2>1, <2>2, CompleteKeepsCounts
  <2>4. SlotsCounted'
    <3>1. Holders' = Holders
      BY <2>2, <2>3 DEF Holders, Waiting, Moves, Types
    <3>2. \A u \in Tasks : pc[u] = "queued" => pc'[u] = "queued"
      BY <2>2, <2>3 DEF Moves
    <3> QED BY <3>1, <3>2 DEF SlotsCounted
  <2>5. Results'
    <3>1. failed' = failed \cup {t} /\ result'[t] = "skipped"
      BY DEF Complete, Types
    <3>2. \A u \in Tasks \ {t} : result'[u] = result[u]
      BY DEF Types
    <3> QED BY <2>3, <3>1, <3>2, ResultsKept
  <2>6. CallTypes'
    BY DEF CallTypes
  <2> QED BY <2>3, <2>4, <2>5, <2>6
<1>2. ASSUME NEW t \in Tasks, NEW outcome \in Outcomes, EndRun(t, outcome)
      PROVE  IndInv'
  <2> USE <1>2 DEF EndRun
  <2>1. result' \in [Tasks -> {"none", "ok", "failed", "skipped"}]
    BY DEF Types, Outcomes, Exited
  <2>2. pc[t] \in Alive
    BY DEF Alive
  <2>3. Types' /\ Counting' /\ Moves(t)
    BY <2>1, <2>2, CompleteKeepsCounts
  <2>4. SlotsCounted'
    BY <2>3, ReleaseKeepsSlots
  <2>5. Results'
    <3>1. failed' = IF outcome # "ok" THEN failed \cup {t} ELSE failed
      BY DEF Complete
    <3>2. t \notin failed /\ result[t] = "none"
      BY DEF Types, Results
    <3>3. result'[t] = "ok" <=> t \notin failed'
      BY <3>1, <3>2 DEF Types, Outcomes, Exited
    <3>4. \A u \in Tasks \ {t} : result'[u] = result[u]
      BY DEF Types
    <3>5. \A u \in Tasks \ {t} : u \in failed' <=> u \in failed
      BY <3>1
    <3> QED BY <2>3, <3>3, <3>4, <3>5, ResultsKept
  <2>6. CallTypes'
    BY DEF CallTypes
  <2> QED BY <2>3, <2>4, <2>5, <2>6
\* The steps that only move one coroutine inside run_task or its semaphore.
<1>3. ASSUME NEW t \in Tasks, NEW to \in {"queued", "running"},
             pc[t] \in {"launched", "queued"}, ~allDone,
             pc' = [pc EXCEPT ![t] = to],
             UNCHANGED <<depends, bookkeeping, caller>>
      PROVE  /\ Types' /\ CallTypes' /\ Counting'
             /\ (\A d \in Deps(t) : result[d] = "ok") => Results'
  <2> USE DEF bookkeeping, caller
  <2>1. \A u \in Tasks : Deps(u)' = Deps(u)
    BY <1>3 DEF Deps
  <2>2. Types' /\ CallTypes'
    BY <1>3 DEF Types, CallTypes, Alive
  <2>3. Counting'
    BY <1>3, <2>1 DEF Counting, Types, Alive, QuiescentWhenSignalled
  <2>4. ASSUME \A d \in Deps(t) : result[d] = "ok"
        PROVE  Results'
    BY <1>3, <2>1, <2>4 DEF Results, DependenciesFirst, Types
  <2> QED BY <2>2, <2>3, <2>4
<1>4. ASSUME NEW t \in Tasks, pc[t] = "launched", ~DepFailed(t)
      PROVE  \A d \in Deps(t) : result[d] = "ok"
  BY <1>4, DepsAreTasks DEF DepFailed, Results, Counting, Types
<1>5. ASSUME NEW t \in Tasks, pc[t] \in Alive
      PROVE  ~allDone
  BY <1>5 DEF Counting, QuiescentWhenSignalled, Alive
<1>6. ASSUME NEW t \in Tasks, Acquire(t) PROVE IndInv'
  <2> USE <1>6 DEF Acquire, SlotFree
  <2>1. SlotsCounted'
    <3>1. waiters = <<>> /\ waiters' = waiters /\ sem' = sem - 1 /\ sem \in Nat \ {0}
      BY DEF SlotsCounted
    <3>2. Holders' = Holders \cup {t} /\ t \notin Holders
      BY <3>1 DEF Holders, Waiting, Types
    <3>3. IsFiniteSet(Holders) /\ Cardinality(Holders) \in Nat
      BY FiniteTaskSet DEF Holders
    <3>4. Cardinality(Holders') = Cardinality(Holders) + 1
      BY <3>2, <3>3, FS_AddElement
    <3> QED BY <3>1, <3>3, <3>4 DEF SlotsCounted
  <2> QED BY <1>3, <1>4, <1>5, <2>1 DEF Alive
<1>7. ASSUME NEW t \in Tasks, Enqueue(t) PROVE IndInv'
  <2> USE <1>7 DEF Enqueue, SlotFree
  <2>1. SlotsCounted'
    <3>1. /\ waiters \in Seq(Tasks) /\ waiters' = Append(waiters, t) /\ sem' = sem
          /\ DOMAIN waiters = 1 .. Len(waiters)
          /\ DOMAIN waiters' = 1 .. Len(waiters) + 1
          /\ Len(waiters) \in Nat
          /\ \A i \in DOMAIN waiters : waiters'[i] = waiters[i] /\ i \in DOMAIN waiters'
          /\ waiters'[Len(waiters) + 1] = t
          /\ Len(waiters) + 1 \in DOMAIN waiters'
      BY DEF SlotsCounted
    <3>2. \A i \in DOMAIN waiters' : i \in DOMAIN waiters \/ i = Len(waiters) + 1
      BY <3>1
    <3>3. \A i \in DOMAIN waiters : waiters[i] \in Tasks /\ waiters[i] # t
      BY <3>1 DEF SlotsCounted
    <3>4. Holders' = Holders
      BY <3>1, <3>2, <3>3 DEF Holders, Waiting, Types
    <3>5. \A i \in DOMAIN waiters' : pc'[waiters'[i]] = "queued"
      BY <3>1, <3>2, <3>3 DEF SlotsCounted, Types
    <3>6. \A i, j \in DOMAIN waiters' : waiters'[i] = waiters'[j] => i = j
      BY <3>1, <3>2, <3>3 DEF SlotsCounted
    <3>7. waiters' \in Seq(Tasks)
      BY <3>1
    <3> QED BY <3>1, <3>4, <3>5, <3>6, <3>7 DEF SlotsCounted
  <2> QED BY <1>3, <1>4, <1>5, <2>1 DEF Alive
<1>8. ASSUME NEW t \in Tasks, Wakeup(t) PROVE IndInv'
  <2> USE <1>8 DEF Wakeup
  <2>1. SlotsCounted'
    <3> DEFINE n == IF sem < Len(waiters) THEN sem ELSE Len(waiters)
    <3> USE DEF SlotsCounted
    <3>1. n \in 0 .. Len(waiters) /\ n <= sem /\ WakeNext(sem, n)
      OBVIOUS
    <3>2. Waiting' = Waiting \ Woken(n) /\ Woken(n) \subseteq Waiting
      BY <3>1, WakeSplitsQueue
    <3>3. /\ Waiting \subseteq Tasks /\ t \notin Waiting
          /\ \A u \in Waiting : pc[u] = "queued" /\ pc'[u] = "queued"
      BY DEF Waiting, Types
    <3>7. \A u \in Tasks \ {t} : pc'[u] = pc[u]
      BY DEF Types
    <3>8. pc[t] = "queued" /\ pc'[t] = "running"
      BY DEF Types
    <3>4. Holders' = Holders \cup Woken(n)
      <4> HIDE DEF n, SlotsCounted, Wakeup
      <4> QED BY <3>2, <3>3, <3>7, <3>8 DEF Holders
    <3>5. sem \in Nat /\ sem + Cardinality(Holders) = MaxConcurrency
      OBVIOUS
    <3> HIDE DEF n, SlotsCounted
    <3> QED BY <3>1, <3>3, <3>4, <3>5, WakeConservesSlots DEF IndInv
  <2>2. \A d \in Deps(t) : result[d] = "ok"
    BY DEF Results, DependenciesFirst
  <2> QED BY <1>3, <1>5, <2>1, <2>2 DEF Alive
\* The steps that move no coroutine.
<1>9. ASSUME UNCHANGED <<depends, remaining, pc, sem, waiters, result, failed,
                         completed, tasksLeft, fatal, allDone>>
      PROVE  /\ SlotsCounted' /\ Results'
             /\ (inFlight' \subseteq Tasks => Types')
             /\ (\A t \in Tasks : pc[t] \in Alive => t \in inFlight') => Counting'
  <2>1. \A u \in Tasks : Deps(u)' = Deps(u)
    BY <1>9 DEF Deps
  <2>2. Holders' = Holders
    BY <1>9 DEF Holders, Waiting
  <2>3. SlotsCounted'
    BY <1>9, <2>2 DEF SlotsCounted
  <2>4. Results'
    BY <1>9, <2>1 DEF Results, DependenciesFirst
  <2>5. inFlight' \subseteq Tasks => Types'
    BY <1>9 DEF Types
  <2>6. (\A t \in Tasks : pc[t] \in Alive => t \in inFlight') => Counting'
    BY <1>9, <2>1 DEF Counting, QuiescentWhenSignalled
  <2> QED BY <2>3, <2>4, <2>5, <2>6
<1>10. ASSUME NEW t \in Tasks, Discard(t) PROVE IndInv'
  <2>1. inFlight' \subseteq Tasks /\ CallTypes'
    BY <1>10 DEF Discard, Types, CallTypes, caller
  <2>2. \A u \in Tasks : pc[u] \in Alive => u \in inFlight'
    BY <1>10 DEF Discard, Counting, Alive
  <2> QED BY <1>9, <1>10, <2>1, <2>2 DEF Discard
<1>11. ASSUME AllDoneWait \/ Finish \/ CancelCall \/ UNCHANGED vars
       PROVE  IndInv'
  <2>1. /\ UNCHANGED <<depends, pc, sem, waiters, bookkeeping>>
        /\ CallTypes'
    BY <1>11 DEF AllDoneWait, Finish, CancelCall, vars, CallTypes, Types,
                 bookkeeping
  <2>2. inFlight' = inFlight
    BY <2>1 DEF bookkeeping
  <2> QED BY <1>9, <2>1, <2>2 DEF bookkeeping, Types, Counting
<1> QED
  BY <1>1, <1>2, <1>6, <1>7, <1>8, <1>10, <1>11 DEF Next, TaskStep

LEMMA Invariance == Spec => []IndInv
BY InitEstablishes, StepPreserves, PTL DEF Spec
-----------------------------------------------------------------------------
\* Every variable keeps its type; in particular the semaphore never exceeds
\* its initial value and the task counter never goes below zero.
THEOREM TypeCorrect == Spec => []TypeOK
<1>1. IndInv => TypeOK
  <2> SUFFICES ASSUME IndInv PROVE TypeOK
    OBVIOUS
  <2> USE DEF IndInv
  <2>1. Cardinality(Holders) \in Nat
    BY FiniteTaskSet DEF Holders
  <2>2. sem \in 0 .. MaxConcurrency
    BY <2>1, ConcurrencyAssumption DEF SlotsCounted
  <2>3. tasksLeft \in Nat
    BY FiniteTaskSet DEF Types
  <2> QED BY <2>2, <2>3 DEF TypeOK, Types, CallTypes, SlotsCounted, Alive
<1> QED BY <1>1, Invariance, PTL

\* execute_dag never hands a task to run_task before all of its dependencies
\* have run and succeeded, whatever the order in which tasks end.
THEOREM DependencyOrder == Spec => []DependenciesFirst
<1>1. IndInv => DependenciesFirst
  BY DEF IndInv, Results
<1> QED BY <1>1, Invariance, PTL

\* all_done is never set while a coroutine of the call is alive: neither
\* len(in_flight) <= 1 nor tasks_left == 0 is ever true too early.
THEOREM SignalledQuiescent == Spec => []QuiescentWhenSignalled
<1>1. IndInv => QuiescentWhenSignalled
  BY DEF IndInv, Counting
<1> QED BY <1>1, Invariance, PTL
-----------------------------------------------------------------------------
(* Whoever is ready is launched, if no dependency is listed twice. *)

NoRepeats ==
  \A g \in Graphs : \A t \in Tasks : \A i, j \in DOMAIN g[t] : g[t][i] = g[t][j] => i = j

\* Counting with equality, as long as no exception stops the launches.
Exact ==
  ~fatal => \A t \in Tasks : pc[t] = "idle" =>
              remaining[t] # 0 /\ remaining[t] = Cardinality(Deps(t) \ completed)

\* A list without repetitions is as long as the set of its entries is large.
LEMMA ListCountsSet ==
  ASSUME NoRepeats, depends \in Graphs, NEW t \in Tasks
  PROVE  Cardinality(Deps(t)) = Len(depends[t])
<1> DEFINE s == depends[t]
<1>1. s \in Seq(Tasks) /\ \A i, j \in DOMAIN s : s[i] = s[j] => i = j
  BY GraphsAssumption DEF NoRepeats
<1>2. Len(s) \in Nat /\ DOMAIN s = 1 .. Len(s) /\ Deps(t) = {s[i] : i \in DOMAIN s}
  BY <1>1 DEF Deps
<1> HIDE DEF s
<1>3. s \in [1 .. Len(s) -> Deps(t)]
  BY <1>1, <1>2
<1>4. s \in Surjection(1 .. Len(s), Deps(t)) /\ s \in Injection(1 .. Len(s), Deps(t))
  BY <1>1, <1>2, <1>3 DEF Surjection, Injection, IsInjective
<1>5. IsFiniteSet(1 .. Len(s)) /\ Cardinality(1 .. Len(s)) = Len(s)
  <2>1. \A n \in Nat : IsFiniteSet(1 .. n) /\ Cardinality(1 .. n) = n
    BY FS_Interval
  <2> QED BY <1>2, <2>1
<1>6. Cardinality(Deps(t)) = Cardinality(1 .. Len(s))
  BY <1>4, <1>5, FS_Surjection
<1> QED BY <1>5, <1>6 DEF s

LEMMA CompleteKeepsExact ==
  ASSUME Types, Counting, Exact,
         NEW t \in Tasks, pc[t] \in Alive,
         NEW isFailed \in BOOLEAN, NEW isFatal \in BOOLEAN,
         Complete(t, isFailed, isFatal), depends' = depends
  PROVE  Exact'
<1> SUFFICES ASSUME ~fatal', NEW u \in Tasks, pc'[u] = "idle"
             PROVE  remaining'[u] # 0 /\ remaining'[u] = Cardinality(Deps(u)' \ completed')
  BY DEF Exact
<1>1. /\ completed' = completed \cup {t} /\ ~fatal
      /\ remaining' = [v \in Tasks |->
           IF v \in Dependents(t) \ completed' THEN remaining[v] - 1 ELSE remaining[v]]
      /\ pc' = [v \in Tasks |-> IF v = t THEN "done"
                                ELSE IF v \in BecomesReady(t) THEN "launched" ELSE pc[v]]
  BY DEF Complete, Types
<1>2. /\ u # t /\ pc[u] = "idle" /\ u \notin BecomesReady(t) /\ u \notin completed
      /\ Deps(u)' = Deps(u) /\ t \notin completed
  BY <1>1 DEF Deps, Types, Alive
<1>3. remaining[u] # 0 /\ remaining[u] = Cardinality(Deps(u) \ completed) /\ remaining[u] \in Nat
  BY <1>1, <1>2 DEF Exact, Types
<1>4. CASE t \in Deps(u)
  <2>1. remaining[u] # 1 /\ remaining'[u] = remaining[u] - 1
    BY <1>1, <1>2, <1>4 DEF BecomesReady, Dependents
  <2> DEFINE open == Deps(u) \ completed
  <2>2. t \in open /\ IsFiniteSet(open) /\ Deps(u)' \ completed' = open \ {t}
    BY <1>1, <1>2, <1>4, DepsAreTasks, FiniteTaskSet DEF Types
  <2>3. remaining[u] = Cardinality(open)
    BY <1>3
  <2> HIDE DEF open
  <2>4. Cardinality(open \ {t}) = remaining[u] - 1
    BY <2>2, <2>3, OneLess
  <2>5. remaining[u] - 1 # 0
    BY <1>3, <2>1
  <2> QED BY <2>1, <2>2, <2>4, <2>5
<1>5. CASE t \notin Deps(u)
  <2>1. remaining'[u] = remaining[u] /\ Deps(u)' \ completed' = Deps(u) \ completed
    BY <1>1, <1>2, <1>5 DEF Dependents
  <2> QED BY <1>3, <2>1
<1> QED BY <1>4, <1>5

\* A task whose dependencies have all completed has been launched, unless an
\* exception is pending: the counter that triggers the launch agrees with the
\* set that it stands for.
THEOREM ReadyTasksLaunch == NoRepeats => (Spec => []ReadyIsLaunched)
<1> SUFFICES ASSUME NoRepeats PROVE Spec => []ReadyIsLaunched
  OBVIOUS
<1>1. Init => Exact
  <2> SUFFICES ASSUME Init PROVE Exact
    OBVIOUS
  <2>1. \A t \in Tasks : Deps(t) \ completed = Deps(t) /\ Cardinality(Deps(t)) = Len(depends[t])
    BY ListCountsSet DEF Init
  <2> QED BY <2>1 DEF Init, Exact
<1>2. IndInv /\ Exact /\ [Next]_vars => Exact'
  <2> SUFFICES ASSUME IndInv, Exact, [Next]_vars PROVE Exact'
    OBVIOUS
  <2>1. ASSUME NEW t \in Tasks, Skip(t) PROVE Exact'
    BY <2>1, CompleteKeepsExact DEF IndInv, Skip, Alive
  <2>2. ASSUME NEW t \in Tasks, NEW outcome \in Outcomes, EndRun(t, outcome) PROVE Exact'
    BY <2>2, CompleteKeepsExact DEF IndInv, EndRun, Alive
  <2>3. ASSUME NEW t \in Tasks, Acquire(t) \/ Enqueue(t) \/ Wakeup(t) PROVE Exact'
    <3>1. /\ pc[t] # "idle" /\ \E to \in {"queued", "running"} : pc' = [pc EXCEPT ![t] = to]
          /\ UNCHANGED <<depends, remaining, completed, fatal>>
      BY <2>3 DEF Acquire, Enqueue, Wakeup, bookkeeping
    <3>2. \A u \in Tasks : pc'[u] = "idle" => pc[u] = "idle"
      BY <3>1 DEF IndInv, Types
    <3> QED BY <3>1, <3>2 DEF Exact, Deps
  <2>4. ASSUME UNCHANGED <<depends, remaining, pc, completed, fatal>> PROVE Exact'
    BY <2>4 DEF Exact, Deps
  <2> QED
    BY <2>1, <2>2, <2>3, <2>4
    DEF Next, TaskStep, Discard, AllDoneWait, Finish, CancelCall, vars, bookkeeping
<1>3. IndInv /\ Exact => ReadyIsLaunched
  <2> SUFFICES ASSUME IndInv, Exact, ~fatal, NEW t \in Tasks, Deps(t) \subseteq completed
               PROVE  pc[t] # "idle"
    BY DEF ReadyIsLaunched
  <2>1. Cardinality(Deps(t) \ completed) = 0
    <3>1. Deps(t) \ completed = {}
      OBVIOUS
    <3> QED BY <3>1, FS_EmptySet
  <2> QED BY <2>1 DEF Exact
<1> QED BY <1>1, <1>2, <1>3, Invariance, PTL DEF Spec
-----------------------------------------------------------------------------
(* DagScheduler implements TaskOrder. *)

\* What has been recorded of the tasks that are over: only an exception leaves
\* no result, and it stops all launches, so that nobody who was launched
\* depends on the task that raised it.
Recorded ==
  /\ ~fatal => \A t \in completed : result[t] # "none"
  /\ fatal => \E t \in completed : result[t] = "none"
  /\ \A t \in Tasks : pc[t] # "idle" => \A d \in Deps(t) : result[d] # "none"
  /\ allDone => fatal \/ completed = Tasks
  /\ main \in {"gathering", "returned", "raised"} => allDone

RefInv == IndInv /\ Recorded

LEMMA CompleteKeepsRecorded ==
  ASSUME Types, Counting, Results, Recorded,
         NEW t \in Tasks, pc[t] \in Alive,
         NEW isFailed \in BOOLEAN, NEW isFatal \in BOOLEAN,
         Complete(t, isFailed, isFatal), UNCHANGED <<depends, main>>,
         result' \in [Tasks -> {"none", "ok", "failed", "skipped"}],
         \A u \in Tasks \ {t} : result'[u] = result[u],
         isFatal <=> result'[t] = "none"
  PROVE  Recorded'
<1>1. Types' /\ Counting' /\ Moves(t)
  BY CompleteKeepsCounts
<1>2. /\ completed' = completed \cup {t} /\ t \notin completed
      /\ fatal' = (fatal \/ isFatal) /\ fatal \in BOOLEAN /\ ~allDone /\ result[t] = "none"
  BY DEF Complete, Types, Counting, Results, QuiescentWhenSignalled, Alive
<1>3. completed \subseteq Tasks /\ \A u \in Tasks : Deps(u)' = Deps(u) /\ Deps(u) \subseteq Tasks
  BY DepsAreTasks DEF Deps, Types
<1>4. ~fatal' => \A u \in completed' : result'[u] # "none"
  BY <1>2, <1>3 DEF Recorded
<1>5. fatal' => \E u \in completed' : result'[u] = "none"
  <2>1. CASE isFatal
    BY <1>2, <2>1
  <2>2. CASE fatal
    <3>1. PICK u \in completed : result[u] = "none"
      BY <2>2 DEF Recorded
    <3> QED BY <1>2, <1>3, <3>1
  <2> QED BY <1>2, <2>1, <2>2
<1>6. ASSUME NEW u \in Tasks, pc'[u] # "idle", NEW d \in Deps(u)' PROVE result'[d] # "none"
  <2>1. CASE pc[u] # "idle"
    <3>1. result[d] # "none" /\ d \in Tasks
      BY <1>3, <1>6, <2>1 DEF Recorded
    <3> QED BY <1>2, <3>1
  <2>2. CASE pc[u] = "idle"
    <3>1. ~fatal'
      BY <1>1, <1>2, <1>6, <2>2 DEF Complete, Types, Alive
    <3>2. d \in completed'
      BY <1>1, <1>6 DEF Counting
    <3> QED BY <1>4, <3>1, <3>2
  <2> QED BY <2>1, <2>2
<1>7. allDone' => fatal' \/ completed' = Tasks
  <2> SUFFICES ASSUME allDone', ~fatal' PROVE completed' = Tasks
    OBVIOUS
  <2>1. tasksLeft' = 0
    BY <1>2 DEF Complete
  <2>2. IsFiniteSet(Tasks \ completed') /\ Cardinality(Tasks \ completed') = 0
    BY <1>1, <2>1, FiniteTaskSet DEF Types
  <2>3. Tasks \ completed' = {}
    BY <2>2, FS_EmptySet
  <2> QED BY <1>2, <1>3, <2>3
<1>8. main' \in {"gathering", "returned", "raised"} => allDone'
  BY <1>2 DEF Recorded
<1> QED BY <1>4, <1>5, <1>6, <1>7, <1>8 DEF Recorded

LEMMA RecordedPreserved == RefInv /\ [Next]_vars => RefInv'
<1> SUFFICES ASSUME RefInv, [Next]_vars PROVE RefInv'
  OBVIOUS
<1> USE DEF RefInv
<1>1. ASSUME NEW t \in Tasks, Skip(t) PROVE Recorded'
  <2>1. /\ pc[t] \in Alive /\ result' = [result EXCEPT ![t] = "skipped"]
        /\ Complete(t, TRUE, FALSE) /\ UNCHANGED <<depends, main>>
    BY <1>1 DEF Skip, Alive
  <2>2. /\ result' \in [Tasks -> {"none", "ok", "failed", "skipped"}] /\ result'[t] = "skipped"
        /\ \A u \in Tasks \ {t} : result'[u] = result[u]
    BY <2>1 DEF IndInv, Types
  <2> QED BY <2>1, <2>2, CompleteKeepsRecorded DEF IndInv
<1>2. ASSUME NEW t \in Tasks, NEW outcome \in Outcomes, EndRun(t, outcome) PROVE Recorded'
  <2>1. /\ pc[t] \in Alive
        /\ result' = IF outcome \in Exited THEN [result EXCEPT ![t] = outcome] ELSE result
        /\ Complete(t, outcome # "ok", outcome = "raised") /\ UNCHANGED <<depends, main>>
    BY <1>2 DEF EndRun, Alive
  <2>2. result[t] = "none"
    BY <1>2 DEF EndRun, IndInv, Results
  <2>3. /\ result' \in [Tasks -> {"none", "ok", "failed", "skipped"}]
        /\ outcome = "raised" <=> result'[t] = "none"
        /\ \A u \in Tasks \ {t} : result'[u] = result[u]
    BY <2>1, <2>2 DEF IndInv, Types, Outcomes, Exited
  <2> QED BY <2>1, <2>3, CompleteKeepsRecorded DEF IndInv
<1>3. ASSUME NEW t \in Tasks, Acquire(t) \/ Enqueue(t) \/ Wakeup(t) PROVE Recorded'
  <2>1. /\ pc[t] # "idle" /\ \E to \in {"queued", "running"} : pc' = [pc EXCEPT ![t] = to]
        /\ UNCHANGED <<depends, result, completed, fatal, allDone, main>>
    BY <1>3 DEF Acquire, Enqueue, Wakeup, bookkeeping, caller
  <2>2. \A u \in Tasks : pc'[u] = "idle" <=> pc[u] = "idle"
    BY <2>1 DEF IndInv, Types
  <2> QED BY <2>1, <2>2 DEF Recorded, Deps
<1>4. ASSUME UNCHANGED <<depends, pc, result, completed, fatal, allDone>>,
             main' \in {"gathering", "returned", "raised"} => allDone
      PROVE  Recorded'
  BY <1>4 DEF Recorded, Deps
<1>5. IndInv'
  BY StepPreserves
<1>6. ASSUME NEW t \in Tasks, Discard(t) PROVE Recorded'
  BY <1>4, <1>6 DEF Discard, caller, Recorded
<1>7. ASSUME AllDoneWait \/ Finish \/ CancelCall \/ UNCHANGED vars PROVE Recorded'
  BY <1>4, <1>7 DEF AllDoneWait, Finish, CancelCall, vars, bookkeeping, Recorded
<1> QED BY <1>1, <1>2, <1>3, <1>5, <1>6, <1>7 DEF Next, TaskStep

\* The phase of a task that does not move stays, also when it is launched.
LEMMA PhaseOf ==
  ASSUME Types, Results, NEW t \in Tasks
  PROVE  /\ Phase(t) = "pending" <=> pc[t] \in {"idle", "launched", "queued"}
         /\ Phase(t) = "running" <=> pc[t] = "running"
         /\ Phase(t) \in {"ok", "failed", "skipped"} => t \in completed /\ Phase(t) = result[t]
         /\ t \in completed /\ result[t] # "none" => Phase(t) = result[t]
         /\ t \in completed /\ result[t] = "none" => Phase(t) = "raised"
BY DEF Types, Results, Phase, Alive

\* One task moves: the phase of the others stays.
LEMMA OnePhaseMoves ==
  ASSUME Types, Types', Results, Results', NEW t \in Tasks,
         \A u \in Tasks \ {t} : /\ result'[u] = result[u]
                                /\ pc'[u] = pc[u] \/ (pc[u] = "idle" /\ pc'[u] = "launched")
  PROVE  [u \in Tasks |-> Phase(u)]' = [[u \in Tasks |-> Phase(u)] EXCEPT ![t] = Phase(t)']
<1>1. \A u \in Tasks \ {t} : Phase(u)' = Phase(u)
  BY DEF Phase
<1> QED BY <1>1

\* A coroutine that enters run_task finds fewer than MaxConcurrency inside.
LEMMA RoomForOneMore ==
  ASSUME Types, SlotsCounted, NEW S \in SUBSET Tasks, \A u \in S : pc[u] = "running",
         \/ sem > 0
         \/ \E t \in Tasks : pc[t] = "queued" /\ t \notin Waiting
  PROVE  Cardinality(S) < MaxConcurrency
<1>1. S \subseteq Holders /\ IsFiniteSet(Holders) /\ Cardinality(Holders) \in Nat
  BY FiniteTaskSet DEF Holders
<1>2. Cardinality(S) \in Nat /\ Cardinality(S) <= Cardinality(Holders)
  BY <1>1, FS_Subset, FiniteTaskSet
<1>3. sem \in Nat /\ sem + Cardinality(Holders) = MaxConcurrency
  BY DEF SlotsCounted
<1>4. CASE sem > 0
  BY <1>1, <1>2, <1>3, <1>4
<1>5. ASSUME NEW t \in Tasks, pc[t] = "queued", t \notin Waiting
      PROVE  Cardinality(S) < MaxConcurrency
  <2>1. t \in Holders /\ t \notin S
    BY <1>5 DEF Holders
  <2>2. S # Holders
    BY <2>1
  <2>3. Cardinality(S) # Cardinality(Holders)
    BY <1>1, <2>2, FS_Subset
  <2> QED BY <1>1, <1>2, <1>3, <2>3
<1> QED BY <1>4, <1>5

LEMMA InitImplements == Init => Promise!Init
<1> SUFFICES ASSUME Init PROVE Promise!Init
  OBVIOUS
<1>1. \A t \in Tasks : Phase(t) = "pending"
  BY DEF Init, Phase
<1> QED BY <1>1 DEF Init, Promise!Init

LEMMA StepImplements == RefInv /\ RefInv' /\ [Next]_vars => [Promise!Next]_(Promise!vars)
<1> SUFFICES ASSUME RefInv, RefInv', [Next]_vars
             PROVE  Promise!Next \/ UNCHANGED Promise!vars
  OBVIOUS
<1> DEFINE phases == [u \in Tasks |-> Phase(u)]
           call   == IF main \in {"waiting", "gathering"} THEN "open" ELSE main
<1>1. /\ Types /\ Types' /\ Counting /\ Results /\ Results' /\ SlotsCounted /\ CallTypes
      /\ Recorded /\ Recorded'
  BY DEF RefInv, IndInv
<1>2. \A u \in Tasks : phases[u] = Phase(u)
  OBVIOUS
<1> HIDE DEF phases, call
<1>3. ASSUME NEW t \in Tasks, pc[t] \in {"launched", "queued"}, pc' = [pc EXCEPT ![t] = "running"],
             UNCHANGED <<depends, bookkeeping, caller>>, \A d \in Deps(t) : result[d] = "ok",
             sem > 0 \/ (pc[t] = "queued" /\ t \notin Waiting)
      PROVE  Promise!Begin(t)
  <2>1. UNCHANGED <<depends, main, result>> /\ ~allDone
    BY <1>1, <1>3 DEF bookkeeping, caller, Counting, QuiescentWhenSignalled
  <2>2. call \in {"open", "cancelled"} /\ call' = call
    BY <1>1, <2>1 DEF call, CallTypes, Recorded
  <2>3. \A d \in Deps(t) : d \in Tasks /\ phases[d] = "ok"
    BY <1>1, <1>2, <1>3, DepsAreTasks, PhaseOf DEF Counting, Types, Results
  <2>4. Cardinality({u \in Tasks : phases[u] \in {"running"}}) < MaxConcurrency
    <3> DEFINE S == {u \in Tasks : phases[u] \in {"running"}}
    <3>1. S \in SUBSET Tasks /\ \A u \in S : pc[u] = "running"
      BY <1>1, <1>2, PhaseOf
    <3> HIDE DEF S
    <3>2. Cardinality(S) < MaxConcurrency
      BY <1>1, <1>3, <3>1, RoomForOneMore
    <3> QED BY <3>2 DEF S
  <2>5. phases' = [phases EXCEPT ![t] = "running"] /\ phases[t] = "pending"
    <3>1. pc'[t] = "running" /\ \A u \in Tasks \ {t} : pc'[u] = pc[u]
      BY <1>1, <1>3 DEF Types
    <3>2. Phase(t)' = "running" /\ Phase(t) = "pending"
      BY <1>1, <1>3, <3>1, PhaseOf DEF Phase
    <3>3. phases' = [phases EXCEPT ![t] = Phase(t)']
      BY <1>1, <2>1, <3>1, OnePhaseMoves DEF phases
    <3> QED BY <1>2, <3>2, <3>3
  <2>6. Promise!Deps(t) \subseteq Promise!InPhase({"ok"})
    BY <2>3 DEF Promise!InPhase, Promise!Deps, Deps, phases
  <2>7. Promise!Cardinality(Promise!InPhase({"running"})) < MaxConcurrency
    BY <2>4 DEF Promise!InPhase, phases, Promise!Cardinality, Cardinality
  <2>8. Promise!Move(t, "pending", "running")
    BY <2>1, <2>2, <2>5 DEF Promise!Move, phases, call
  <2> QED BY <2>2, <2>6, <2>7, <2>8 DEF Promise!Begin, call
<1>4. ASSUME NEW t \in Tasks, Skip(t) PROVE Promise!Skip(t)
  <2>1. /\ pc[t] = "launched" /\ DepFailed(t) /\ result' = [result EXCEPT ![t] = "skipped"]
        /\ Complete(t, TRUE, FALSE) /\ UNCHANGED <<depends, main>>
    BY <1>4 DEF Skip
  <2>2. Moves(t) /\ call' = call
    <3>1. result' \in [Tasks -> {"none", "ok", "failed", "skipped"}]
      BY <1>1, <2>1 DEF Types
    <3> QED BY <1>1, <2>1, <3>1, CompleteKeepsCounts DEF Alive, call
  <2>3. \A d \in Deps(t) : /\ d \in Tasks /\ phases[d] \in {"ok", "failed", "skipped"}
                           /\ d \in failed => phases[d] \in {"failed", "skipped"}
    <3> SUFFICES ASSUME NEW d \in Deps(t)
                 PROVE  /\ d \in Tasks /\ phases[d] \in {"ok", "failed", "skipped"}
                        /\ d \in failed => phases[d] \in {"failed", "skipped"}
      OBVIOUS
    <3>1. d \in Tasks /\ d \in completed /\ result[d] # "none"
      BY <1>1, <2>1, DepsAreTasks DEF Counting, Recorded, Types
    <3>2. phases[d] = result[d] /\ result[d] \in {"ok", "failed", "skipped"}
      BY <1>1, <1>2, <3>1, PhaseOf DEF Types
    <3>3. result[d] = "ok" <=> d \notin failed
      BY <1>1, <3>1 DEF Results
    <3> QED BY <3>1, <3>2, <3>3
  <2>4. \E d \in Deps(t) : d \in failed
    BY <2>1 DEF DepFailed
  <2>5. phases' = [phases EXCEPT ![t] = "skipped"] /\ phases[t] = "pending"
    <3>1. pc'[t] = "done" /\ result'[t] = "skipped" /\ \A u \in Tasks \ {t} : result'[u] = result[u]
      BY <1>1, <2>1, <2>2 DEF Moves, Types
    <3>2. Phase(t)' = "skipped" /\ Phase(t) = "pending"
      BY <1>1, <2>1, <3>1, PhaseOf DEF Phase
    <3>3. phases' = [phases EXCEPT ![t] = Phase(t)']
      BY <1>1, <2>2, <3>1, OnePhaseMoves DEF phases, Moves
    <3> QED BY <1>2, <3>2, <3>3
  <2>6. Promise!Deps(t) = Deps(t)
    BY DEF Promise!Deps, Deps
  <2>7. Promise!Deps(t) \cap Promise!InPhase({"failed", "skipped"}) # {}
    BY <2>3, <2>4, <2>6 DEF Promise!InPhase, phases
  <2>8. Promise!Deps(t) \subseteq Promise!InPhase({"ok", "failed", "skipped"})
    BY <2>3, <2>6 DEF Promise!InPhase, phases
  <2>9. Promise!Move(t, "pending", "skipped")
    BY <2>1, <2>2, <2>5 DEF Promise!Move, phases, call
  <2> QED BY <2>7, <2>8, <2>9 DEF Promise!Skip
<1>5. ASSUME NEW t \in Tasks, NEW outcome \in Outcomes, EndRun(t, outcome) PROVE Promise!End(t)
  <2>1. /\ pc[t] = "running"
        /\ result' = IF outcome \in Exited THEN [result EXCEPT ![t] = outcome] ELSE result
        /\ Complete(t, outcome # "ok", outcome = "raised") /\ UNCHANGED <<depends, main>>
    BY <1>5 DEF EndRun
  <2>2. Moves(t) /\ call' = call
    <3>1. result' \in [Tasks -> {"none", "ok", "failed", "skipped"}]
      BY <1>1, <2>1 DEF Types, Exited
    <3> QED BY <1>1, <2>1, <3>1, CompleteKeepsCounts DEF Alive, call
  <2>3. phases' = [phases EXCEPT ![t] = Phase(t)'] /\ phases[t] = "running"
    <3>1. \A u \in Tasks \ {t} : result'[u] = result[u]
      BY <1>1, <2>1 DEF Types
    <3>2. phases' = [phases EXCEPT ![t] = Phase(t)']
      BY <1>1, <2>2, <3>1, OnePhaseMoves DEF phases, Moves
    <3> QED BY <1>1, <1>2, <2>1, <3>2, PhaseOf
  <2>4. Phase(t)' \in {"ok", "failed", "raised"}
    <3>1. pc'[t] = "done" /\ result[t] = "none"
      BY <1>1, <2>1, <2>2 DEF Moves, Results
    <3>2. result'[t] \in {"none", "ok", "failed"}
      BY <1>1, <2>1, <3>1 DEF Types, Exited
    <3> QED BY <3>1, <3>2 DEF Phase
  <2> QED
    BY <2>1, <2>2, <2>3, <2>4 DEF Promise!End, Promise!Move, phases, call
<1>6. ASSUME NEW t \in Tasks, Acquire(t) PROVE Promise!Begin(t)
  <2>1. \A d \in Deps(t) : result[d] = "ok"
    BY <1>1, <1>6, DepsAreTasks DEF Acquire, DepFailed, Results, Counting, Types
  <2> QED BY <1>3, <1>6, <2>1 DEF Acquire, SlotFree
<1>7. ASSUME NEW t \in Tasks, Wakeup(t) PROVE Promise!Begin(t)
  <2>1. \A d \in Deps(t) : result[d] = "ok"
    BY <1>1, <1>7 DEF Wakeup, Results, DependenciesFirst
  <2> QED BY <1>3, <1>7, <2>1 DEF Wakeup, Waiting
\* The steps that TaskOrder does not see.
<1>8. ASSUME UNCHANGED <<depends, result>>, call' = call,
             \A u \in Tasks : \/ pc'[u] = pc[u]
                              \/ pc[u] = "launched" /\ pc'[u] = "queued"
      PROVE  UNCHANGED Promise!vars
  <2>1. \A u \in Tasks : Phase(u)' = Phase(u)
    BY <1>8 DEF Phase
  <2>2. phases' = phases
    BY <2>1 DEF phases
  <2> QED BY <1>8, <2>2 DEF Promise!vars, phases, call
<1>9. ASSUME NEW t \in Tasks, Enqueue(t) \/ Discard(t) PROVE UNCHANGED Promise!vars
  <2>1. /\ UNCHANGED <<depends, result, main>>
        /\ pc' = pc \/ (pc[t] = "launched" /\ pc' = [pc EXCEPT ![t] = "queued"])
    BY <1>9 DEF Enqueue, Discard, bookkeeping, caller
  <2>2. \A u \in Tasks : \/ pc'[u] = pc[u]
                         \/ pc[u] = "launched" /\ pc'[u] = "queued"
    BY <1>1, <2>1 DEF Types
  <2> QED BY <1>8, <2>1, <2>2 DEF call
<1>10. ASSUME AllDoneWait \/ UNCHANGED vars PROVE UNCHANGED Promise!vars
  <2>1. UNCHANGED <<depends, result, pc>> /\ call' = call
    BY <1>10 DEF AllDoneWait, vars, bookkeeping, call
  <2> QED BY <1>8, <2>1
<1>11. ASSUME Finish \/ CancelCall
       PROVE  UNCHANGED depends /\ phases' = phases /\ call = "open"
  <2>1. UNCHANGED <<depends, result, pc>>
    BY <1>11 DEF Finish, CancelCall, bookkeeping
  <2> QED BY <1>11, <2>1 DEF Finish, CancelCall, phases, Phase, call
<1>12. ASSUME Finish, fatal PROVE Promise!Raise
  <2>1. allDone /\ call' = "raised"
    BY <1>1, <1>12 DEF Finish, Recorded, call
  <2>2. PICK t \in completed : result[t] = "none"
    BY <1>1, <1>12 DEF Recorded
  <2>3. t \in Tasks /\ phases[t] = "raised"
    BY <1>1, <1>2, <2>2, PhaseOf DEF Types
  <2>4. \A u \in Tasks : phases[u] # "running"
    BY <1>1, <1>2, <2>1, PhaseOf DEF Counting, QuiescentWhenSignalled
  <2> QED BY <1>11, <1>12, <2>1, <2>3, <2>4 DEF Promise!Raise, Promise!InPhase, phases, call
<1>13. ASSUME Finish, ~fatal PROVE Promise!Return
  <2>1. allDone /\ call' = "returned"
    BY <1>1, <1>13 DEF Finish, Recorded, call
  <2>2. \A u \in Tasks : phases[u] \in {"ok", "failed", "skipped"}
    <3>1. \A u \in Tasks : u \in completed /\ result[u] # "none"
      BY <1>1, <1>13, <2>1 DEF Recorded
    <3>2. \A u \in Tasks : phases[u] = result[u]
      BY <1>1, <1>2, <3>1, PhaseOf
    <3> QED BY <1>1, <3>1, <3>2 DEF Types
  <2> QED BY <1>11, <1>13, <2>1, <2>2 DEF Promise!Return, Promise!InPhase, phases, call
<1>14. ASSUME CancelCall PROVE Promise!Cancel
  <2>1. call' = "cancelled"
    BY <1>14 DEF CancelCall, call
  <2> QED BY <1>11, <1>14, <2>1 DEF Promise!Cancel, phases, call
<1> QED
  BY <1>4, <1>5, <1>6, <1>7, <1>9, <1>10, <1>12, <1>13, <1>14 DEF Next, TaskStep, Promise!Next

\* Every behaviour of the scheduler is one of TaskOrder: its counters, its
\* queue of coroutines and its done-callbacks keep what the call promises.
THEOREM ImplementsOrder == Spec => ImplementsTaskOrder
<1>1. Init => RefInv
  <2>1. Init => Recorded
    <3> SUFFICES ASSUME Init, NEW t \in Tasks, pc[t] # "idle" PROVE Deps(t) = {}
      BY DEF Init, Recorded
    <3>1. depends[t] \in Seq(Tasks) /\ Len(depends[t]) = 0
      BY GraphsAssumption DEF Init
    <3> QED BY <3>1 DEF Deps
  <2> QED BY <2>1, InitEstablishes DEF RefInv
<1>2. RefInv /\ [Next]_vars => RefInv'
  BY RecordedPreserved
<1>3. Init => Promise!Init
  BY InitImplements
<1>4. RefInv /\ RefInv' /\ [Next]_vars => [Promise!Next]_(Promise!vars)
  BY StepImplements
<1> QED BY <1>1, <1>2, <1>3, <1>4, PTL DEF Spec, ImplementsTaskOrder, Promise!Spec
=============================================================================
