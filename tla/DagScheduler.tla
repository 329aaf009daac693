---------------------------- MODULE DagScheduler ----------------------------
(***************************************************************************)
(* The ready-queue scheduler of one plan section: execute_dag in           *)
(* wave_server/engine/dag.py.                                              *)
(*                                                                         *)
(* One call receives a list of tasks, each with a list of dependencies.    *)
(* Every task becomes a coroutine on the one event loop as soon as its     *)
(* count of unsatisfied dependencies reaches zero; a semaphore bounds the  *)
(* number of tasks inside run_task.  Between two awaits a coroutine runs   *)
(* without interruption, so an action of this module is a whole stretch    *)
(* of code from one await to the next.                                     *)
(*                                                                         *)
(* The done-callback that takes a coroutine out of in_flight runs in a     *)
(* LATER turn of the event loop than the coroutine's own last step, which  *)
(* is why Discard is an action of its own: any number of other coroutines  *)
(* may take a step in between.                                             *)
(***************************************************************************)
EXTENDS Naturals, Sequences, FiniteSets

CONSTANTS
  Tasks,           \* the ids of the tasks passed in, all different
  Graphs,          \* the dependency lists the caller may pass, one per id
  MaxConcurrency   \* initial value of the semaphore

ASSUME TasksAssumption == IsFiniteSet(Tasks) /\ Tasks # {}
ASSUME GraphsAssumption == Graphs \subseteq [Tasks -> Seq(Tasks)]
ASSUME ConcurrencyAssumption == MaxConcurrency \in Nat \ {0}

VARIABLES
  depends,     \* Task.depends, fixed by the call
  remaining,   \* remaining_deps: unsatisfied dependencies counted so far
  pc,          \* where each task's coroutine is
  sem,         \* value of the semaphore
  waiters,     \* coroutines the semaphore has not woken yet, in FIFO order
  result,      \* result_map; "none" where there is no entry
  failed,      \* failed_ids
  completed,   \* completed_ids
  tasksLeft,   \* tasks_left
  inFlight,    \* in_flight: coroutines whose done-callback has not run
  fatal,       \* fatal_exception is not None
  allDone,     \* the all_done event
  main,        \* where the call of execute_dag itself is
  gathered     \* the tasks its final asyncio.gather waits for

vars == <<depends, remaining, pc, sem, waiters, result, failed, completed,
          tasksLeft, inFlight, fatal, allDone, main, gathered>>
bookkeeping == <<remaining, failed, completed, tasksLeft, inFlight, fatal,
                 allDone, result>>
caller == <<main, gathered>>

\* What run_task may do: return a result with exit code 0 or another, or raise.
Outcomes == {"ok", "failed", "raised"}
Exited   == {"ok", "failed"}

Deps(t)       == {depends[t][i] : i \in DOMAIN depends[t]}
Dependents(t) == {u \in Tasks : t \in Deps(u)}

\* A plausible fault, for a mutation run only: no check of the dependencies.
DepFailed_Unchecked(t) == FALSE

DepFailed(t) == Deps(t) \cap failed # {}

\* The tasks whose last open dependency is t.
\* Fault: the test for zero is made before the decrement.
BecomesReady_TooLate(t) ==
  {u \in Dependents(t) \ (completed \cup {t}) : remaining[u] = 0}

BecomesReady(t) ==
  {u \in Dependents(t) \ (completed \cup {t}) : remaining[u] = 1}

\* Only the coroutine that is ending is in flight: its done-callback has not
\* run, so it still counts itself.
\* Fault: room for a second one, which "repairs" the lost signal below.
LastInFlight_TooEarly == Cardinality(inFlight) <= 2

LastInFlight == Cardinality(inFlight) <= 1

\* A slot of the semaphore can be taken without waiting.
\* Fault: the semaphore is not consulted.
SlotFree_Always == TRUE

SlotFree == sem > 0 /\ \A t \in Tasks : pc[t] # "queued"

TypeOK ==
  /\ depends \in Graphs
  /\ remaining \in [Tasks -> Nat]
  /\ pc \in [Tasks -> {"idle", "launched", "queued", "running", "done"}]
  /\ sem \in 0 .. MaxConcurrency
  /\ waiters \in Seq(Tasks)
  /\ result \in [Tasks -> {"none", "ok", "failed", "skipped"}]
  /\ failed \subseteq completed
  /\ completed \subseteq Tasks
  /\ tasksLeft \in Nat
  /\ inFlight \subseteq Tasks
  /\ fatal \in BOOLEAN
  /\ allDone \in BOOLEAN
  /\ main \in {"waiting", "gathering", "returned", "raised", "cancelled"}
  /\ gathered \subseteq Tasks
-----------------------------------------------------------------------------
\* The call sets up its tables and launches the tasks without dependencies.
Init ==
  /\ depends \in Graphs
  /\ remaining = [t \in Tasks |-> Len(depends[t])]
  /\ pc = [t \in Tasks |-> IF remaining[t] = 0 THEN "launched" ELSE "idle"]
  /\ inFlight = {t \in Tasks : remaining[t] = 0}
  /\ sem = MaxConcurrency
  /\ waiters = <<>>
  /\ result = [t \in Tasks |-> "none"]
  /\ failed = {}
  /\ completed = {}
  /\ tasksLeft = Cardinality(Tasks)
  /\ fatal = FALSE
  /\ allDone = FALSE
  /\ main = "waiting"
  /\ gathered = {}

\* The end of a coroutine: count the task as completed, then either signal
\* the caller (a fatal exception is pending) or launch what became ready.
Complete(t, isFailed, isFatal) ==
  /\ fatal' = (fatal \/ isFatal)
  /\ failed' = IF isFailed THEN failed \cup {t} ELSE failed
  /\ completed' = completed \cup {t}
  /\ tasksLeft' = tasksLeft - 1
  /\ \/ /\ fatal'
        /\ allDone' = (allDone \/ LastInFlight)
        /\ pc' = [pc EXCEPT ![t] = "done"]
        /\ UNCHANGED <<remaining, inFlight>>
     \/ /\ ~fatal'
        /\ remaining' = [u \in Tasks |->
             IF u \in Dependents(t) \ completed' THEN remaining[u] - 1
                                                 ELSE remaining[u]]
        /\ pc' = [u \in Tasks |-> IF u = t THEN "done"
                                  ELSE IF u \in BecomesReady(t) THEN "launched"
                                  ELSE pc[u]]
        /\ inFlight' = inFlight \cup BecomesReady(t)
        /\ allDone' = (allDone \/ tasksLeft' = 0)

\* A launched coroutine takes its first step: a dependency has failed.
Skip(t) ==
  /\ pc[t] = "launched"
  /\ DepFailed(t)
  /\ result' = [result EXCEPT ![t] = "skipped"]
  /\ Complete(t, TRUE, FALSE)
  /\ UNCHANGED <<depends, sem, waiters, main, gathered>>

\* ... or it enters the semaphore and starts run_task ...
Acquire(t) ==
  /\ pc[t] = "launched"
  /\ ~DepFailed(t)
  /\ SlotFree
  /\ sem' = sem - 1
  /\ pc' = [pc EXCEPT ![t] = "running"]
  /\ UNCHANGED <<depends, waiters, bookkeeping, caller>>

\* ... or it joins the waiters of the semaphore.
Enqueue(t) ==
  /\ pc[t] = "launched"
  /\ ~DepFailed(t)
  /\ ~SlotFree
  /\ waiters' = Append(waiters, t)
  /\ pc' = [pc EXCEPT ![t] = "queued"]
  /\ UNCHANGED <<depends, sem, bookkeeping, caller>>

\* With value slots free, the first n waiters are woken and own a slot each
\* from now on.  They resume in a later step (Wakeup); the semaphore counts
\* them as waiting until then, so that newcomers queue behind them.
WakeNext(value, n) ==
  /\ sem' = value - n
  /\ waiters' = SubSeq(waiters, n + 1, Len(waiters))

\* Leaving the semaphore wakes one waiter, if there is one.
\* Fault: the slot is lost.
Release_SlotLost == UNCHANGED <<sem, waiters>>

Release == WakeNext(sem + 1, IF waiters = <<>> THEN 0 ELSE 1)

\* A waiter that owns a slot resumes and starts run_task.  If slots have
\* become free meanwhile, it wakes waiters that arrived behind it.
Wakeup(t) ==
  /\ pc[t] = "queued"
  /\ \A i \in DOMAIN waiters : waiters[i] # t
  /\ WakeNext(sem, IF sem < Len(waiters) THEN sem ELSE Len(waiters))
  /\ pc' = [pc EXCEPT ![t] = "running"]
  /\ UNCHANGED <<depends, bookkeeping, caller>>

\* run_task returns or raises, and the coroutine runs to its end.
EndRun(t, outcome) ==
  /\ pc[t] = "running"
  /\ Release
  /\ result' = IF outcome \in Exited
                 THEN [result EXCEPT ![t] = outcome] ELSE result
  /\ Complete(t, outcome # "ok", outcome = "raised")
  /\ UNCHANGED <<depends, main, gathered>>

\* The done-callback of a finished coroutine.
Discard(t) ==
  /\ pc[t] = "done"
  /\ t \in inFlight
  /\ inFlight' = inFlight \ {t}
  /\ UNCHANGED <<depends, remaining, pc, sem, waiters, result, failed,
                 completed, tasksLeft, fatal, allDone, caller>>

\* The caller wakes from all_done.wait() and gathers what is still in flight.
AllDoneWait ==
  /\ main = "waiting"
  /\ allDone
  /\ main' = "gathering"
  /\ gathered' = inFlight
  /\ UNCHANGED <<depends, pc, sem, waiters, bookkeeping>>

\* gather has finished: re-raise the fatal exception or return the results.
Finish ==
  /\ main = "gathering"
  /\ \A t \in gathered : pc[t] = "done"
  /\ main' = IF fatal THEN "raised" ELSE "returned"
  /\ UNCHANGED <<depends, pc, sem, waiters, bookkeeping, gathered>>

\* The execution is cancelled while this call awaits all_done.  Only the
\* call is interrupted: the coroutines it created are tasks of their own and
\* go on, launching their dependents as before.
CancelCall ==
  /\ main = "waiting"
  /\ main' = "cancelled"
  /\ UNCHANGED <<depends, pc, sem, waiters, bookkeeping, gathered>>

TaskStep(t) ==
  \/ Skip(t) \/ Acquire(t) \/ Enqueue(t) \/ Wakeup(t)
  \/ \E outcome \in Outcomes : EndRun(t, outcome)
  \/ Discard(t)

Next ==
  \/ \E t \in Tasks : TaskStep(t)
  \/ AllDoneWait
  \/ Finish
  \/ CancelCall

\* The event loop runs every ready callback.  That agents end is an assumption
\* about the environment: execute_wave spawns them without a timeout.  Nobody
\* is obliged to cancel.
Fairness ==
  /\ \A t \in Tasks : WF_vars(TaskStep(t))
  /\ WF_vars(AllDoneWait)
  /\ WF_vars(Finish)

Spec == Init /\ [][Next]_vars
FairSpec == Spec /\ Fairness
-----------------------------------------------------------------------------
\* A task is handed to run_task only when every dependency has run and exited
\* with 0 ("tasks are launched as soon as all their dependencies have
\* completed", "if a task fails, downstream dependents are skipped"), however
\* long it then waits for the semaphore while other tasks fail.
DependenciesFirst ==
  \A t \in Tasks :
    \/ pc[t] \in {"queued", "running"}
    \/ pc[t] = "done" /\ result[t] # "skipped"
    => \A d \in Deps(t) : result[d] = "ok"

\* The docstring's other half: without a fatal exception, a task whose
\* dependencies have all completed has been launched.  The counter that
\* triggers the launch must agree with the set it stands for.
ReadyIsLaunched ==
  ~fatal => \A t \in Tasks : Deps(t) \subseteq completed => pc[t] # "idle"

\* all_done is set only when no coroutine is alive: the caller never tears
\* down what a running task still uses, and the final gather has nothing to
\* wait for.
QuiescentWhenSignalled ==
  allDone => \A t \in Tasks : pc[t] \in {"idle", "done"}

\* No call waits for ever unless a task raised: all_done is reached, however
\* the tasks fail, are skipped or queue for the semaphore.
EndsUnlessFatal ==
  <>(fatal \/ main \in {"returned", "raised", "cancelled"})

\* The comments of the abort path (dag.py:310-311) promise the same with a
\* fatal exception: running tasks finish, then the exception is re-raised.
Ends == <>(main \in {"returned", "raised", "cancelled"})

\* What the call promises its caller, and the state it keeps for it.
Phase(t) ==
  CASE pc[t] \in {"idle", "launched", "queued"} -> "pending"
    [] pc[t] = "running"                        -> "running"
    [] pc[t] = "done" /\ result[t] # "none"      -> result[t]
    [] OTHER                                    -> "raised"

Promise == INSTANCE TaskOrder WITH
  phase <- [t \in Tasks |-> Phase(t)],
  call  <- IF main \in {"waiting", "gathering"} THEN "open" ELSE main

ImplementsTaskOrder == Promise!Spec
=============================================================================
