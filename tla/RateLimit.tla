------------------------------ MODULE RateLimit ------------------------------
(***************************************************************************)
(* Pause and resume on API rate limits: RateLimitPauser and                *)
(* RateLimitAwareRunner in wave_server/engine/rate_limit.py, wired to the  *)
(* execution's status by the callbacks of _run_execution in                *)
(* wave_server/engine/execution_manager.py.                                *)
(*                                                                         *)
(* Every member of Agents is one call of RateLimitAwareRunner.spawn.  The  *)
(* calls share one pauser: the first that is told of a rate limit closes   *)
(* the gate, announces the pause in the database and starts the task that  *)
(* sleeps through the window; the others wait at the gate.                 *)
(*                                                                         *)
(* An asyncio.Event wakes the coroutines that wait when it is set: a woken *)
(* coroutine (in woken) goes on in a later turn of the loop even if the    *)
(* gate has been closed again by then.  All writes of one execution go     *)
(* through one FIFO lock (db_lock): dbQueue lists the writes that hold it  *)
(* or wait for it, the holder first.                                       *)
(***************************************************************************)
EXTENDS Naturals, Sequences, FiniteSets

CONSTANTS
  Agents,        \* the spawn calls of the execution
  MaxRetries,    \* settings.rate_limit_max_retries
  MayCancel      \* whether the cancel endpoint is called

ASSUME AgentsAssumption == IsFiniteSet(Agents) /\ Agents # {}
ASSUME RetriesAssumption == MaxRetries \in Nat
ASSUME SwitchAssumption == MayCancel \in BOOLEAN

VARIABLES
  gate,        \* _gate is set
  paused,      \* _paused
  pauseCount,  \* _pause_count
  waitTask,    \* _wait_task: the background task that sleeps through a window
  pc,          \* where each spawn call is
  attempt,     \* agent processes each spawn call has started
  woken,       \* calls whose wait on the gate has been resolved
  reported,    \* _pause_count when each call has last reported a rate limit
  dbQueue,     \* writes that hold or await db_lock
  status,      \* Execution.status in the database
  exec         \* where the coroutine _run_execution is

pauser == <<gate, paused, pauseCount, waitTask>>
calls  == <<pc, attempt, woken, reported>>
vars   == <<pauser, calls, dbQueue, status, exec>>

Ended   == {"ended", "raised"}
AtGate  == {"waiting", "blocked"}
Live    == {"created", "sleeping", "cancelling"}
NoneRaised == \A a \in Agents : pc[a] # "raised"
Write(op, a) == [op |-> op, by |-> a]
Writes  == [op : {"pause", "end"}, by : Agents] \cup [op : {"resume"}, by : {"window"}]

TypeOK ==
  /\ gate \in BOOLEAN
  /\ paused \in BOOLEAN
  /\ pauseCount \in Nat
  /\ waitTask \in Live \cup {"none", "resuming", "done", "failed"}
  /\ pc \in [Agents -> {"start", "waiting", "agent", "announcing", "blocked",
                        "ending"} \cup Ended]
  /\ attempt \in [Agents -> 0 .. MaxRetries + 1]
  /\ woken \subseteq Agents
  /\ reported \in [Agents -> Nat]
  /\ dbQueue \in Seq(Writes)
  /\ status \in {"running", "paused", "completed", "failed", "cancelled"}
  /\ exec \in {"running", "cancelling", "cleanup", "notifying", "over"}

Init ==
  /\ gate = TRUE
  /\ paused = FALSE
  /\ pauseCount = 0
  /\ waitTask = "none"
  /\ pc = [a \in Agents |-> "start"]
  /\ attempt = [a \in Agents |-> 0]
  /\ woken = {}
  /\ reported = [a \in Agents |-> 0]
  /\ dbQueue = <<>>
  /\ status = "running"
  /\ exec = "running"
-----------------------------------------------------------------------------
\* spawn: wait_if_paused, then start an agent process.

StartAgent(a) ==
  /\ pc' = [pc EXCEPT ![a] = "agent"]
  /\ attempt' = [attempt EXCEPT ![a] = @ + 1]
  /\ woken' = woken \ {a}

\* An attempt begins: the first one, or the next after pause() has returned.
\* An open gate is passed without giving up the event loop.
Enter(a) ==
  /\ pc[a] = "start" \/ (pc[a] = "blocked" /\ a \in woken)
  /\ \/ /\ gate
        /\ StartAgent(a)
     \/ /\ ~gate
        /\ pc' = [pc EXCEPT ![a] = "waiting"]
        /\ woken' = woken \ {a}
        /\ UNCHANGED attempt
  /\ UNCHANGED <<pauser, reported, dbQueue, status, exec>>

\* A call that was woken in wait_if_paused goes on; it does not look again.
PassGate(a) ==
  /\ pc[a] = "waiting"
  /\ a \in woken
  /\ StartAgent(a)
  /\ UNCHANGED <<pauser, reported, dbQueue, status, exec>>

\* db_lock is granted in the order it is asked for.
\* Fault: the last to come is served first.
Enqueue_LastFirst(w) == dbQueue' = <<w>> \o dbQueue

Enqueue(w) == dbQueue' = Append(dbQueue, w)

\* The agent ended without a rate limit, or with one and no retry left.  The
\* result goes up to on_task_end, whose write waits its turn.
AgentEnds(a) ==
  /\ pc[a] = "agent"
  /\ pc' = [pc EXCEPT ![a] = "ending"]
  /\ Enqueue(Write("end", a))
  /\ UNCHANGED <<pauser, attempt, woken, reported, status, exec>>

\* The loop over the attempts has another one left.
\* Fault: one too many.
RetryLeft_OneMore(a) == attempt[a] <= MaxRetries + 1

RetryLeft(a) == attempt[a] <= MaxRetries

\* Only the first report of a rate limit triggers the pause.
\* Fault: every report does.
FirstReport_Every == TRUE

FirstReport == ~paused

\* The gate is closed as soon as the pause is decided.
\* Fault: only the flag is set.
CloseGate_FlagOnly == gate' = gate

CloseGate == gate' = FALSE

\* An open gate is not waited for.
AwaitGate(a) == woken' = IF gate THEN woken \cup {a} ELSE woken

\* The agent met the rate limit and may retry: pause().
AgentLimited(a) ==
  /\ pc[a] = "agent"
  /\ RetryLeft(a)
  /\ \/ /\ ~FirstReport
        /\ pc' = [pc EXCEPT ![a] = "blocked"]
        /\ AwaitGate(a)
        /\ UNCHANGED <<pauser, dbQueue>>
     \/ /\ FirstReport
        /\ paused' = TRUE
        /\ pauseCount' = pauseCount + 1
        /\ CloseGate
        /\ pc' = [pc EXCEPT ![a] = "announcing"]
        /\ Enqueue(Write("pause", a))
        /\ UNCHANGED <<waitTask, woken>>
  /\ reported' = [reported EXCEPT ![a] = pauseCount']
  /\ UNCHANGED <<attempt, status, exec>>
-----------------------------------------------------------------------------
\* The window: _wait_and_resume.

\* The calls that the event wakes.
Sleepers == {a \in Agents : pc[a] \in AtGate}

\* Fault: only the flag is taken down.
OpenGate_FlagOnly ==
  /\ paused' = FALSE
  /\ UNCHANGED <<gate, woken, pauseCount>>

OpenGate ==
  /\ paused' = FALSE
  /\ gate' = TRUE
  /\ woken' = woken \cup Sleepers
  /\ UNCHANGED pauseCount

WindowBegins ==
  /\ waitTask = "created"
  /\ waitTask' = "sleeping"
  /\ UNCHANGED <<gate, paused, pauseCount, calls, dbQueue, status, exec>>

\* The sleep is over: the gate opens and on_resume joins the queue of db_lock
\* in the same step, ahead of whatever the woken calls will write.
WindowEnds ==
  /\ waitTask = "sleeping"
  /\ waitTask' = "resuming"
  /\ OpenGate
  /\ Enqueue(Write("resume", "window"))
  /\ UNCHANGED <<pc, attempt, reported, status, exec>>

\* The sleep was cancelled: the gate opens, nobody is told.
WindowCancelled ==
  /\ waitTask = "cancelling"
  /\ waitTask' = "done"
  /\ OpenGate
  /\ UNCHANGED <<pc, attempt, reported, dbQueue, status, exec>>
-----------------------------------------------------------------------------
\* The database callbacks, one at a time under db_lock.  Once the session of
\* the execution is closed a write to its status has no effect.
SetStatus(s) == status' = IF exec = "over" THEN status ELSE s

OnPause ==
  /\ dbQueue # <<>> /\ Head(dbQueue).op = "pause"
  /\ SetStatus("paused")
  /\ waitTask' = "created"
  /\ pc' = [pc EXCEPT ![Head(dbQueue).by] = "blocked"]
  /\ AwaitGate(Head(dbQueue).by)
  /\ dbQueue' = Tail(dbQueue)
  /\ UNCHANGED <<gate, paused, pauseCount, attempt, reported, exec>>

\* on_pause raises: pause() ends before it has created the background task,
\* and so does the spawn call.
OnPauseFails ==
  /\ dbQueue # <<>> /\ Head(dbQueue).op = "pause"
  /\ pc' = [pc EXCEPT ![Head(dbQueue).by] = "raised"]
  /\ dbQueue' = Tail(dbQueue)
  /\ UNCHANGED <<pauser, attempt, woken, reported, status, exec>>

OnResume ==
  /\ dbQueue # <<>> /\ Head(dbQueue).op = "resume"
  /\ SetStatus("running")
  /\ waitTask' = "done"
  /\ dbQueue' = Tail(dbQueue)
  /\ UNCHANGED <<gate, paused, pauseCount, calls, exec>>

OnResumeFails ==
  /\ dbQueue # <<>> /\ Head(dbQueue).op = "resume"
  /\ waitTask' = "failed"
  /\ dbQueue' = Tail(dbQueue)
  /\ UNCHANGED <<gate, paused, pauseCount, calls, status, exec>>

OnTaskEnd ==
  /\ dbQueue # <<>> /\ Head(dbQueue).op = "end"
  /\ pc' = [pc EXCEPT ![Head(dbQueue).by] = "ended"]
  /\ dbQueue' = Tail(dbQueue)
  /\ UNCHANGED <<pauser, attempt, woken, reported, status, exec>>
-----------------------------------------------------------------------------
\* The execution around the calls.

\* A call has been accounted for: its on_task_end has written, or it raised.
\* Fault: the caller does not await on_task_end.
Accounted_NotAwaited(a) == pc[a] \in Ended \cup {"ending"}

Accounted(a) == pc[a] \in Ended

Completes ==
  /\ exec = "running"
  /\ \A a \in Agents : Accounted(a)
  /\ status' = IF NoneRaised THEN "completed" ELSE "failed"
  /\ exec' = "notifying"
  /\ UNCHANGED <<pauser, calls, dbQueue>>

\* The cancel endpoint: refused unless the status is pending or running.  It
\* interrupts _run_execution only; the coroutines of the tasks go on.
CancelRequested ==
  /\ MayCancel
  /\ status = "running"
  /\ exec = "running"
  /\ exec' = "cancelling"
  /\ status' = "cancelled"
  /\ UNCHANGED <<pauser, calls, dbQueue>>

\* A write that waits for db_lock, or has it, is given up.
GiveUp(op) ==
  \E i \in DOMAIN dbQueue :
    /\ dbQueue[i].op = op
    /\ dbQueue' = [j \in 1 .. Len(dbQueue) - 1 |->
                    IF j < i THEN dbQueue[j] ELSE dbQueue[j + 1]]

\* The handler of CancelledError: pauser.cancel().  A background task that
\* has not taken its first step ends without opening the gate.
HandleCancel ==
  /\ exec = "cancelling"
  /\ exec' = "cleanup"
  /\ waitTask' = CASE waitTask = "sleeping"              -> "cancelling"
                   [] waitTask \in {"created", "resuming"} -> "done"
                   [] OTHER                              -> waitTask
  /\ IF waitTask = "resuming" THEN GiveUp("resume") ELSE UNCHANGED dbQueue
  /\ UNCHANGED <<gate, paused, pauseCount, calls, status>>

\* ... it removes the worktree and writes the status in a session of its own ...
CommitCancelled ==
  /\ exec = "cleanup"
  /\ status' = "cancelled"
  /\ exec' = "notifying"
  /\ UNCHANGED <<pauser, calls, dbQueue>>

\* ... and when the callback has been sent the execution's session closes.
SessionCloses ==
  /\ exec = "notifying"
  /\ exec' = "over"
  /\ UNCHANGED <<pauser, calls, dbQueue, status>>

Call(a) == Enter(a) \/ PassGate(a) \/ AgentEnds(a) \/ AgentLimited(a)
Window == WindowBegins \/ WindowEnds \/ WindowCancelled
Callback == OnPause \/ OnPauseFails \/ OnResume \/ OnResumeFails \/ OnTaskEnd
Execution == Completes \/ HandleCancel \/ CommitCancelled \/ SessionCloses

Next ==
  \/ \E a \in Agents : Call(a)
  \/ Window
  \/ Callback
  \/ Execution
  \/ CancelRequested

\* The event loop runs whatever is ready, the window passes and the lock is
\* granted in order.  That agents end is an assumption about the environment:
\* the tasks of a plan are spawned without a timeout.
Fairness ==
  /\ \A a \in Agents : WF_vars(Call(a))
  /\ WF_vars(Window) /\ WF_vars(Callback) /\ WF_vars(Execution)

Spec == Init /\ [][Next]_vars
FairSpec == Spec /\ Fairness
-----------------------------------------------------------------------------
\* "Multiple concurrent tasks may report rate limits; only the first triggers
\* the sleep": while the execution runs, a pause has exactly one owner, the
\* call that announces it or the background task, and the gate is closed.
OneWindow ==
  exec = "running" /\ NoneRaised =>
    LET announcing == {a \in Agents : pc[a] = "announcing"} IN
    /\ gate = ~paused
    /\ paused <=> announcing # {} \/ waitTask \in Live
    /\ Cardinality(announcing) <= 1
    /\ announcing # {} => waitTask \notin Live

\* "When the gate reopens the task is retried": a call that was limited does
\* not run an agent before the window that its report opened, or joined, is
\* over, whatever windows other calls have opened and ended in between.
Over(n) == n < pauseCount \/ ~paused
RetriesAreSpaced == \A a \in Agents : pc[a] = "agent" => Over(reported[a])

\* Whenever no write is outstanding, the status shown to the user is the state
\* of the pauser: an on_resume never lands after the on_pause that follows it.
StatusFollowsPauser ==
  exec = "running" /\ NoneRaised /\ waitTask # "failed" /\ dbQueue = <<>> =>
    status = IF paused THEN "paused" ELSE "running"

\* A completed execution is not reopened by a late on_pause or on_resume.
CompletedIsFinal == [][status = "completed" => UNCHANGED status]_vars

\* Every spawn call returns unless the execution is cancelled or an on_pause
\* has failed: pauses do not add up to a deadlock at the gate or the lock.
SpawnsReturn ==
  <>(exec # "running" \/ ~NoneRaised \/ \A a \in Agents : pc[a] = "ended")
=============================================================================
