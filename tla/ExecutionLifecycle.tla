------------------------- MODULE ExecutionLifecycle -------------------------
(***************************************************************************)
(* The life of the executions of one sequence: the endpoints that create,  *)
(* continue, rerun and cancel them (wave_server/routes/executions.py), the *)
(* background task of each (_run_execution in                              *)
(* wave_server/engine/execution_manager.py), and the status of the         *)
(* sequence as it is shown (wave_server/routes/sequences.py).              *)
(*                                                                         *)
(* The waves themselves are one stage here ("working").  asyncio cancels a *)
(* task by an exception at the await where the task is suspended: from the *)
(* call of cancel() on, the next step of the task is Interrupted.  A crash *)
(* ends every task and request; the database and the directories on disk   *)
(* stay as they are, and nothing is repaired at the next start.            *)
(*                                                                         *)
(* The agents of the waves run in coroutines of their own, which neither a *)
(* cancellation nor an exception elsewhere stops.  Of what they do this    *)
(* module has what they write to the execution: the callbacks on_pause and *)
(* on_resume of RateLimit.  They set the status of the object that the     *)
(* variable `execution` names at that moment, which is the one of the      *)
(* task's own session until an except clause names its own.                *)
(***************************************************************************)
EXTENDS Naturals

CONSTANTS
  MaxExecutions,  \* bound on the executions created
  MaxCrashes,     \* bound on the crashes of the server
  MaxPauses       \* bound on the calls of on_pause

ASSUME BoundsAssumption ==
  MaxExecutions \in Nat \ {0} /\ MaxCrashes \in Nat /\ MaxPauses \in Nat

Executions == 1 .. MaxExecutions
Nobody == 0

VARIABLES
  status,     \* Execution.status in the database, "none" before it exists
  branch,     \* Execution.work_branch, as the execution that created it
  sequence,   \* Sequence.status in the database
  stage,      \* where the background task of the execution is
  ending,     \* the status that its end is going to write
  handling,   \* executions whose task is inside one of its except clauses
  cancelled,  \* executions whose task has been sent a CancelledError
  unhandled,  \* executions ended by an exception that no clause handled
  sawRunning, \* executions that found the sequence "running" when they began
  owned,      \* executions whose task knows its directory
  tree,       \* which execution's directory lies at each branch's path
  verdict,    \* the outcome in the run_completed event
  request,    \* the cancel request in flight, one at most per execution
  answered,   \* executions whose cancellation was answered with 204
  agents,     \* executions whose agents have been started and may still run
  entity,     \* status of the object that `execution` names, "none" if it has
              \* nothing to write
  flushing,   \* the status that a callback is committing
  pauses,     \* number of calls of on_pause so far
  overtaken,  \* executions whose status a callback has set although they were
              \* cancelled or an except clause had taken over
  overlapped, \* executions launched while another had a task
  crashed,    \* executions that had a task or a request when a crash came
  crashes     \* number of crashes so far

task == <<stage, ending, handling, cancelled, unhandled, sawRunning, owned,
          verdict>>
user == <<request, answered>>
rate == <<agents, entity, flushing, pauses, overtaken>>
fate == <<overlapped, crashed, crashes>>
vars == <<status, branch, sequence, task, tree, user, rate, fate>>

Terminal == {"completed", "failed", "cancelled"}
Rate == {"paused", "running"}
Live == {"queued", "loading", "starting", "setup", "making", "saving",
         "working", "cleanup", "closing", "notifying", "calling"}

TypeOK ==
  /\ status \in [Executions -> {"none", "pending"} \cup Rate \cup Terminal]
  /\ branch \in [Executions -> {Nobody} \cup Executions]
  /\ sequence \in {"pending", "running"} \cup Terminal
  /\ stage \in [Executions -> {"none", "over"} \cup Live]
  /\ ending \in [Executions -> {"none"} \cup Terminal]
  /\ handling \subseteq Executions
  /\ cancelled \subseteq {e \in Executions : stage[e] \in Live}
  /\ unhandled \subseteq Executions
  /\ sawRunning \subseteq Executions
  /\ owned \subseteq Executions
  /\ tree \in [Executions -> {Nobody} \cup Executions]
  /\ verdict \in [Executions -> {"none", "completed", "failed"}]
  /\ request \in [Executions -> {"none", "read", "granted"}]
  /\ answered \subseteq Executions
  /\ agents \subseteq Executions
  /\ entity \in [Executions -> {"none"} \cup Rate \cup Terminal]
  /\ flushing \in [Executions -> {"none"} \cup Rate]
  /\ pauses \in 0 .. MaxPauses
  /\ overtaken \subseteq Executions
  /\ overlapped \subseteq Executions
  /\ crashed \subseteq Executions
  /\ crashes \in 0 .. MaxCrashes

\* The variables of a background task end with it.
Leave(E) ==
  /\ ending' = [e \in Executions |-> IF e \in E THEN "none" ELSE ending[e]]
  /\ entity' = [e \in Executions |-> IF e \in E THEN "none" ELSE entity[e]]
  /\ handling' = handling \ E
  /\ sawRunning' = sawRunning \ E
  /\ owned' = owned \ E
  /\ agents' = agents \ E
  /\ overlapped' = overlapped \ E

Init ==
  /\ status = [e \in Executions |-> "none"]
  /\ branch = [e \in Executions |-> Nobody]
  /\ sequence = "pending"
  /\ stage = [e \in Executions |-> "none"]
  /\ ending = [e \in Executions |-> "none"]
  /\ handling = {}
  /\ cancelled = {}
  /\ unhandled = {}
  /\ sawRunning = {}
  /\ owned = {}
  /\ tree = [e \in Executions |-> Nobody]
  /\ verdict = [e \in Executions |-> "none"]
  /\ request = [e \in Executions |-> "none"]
  /\ answered = {}
  /\ agents = {}
  /\ entity = [e \in Executions |-> "none"]
  /\ flushing = [e \in Executions |-> "none"]
  /\ pauses = 0
  /\ overtaken = {}
  /\ overlapped = {}
  /\ crashed = {}
  /\ crashes = 0
-----------------------------------------------------------------------------
\* The endpoints.  Ids are given out in order, the latest is the highest.
\* b is the branch that the record starts with, Nobody for none.
Active == {e \in Executions : stage[e] \in Live}

Launch(e, b) ==
  /\ status[e] = "none"
  /\ \A d \in 1 .. e - 1 : status[d] # "none"
  /\ status' = [status EXCEPT ![e] = "pending"]
  /\ branch' = [branch EXCEPT ![e] = b]
  /\ stage' = [stage EXCEPT ![e] = "queued"]
  /\ overlapped' = overlapped \cup {x \in {e} : Active # {}}
  /\ UNCHANGED <<sequence, ending, handling, cancelled, unhandled, sawRunning,
                 owned, verdict, tree, user, rate, crashed, crashes>>

Create(e) == Launch(e, Nobody)

\* Both take over the branch of the execution they start from; neither asks
\* whether another execution is at work on it.
Continue(e, p) == status[p] \in {"failed", "cancelled"} /\ Launch(e, branch[p])

Rerun(e, p) == status[p] \in Terminal /\ Launch(e, branch[p])

\* The cancel endpoint reads the status; the answer may be old by the time
\* the handler goes on ...
Cancellable(s) == s \in {"pending", "running"}

CancelReads(e) ==
  /\ request[e] = "none"
  /\ Cancellable(status[e])
  /\ request' = [request EXCEPT ![e] = "read"]
  /\ UNCHANGED <<status, branch, sequence, task, tree, answered, rate, fate>>

\* ... cancels the background task, unless that has ended ...
CancelInterrupts(e) ==
  /\ request[e] = "read"
  /\ request' = [request EXCEPT ![e] = "granted"]
  /\ cancelled' = cancelled \cup ({e} \cap Active)
  /\ UNCHANGED <<status, branch, sequence, stage, ending, handling, unhandled,
                 sawRunning, owned, verdict, tree, answered, rate, fate>>

\* ... and in any case writes the status, and answers.
\* Fault: the status of a live task is left to its except clause.
Granted_IfOver(e) == IF e \in Active THEN status[e] ELSE "cancelled"

Granted(e) == "cancelled"

CancelCommits(e) ==
  /\ request[e] = "granted"
  /\ request' = [request EXCEPT ![e] = "none"]
  /\ status' = [status EXCEPT ![e] = Granted(e)]
  /\ answered' = answered \cup {e}
  /\ UNCHANGED <<branch, sequence, task, tree, rate, fate>>
-----------------------------------------------------------------------------
\* The background task.

\* A task that was sent a CancelledError takes no other step.
\* Fault: the exception is swallowed by a library call that is retried.
MayStep_Shielded(e) == TRUE

MayStep(e) == e \notin cancelled

Step(e, from, to) ==
  /\ stage[e] = from
  /\ MayStep(e)
  /\ stage' = [stage EXCEPT ![e] = to]

\* The task reads the execution and the sequence.
Begin(e) ==
  /\ Step(e, "queued", "loading")
  /\ sawRunning' = sawRunning \cup {x \in {e} : sequence = "running"}
  /\ UNCHANGED <<status, branch, sequence, ending, handling, cancelled,
                 unhandled, owned, verdict, tree, user, rate, fate>>

\* An early return: no plan, an invalid one, no repository.  The execution
\* fails with an event, the sequence keeps its status, no callback is sent.
\* Fault: the early return forgets the event.
Rejection_Silent(e) == verdict[e]

Rejection(e) == "failed"

Rejected(e) ==
  /\ status' = [status EXCEPT ![e] = "failed"]
  /\ verdict' = [verdict EXCEPT ![e] = Rejection(e)]
  /\ Leave({e})
  /\ UNCHANGED <<sequence, cancelled, unhandled, user, flushing, pauses,
                 overtaken, crashed, crashes>>

Reject(e) ==
  /\ stage[e] \in {"loading", "setup"}
  /\ Step(e, stage[e], "over")
  /\ Rejected(e)
  /\ UNCHANGED <<branch, tree>>

\* The session writes what has changed since the objects were read: not the
\* status of a sequence that was "running" then, whatever it is by now.
\* Fault: the status of the sequence is left alone.
SequenceAtStart_Kept(e) == sequence

SequenceAtStart(e) == IF e \in sawRunning THEN sequence ELSE "running"

Start(e) ==
  /\ Step(e, "loading", "starting")
  /\ status' = [status EXCEPT ![e] = "running"]
  /\ sequence' = SequenceAtStart(e)
  /\ entity' = [entity EXCEPT ![e] = "running"]
  /\ sawRunning' = sawRunning \ {e}
  /\ UNCHANGED <<branch, ending, handling, cancelled, unhandled, owned, verdict, tree, user, agents, flushing, pauses,
                 overtaken, fate>>

\* The runner is chosen and the variables of the except clauses are bound.
Prepare(e) ==
  /\ Step(e, "starting", "setup")
  /\ UNCHANGED <<status, branch, sequence, ending, handling, cancelled,
                 unhandled, sawRunning, owned, verdict, tree, user, rate, fate>>

WorkBranch(e) == IF branch[e] = Nobody THEN e ELSE branch[e]

\* create_execution_worktree: a directory found at the path of the branch is
\* taken for one of a previous run and removed ...
MakeTree(e) ==
  /\ Step(e, "setup", "making")
  /\ tree' = [tree EXCEPT ![WorkBranch(e)] = e]
  /\ UNCHANGED <<status, branch, sequence, ending, handling, cancelled,
                 unhandled, sawRunning, owned, verdict, user, rate, fate>>

\* ... the new one is found impossible to make, or to reset ...
RejectTree(e, left) ==
  /\ Step(e, "setup", "over")
  /\ Rejected(e)
  /\ branch' = [branch EXCEPT ![e] = WorkBranch(e)]
  /\ tree' = [tree EXCEPT ![WorkBranch(e)] = left]

\* ... or its path is returned, and with it the branch is saved.
TakeTree(e) ==
  /\ Step(e, "making", "saving")
  /\ owned' = owned \cup {e}
  /\ UNCHANGED <<status, branch, sequence, ending, handling, cancelled,
                 unhandled, sawRunning, verdict, tree, user, rate, fate>>

SaveBranch(e) ==
  /\ Step(e, "saving", "working")
  /\ branch' = [branch EXCEPT ![e] = WorkBranch(e)]
  /\ agents' = agents \cup {e}
  /\ UNCHANGED <<status, sequence, ending, handling, cancelled, unhandled,
                 sawRunning, owned, verdict, tree, user, entity, flushing,
                 pauses, overtaken, fate>>

\* on_pause or on_resume, called for an agent, sets the status and commits it,
\* one call at a time ...
InCharge(e) ==
  stage[e] = "working" /\ e \notin cancelled \cup answered /\ request[e] # "granted"

Callback(e, s) ==
  /\ e \in agents
  /\ flushing[e] = "none"
  /\ entity[e] # s
  /\ IF s = "paused" THEN pauses < MaxPauses /\ pauses' = pauses + 1
                      ELSE pauses > 0 /\ UNCHANGED pauses
  /\ entity' = [entity EXCEPT ![e] = s]
  /\ UNCHANGED <<branch, sequence, task, tree, user, agents, fate>>

CallbackInTime(e, s) ==
  /\ InCharge(e)
  /\ Callback(e, s)
  /\ status' = [status EXCEPT ![e] = s]
  /\ UNCHANGED <<flushing, overtaken>>

\* ... or, when others are about to write the status too, it is overtaken by
\* them, or they by it.  Of an object that an except clause has read nothing
\* is committed but what that clause commits: the status, and in the case of
\* a failure the event.
CallbackSets(e, s) ==
  /\ stage[e] \in {"working", "cleanup", "closing", "notifying"} /\ ~InCharge(e)
  /\ Callback(e, s)
  /\ flushing' = IF stage[e] \in {"working", "cleanup"}
                   THEN [flushing EXCEPT ![e] = s] ELSE flushing
  /\ overtaken' = overtaken \cup {e}
  /\ UNCHANGED status

CallbackCommits(e) ==
  /\ flushing[e] # "none"
  /\ status' = [status EXCEPT ![e] = flushing[e]]
  /\ flushing' = [flushing EXCEPT ![e] = "none"]
  /\ UNCHANGED <<branch, sequence, task, tree, user, agents, entity, pauses,
                 overtaken, fate>>

\* The waves are through, and the pull request too: all agents have ended, no
\* pause is open and no callback outstanding, as RateLimit shows.
WavesEnd(e, outcome) ==
  /\ Step(e, "working", "cleanup")
  /\ entity[e] = "running" /\ flushing[e] = "none"
  /\ ending' = [ending EXCEPT ![e] = outcome]
  /\ agents' = agents \ {e}
  /\ UNCHANGED <<status, branch, sequence, handling, cancelled, unhandled,
                 sawRunning, owned, verdict, tree, user, entity, flushing,
                 pauses, overtaken, fate>>

\* All ends remove the directory, write the status of execution and sequence,
\* emit the event (not so a cancellation) and send the callback.  An except
\* clause reads the execution again: what it sets and what the callbacks set
\* from now on is one object, which is written when it is committed.
RemoveTree(e) ==
  /\ Step(e, "cleanup", "closing")
  /\ tree' = IF e \in owned THEN [tree EXCEPT ![WorkBranch(e)] = Nobody] ELSE tree
  /\ entity' = [entity EXCEPT ![e] = ending[e]]
  /\ UNCHANGED <<status, branch, sequence, ending, handling, cancelled,
                 unhandled, sawRunning, owned, verdict, user, agents, flushing,
                 pauses, overtaken, fate>>

EndStatus(e) == entity[e]

WriteEnd(e) ==
  /\ Step(e, "closing", IF ending[e] = "cancelled" THEN "calling" ELSE "notifying")
  /\ status' = [status EXCEPT ![e] = EndStatus(e)]
  /\ sequence' = ending[e]
  /\ entity' = [entity EXCEPT ![e] = "none"]
  /\ UNCHANGED <<branch, ending, handling, cancelled, unhandled, sawRunning,
                 owned, verdict, tree, user, agents, flushing, pauses,
                 overtaken, fate>>

Notify(e) ==
  /\ Step(e, "notifying", "calling")
  /\ verdict' = [verdict EXCEPT ![e] = ending[e]]
  /\ status' = [status EXCEPT ![e] = IF entity[e] = "none" THEN @ ELSE entity[e]]
  /\ UNCHANGED <<branch, sequence, ending, handling, cancelled, unhandled,
                 sawRunning, owned, tree, user, rate, fate>>

\* The callback takes up to ten seconds.
Return(e) ==
  /\ Step(e, "calling", "over")
  /\ Leave({e})
  /\ UNCHANGED <<status, branch, sequence, cancelled, unhandled, verdict, tree,
                 user, flushing, pauses, overtaken, crashed, crashes>>

\* The except clauses read variables that are bound late (pauser, config): an
\* exception before that, or inside an except clause, ends the task.
Covered(e) == e \notin handling /\ stage[e] \notin {"queued", "loading", "starting"}

Except(e, outcome) ==
  /\ IF Covered(e)
       THEN /\ stage' = [stage EXCEPT ![e] = "cleanup"]
            /\ ending' = [ending EXCEPT ![e] = outcome]
            /\ handling' = handling \cup {e}
            /\ UNCHANGED <<unhandled, sawRunning, owned, agents, entity, overlapped>>
       ELSE /\ stage' = [stage EXCEPT ![e] = "over"]
            /\ unhandled' = unhandled \cup ({e} \ cancelled)
            /\ Leave({e})
  /\ UNCHANGED <<status, branch, sequence, verdict, tree, user, flushing, pauses,
                 overtaken, crashed, crashes>>

\* A step raises: parse_plan, get_runner, git, the database, a task's fatal
\* exception.  Nothing has run before the first step, and the callback never
\* raises.
Raise(e) ==
  /\ stage[e] \in Live \ {"queued", "calling"}
  /\ MayStep(e)
  /\ Except(e, "failed")
  /\ UNCHANGED cancelled

\* The CancelledError arrives.
Interrupted(e) ==
  /\ e \in cancelled
  /\ cancelled' = cancelled \ {e}
  /\ Except(e, "cancelled")

\* A crash of a server with nothing to do changes nothing.
Crash ==
  LET hit == {e \in Executions : e \in Active \/ request[e] # "none"} IN
  /\ hit # {}
  /\ crashes < MaxCrashes
  /\ crashes' = crashes + 1
  /\ crashed' = crashed \cup hit
  /\ stage' = [e \in Executions |-> IF e \in Active THEN "over" ELSE stage[e]]
  /\ cancelled' = {}
  /\ request' = [e \in Executions |-> "none"]
  /\ flushing' = [e \in Executions |-> "none"]
  /\ Leave(Executions)
  /\ UNCHANGED <<status, branch, sequence, unhandled, verdict, tree, answered,
                 pauses, overtaken>>

Background(e) ==
  \/ Begin(e) \/ Reject(e) \/ Start(e) \/ Prepare(e) \/ MakeTree(e)
  \/ \E left \in {Nobody, e} : RejectTree(e, left)
  \/ TakeTree(e) \/ SaveBranch(e)
  \/ \E outcome \in {"completed", "failed"} : WavesEnd(e, outcome)
  \/ RemoveTree(e) \/ WriteEnd(e) \/ Notify(e) \/ Return(e)
  \/ Raise(e) \/ Interrupted(e)

Report(e, s) == CallbackInTime(e, s) \/ CallbackSets(e, s)

Answer(e) == CancelInterrupts(e) \/ CancelCommits(e)

Next ==
  \/ \E e \in Executions :
       \/ Create(e)
       \/ \E p \in 1 .. e - 1 : Continue(e, p) \/ Rerun(e, p)
       \/ CancelReads(e) \/ Answer(e)
       \/ Background(e)
       \/ (\E s \in Rate : Report(e, s)) \/ CallbackCommits(e)
  \/ Crash

\* The event loop runs some task as long as one is ready, answers requests, and
\* pauses pass (RateLimit); the waves come to an end (DagScheduler and
\* FeaturePhase say when).
Resuming(e) == Report(e, "running") \/ CallbackCommits(e)
Fairness ==
  /\ WF_vars(\E e \in Executions : Background(e))
  /\ WF_vars(\E e \in Executions : Answer(e) \/ Resuming(e))

Spec == Init /\ [][Next]_vars
FairSpec == Spec /\ Fairness
-----------------------------------------------------------------------------
\* A cancellation that was answered stays, whatever the background task was
\* about to write when it was interrupted: no step of that task, of another
\* or of a request changes the status again.  Only an agent that meets a rate
\* limit can, because nothing stops the agents; it never makes the execution
\* a completed or a failed one.
StaysCancelled ==
  \A e \in answered :
    status'[e] = "cancelled" \/ (e \in overtaken' /\ status'[e] \in Rate)
CancelSticks == [][StaysCancelled]_vars

\* A background task that ended without a crash left the execution in a
\* terminal status, so that it can be continued or rerun; the exceptions are a
\* task whose except clause failed and one that an agent's callback overtook.
EndedIsTerminal ==
  \A e \in Executions :
    stage[e] = "over" /\ e \notin crashed \cup unhandled \cup overtaken
    /\ request[e] = "none"
    => status[e] \in Terminal

\* When nothing of an execution is under way any more, its event and its
\* status agree: no verdict of failure without one, none that differs.
VerdictAgrees ==
  \A e \in Executions :
    /\ stage[e] = "over" /\ e \notin crashed \cup unhandled \cup overtaken
    /\ request[e] = "none" /\ status[e] # "cancelled"
    => verdict[e] = status[e]

\* The status a client sees, _enrich_sequence_status.
Believed == Terminal

IsLatest(e) == status[e] # "none" /\ \A d \in Executions : d > e => status[d] = "none"
Latest == status[CHOOSE e \in Executions : IsLatest(e)]
Shown ==
  IF sequence \in Believed THEN sequence
  ELSE IF \A e \in Executions : status[e] = "none" THEN "pending" ELSE Latest

\* "Terminal statuses are authoritative": the outcome of an older execution
\* does not hide the latest while its waves are at work, although its write of the
\* sequence's status is left out when the sequence was "running" before,
\* after a crash for instance.  The exception is an execution launched while
\* the task of another had not ended: that one's end is then shown.
AtWork(e) ==
  stage[e] \in Live \ {"queued", "loading", "notifying", "calling"}
  /\ e \notin handling
ShownIsCurrent ==
  \A e \in Executions :
    IsLatest(e) /\ AtWork(e) /\ e \notin overlapped => Shown = status[e]

\* In the end every execution has a terminal status for good, unless the server
\* crashed, an except clause failed or an agent's callback overtook it.
EndsEventually ==
  <>[](\A e \in Executions :
         status[e] \in Terminal \cup {"none"}
         \/ e \in crashed \cup unhandled \cup overtaken)

\* The comment in create_execution_worktree: a directory that lies at the
\* path is "from a previous run".  So an execution at work that was not
\* cancelled finds its own directory there, until its own end.
WorksInOwnTree ==
  \A e \in Executions :
    stage[e] = "working" /\ e \notin cancelled => tree[WorkBranch(e)] = e
=============================================================================
