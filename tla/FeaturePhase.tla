---------------------------- MODULE FeaturePhase ----------------------------
(***************************************************************************)
(* The feature phase of a wave: the features of execute_wave               *)
(* (wave_server/engine/wave_executor.py), run by map_concurrent (dag.py),  *)
(* each by execute_feature (feature_executor.py).                          *)
(*                                                                         *)
(* A feature has a git worktree of its own (isolated) or works in the      *)
(* execution's directory.  The tasks of an isolated feature that has       *)
(* parallel tasks run in sub-worktrees, forked from the feature branch and *)
(* merged back when the task ends; otherwise a lock keeps the tasks of the *)
(* feature out of their common directory.  All features share one          *)
(* semaphore.                                                              *)
(*                                                                         *)
(* The ready queue is that of DagScheduler with its counters abstracted to *)
(* the sets they count, and the late done-callbacks, which can make the    *)
(* abort hang, left to that module.  Locks and semaphore are granted here  *)
(* in any order, which includes the FIFO order of asyncio.                 *)
(***************************************************************************)
EXTENDS Naturals, FiniteSets

CONSTANTS
  Tasks,
  FeatureCount,   \* the features of the wave are 1 .. FeatureCount
  FeatureOf,      \* the feature of each task
  Graphs,         \* the dependencies the plan may give, a set per task
  Layouts,        \* what the git set-up may have produced, see Layout
  MaxConcurrency, \* value of the semaphore
  MayFallBack     \* whether the creation of a sub-worktree may fail

Features == 1 .. FeatureCount
\* useGit: the wave is in a git repository; isolated: features whose worktree
\* was created; resumed: tasks that a prior execution completed.
Layout == [useGit : BOOLEAN, isolated : SUBSET Features, resumed : SUBSET Tasks]

ASSUME PlanAssumption ==
  /\ FeatureCount \in Nat \ {0}
  /\ IsFiniteSet(Tasks)
  /\ FeatureOf \in [Tasks -> Features]
  /\ Graphs \subseteq [Tasks -> SUBSET Tasks]
  /\ \A g \in Graphs : \A t \in Tasks : \A d \in g[t] : FeatureOf[d] = FeatureOf[t]
ASSUME LayoutAssumption == Layouts \subseteq Layout
ASSUME RunAssumption == MaxConcurrency \in Nat \ {0} /\ MayFallBack \in BOOLEAN

VARIABLES
  depends,    \* Task.depends
  layout,     \* the Layout of this wave
  call,       \* where the execute_feature call of each feature is
  wave,       \* where map_concurrent is
  pc,         \* where the coroutine of each task is
  view,       \* commits in the directory of a task when its agent starts
  sub,        \* the sub-worktree of each task and its branch: both exist
              \* ("worktree"), only the branch ("kept"), neither any more
  exit,       \* how the agent of each task ended
  code,       \* tasks whose work is in each shared directory, committed if it
              \* is under git
  tainted,    \* directories with a commit made in the middle of a merge
  dropped,    \* tasks whose commit git refused, or whose merge the resolving
              \* agent gave up while it reported success
  result,     \* result_map
  failed,     \* failed_ids of all features
  fatal,      \* features whose fatal_exception is set
  reports     \* how often on_task_end has returned, per task

plan == <<depends, layout>>
git  == <<view, sub, code, tainted, dropped>>
vars == <<plan, call, wave, pc, git, exit, result, failed, fatal, reports>>

F(t) == FeatureOf[t]
TasksOf(f) == {t \in Tasks : FeatureOf[t] = f}
In(S) == {t \in Tasks : pc[t] \in S}
Completed == In({"done"})

\* The directory of a feature's tasks when they have none of their own: the
\* feature's worktree, or 0, the directory of the execution.
Home(f) == IF f \in layout.isolated THEN f ELSE 0
Homes == 0 .. FeatureCount

\* build_dag puts two tasks on one level unless all are ordered by their
\* dependencies: the levels of n tasks in a row are n.
Reaches(f) ==
  LET R[n \in Nat] == [t \in TasksOf(f) |->
        IF n = 0 THEN depends[t]
        ELSE R[n-1][t] \cup UNION {R[n-1][d] : d \in R[n-1][t]}]
  IN R[Cardinality(TasksOf(f))]
HasParallelism(f) ==
  \E t, u \in TasksOf(f) : t # u /\ t \notin Reaches(f)[u] /\ u \notin Reaches(f)[t]

UseSubWorktrees(f) == HasParallelism(f) /\ f \in layout.isolated

DepFailed(t) == depends[t] \cap failed # {}

\* Past the semaphore, and not yet out of it.
InGate == {"fork", "running", "join", "resolving", "report"}

\* Fault: one slot too many.
SlotFree_OneMore == Cardinality(In(InGate)) <= MaxConcurrency

SlotFree == Cardinality(In(InGate)) < MaxConcurrency

\* The dir_lock of a feature without sub-worktrees.
\* Fault: the feature makes do without it.
DirFree_NoLock(f) == TRUE

DirFree(f) == UseSubWorktrees(f) \/ In(InGate \cup {"slot"}) \cap TasksOf(f) = {}

\* The git_lock of a feature: a merge holds it while an agent resolves its
\* conflicts, every other git operation within one step.
\* Fault: the lock does not cover the resolution.
GitFree_NoLock(f) == TRUE

GitFree(f) == In({"resolving"}) \cap TasksOf(f) = {}

TypeOK ==
  /\ depends \in Graphs
  /\ layout \in Layouts
  /\ call \in [Features -> {"idle", "open", "returned", "raised"}]
  /\ wave \in {"open", "returned", "raised"}
  /\ pc \in [Tasks -> InGate \cup {"idle", "launched", "gate", "slot", "note",
                                   "abort", "done"}]
  /\ view \in [Tasks -> SUBSET Tasks]
  /\ sub \in [Tasks -> {"none", "worktree", "kept", "gone"}]
  /\ exit \in [Tasks -> {"none", "ok", "failed"}]
  /\ code \in [Homes -> SUBSET Tasks]
  /\ tainted \subseteq Homes
  /\ dropped \subseteq Tasks
  /\ result \in [Tasks -> {"none", "ok", "failed", "skipped"}]
  /\ failed \subseteq Tasks
  /\ fatal \subseteq Features
  /\ reports \in [Tasks -> 0 .. 1]
  /\ Cardinality(In(InGate)) <= MaxConcurrency

Init ==
  /\ depends \in Graphs
  /\ layout \in Layouts
  /\ call = [f \in Features |-> "idle"]
  /\ wave = "open"
  /\ pc = [t \in Tasks |-> "idle"]
  /\ view = [t \in Tasks |-> {}]
  /\ sub = [t \in Tasks |-> "none"]
  /\ exit = [t \in Tasks |-> "none"]
  /\ code = [h \in Homes |-> layout.resumed]
  /\ tainted = {}
  /\ dropped = {}
  /\ result = [t \in Tasks |-> "none"]
  /\ failed = {}
  /\ fatal = {}
  /\ reports = [t \in Tasks |-> 0]
-----------------------------------------------------------------------------
\* map_concurrent: all features at once with git, one after another without.
\* Fault: at once in both cases.
MayStart_AllAtOnce(f) == TRUE

MayStart(f) == layout.useGit \/ \A g \in 1 .. f - 1 : call[g] = "returned"

StartFeature(f) ==
  /\ wave = "open"
  /\ call[f] = "idle"
  /\ MayStart(f)
  /\ call' = [call EXCEPT ![f] = "open"]
  /\ pc' = [t \in Tasks |->
       IF F(t) = f /\ depends[t] = {} THEN "launched" ELSE pc[t]]
  /\ UNCHANGED <<plan, wave, git, exit, result, failed, fatal, reports>>

\* The end of a coroutine: the finally block.
\* Faults: dependents are launched with their first dependency; the task that
\* ends does not count itself.
Ready_First(t) == {u \in In({"idle"}) : t \in depends[u]}
Ready_TooLate(t) ==
  {u \in In({"idle"}) : t \in depends[u] /\ depends[u] \subseteq Completed}

Ready(t) ==
  {u \in In({"idle"}) : t \in depends[u] /\ depends[u] \subseteq Completed \cup {t}}

Complete(t) ==
  pc' = [u \in Tasks |->
    IF u = t THEN "done"
    ELSE IF u \in Ready(t) /\ F(t) \notin fatal' THEN "launched"
    ELSE pc[u]]

Goto(t, label) == pc' = [pc EXCEPT ![t] = label]

\* A launched task whose dependency failed reports that it is skipped.
SkipFailed(t) ==
  /\ pc[t] = "launched"
  /\ DepFailed(t)
  /\ failed' = failed \cup {t}
  /\ result' = [result EXCEPT ![t] = "skipped"]
  /\ Goto(t, "note")
  /\ UNCHANGED <<plan, call, wave, git, exit, fatal, reports>>

\* A task that a prior execution completed reports that it is resumed.
SkipResumed(t) ==
  /\ pc[t] = "launched"
  /\ ~DepFailed(t)
  /\ t \in layout.resumed
  /\ Goto(t, "note")
  /\ UNCHANGED <<plan, call, wave, git, exit, result, failed, fatal, reports>>

\* on_task_end has returned for a task that did not run.
Noted(t) ==
  /\ pc[t] = "note"
  /\ reports' = [reports EXCEPT ![t] = @ + 1]
  /\ result' = IF t \in failed THEN result ELSE [result EXCEPT ![t] = "ok"]
  /\ fatal' = fatal
  /\ Complete(t)
  /\ UNCHANGED <<plan, call, wave, git, exit, failed>>

\* Any other task asks for its directory ...
Ask(t) ==
  /\ pc[t] = "launched"
  /\ ~DepFailed(t)
  /\ t \notin layout.resumed
  /\ Goto(t, "gate")
  /\ UNCHANGED <<plan, call, wave, git, exit, result, failed, fatal, reports>>

\* ... then, holding it, for a slot of the semaphore ...
TakeDir(t) ==
  /\ pc[t] = "gate"
  /\ DirFree(F(t))
  /\ Goto(t, "slot")
  /\ UNCHANGED <<plan, call, wave, git, exit, result, failed, fatal, reports>>

\* ... and starts its agent, or first forks a sub-worktree.
TakeSlot(t) ==
  /\ pc[t] = "slot"
  /\ SlotFree
  /\ IF UseSubWorktrees(F(t))
       THEN Goto(t, "fork") /\ UNCHANGED view
       ELSE Goto(t, "running") /\ view' = [view EXCEPT ![t] = code[Home(F(t))]]
  /\ UNCHANGED <<plan, call, wave, sub, code, tainted, dropped, exit, result,
                 failed, fatal, reports>>

\* A commit in the directory of the feature, which another task may be
\* merging into.
Taint(h) ==
  tainted' = tainted \cup {x \in {h} : \E t \in In({"resolving"}) : Home(F(t)) = h}

\* create_single_sub_worktree: commit what lies in the feature's directory
\* and branch off; when that fails the task runs in that directory.  Nobody
\* looks whether the commit succeeds: what git refused before may be missing.
Fork(t) ==
  /\ pc[t] = "fork"
  /\ GitFree(F(t))
  /\ Taint(Home(F(t)))
  /\ \E missing \in {{}, dropped} :
       view' = [view EXCEPT ![t] = code[Home(F(t))] \ missing]
  /\ \/ sub' = [sub EXCEPT ![t] = "worktree"]
     \/ MayFallBack /\ UNCHANGED sub
  /\ Goto(t, "running")
  /\ UNCHANGED <<plan, call, wave, code, dropped, exit, result, failed, fatal,
                 reports>>

\* The agent ends, its verify-fix loop included.  A success outside of a
\* sub-worktree is committed at once, under no lock; when git refuses the
\* commit the work lies in the directory as the agent left it.
AgentEnds(t, status) ==
  /\ pc[t] = "running"
  /\ exit' = [exit EXCEPT ![t] = status]
  /\ failed' = IF status = "failed" THEN failed \cup {t} ELSE failed
  /\ IF sub[t] = "worktree"
       THEN Goto(t, "join") /\ UNCHANGED <<code, tainted, dropped>>
       ELSE /\ Goto(t, "report")
            /\ IF status = "ok"
                 THEN /\ code' = [code EXCEPT ![Home(F(t))] = @ \cup {t}]
                      /\ Taint(Home(F(t)))
                      /\ dropped' \in {dropped, dropped \cup {t}}
                 ELSE UNCHANGED <<code, tainted, dropped>>
  /\ UNCHANGED <<plan, call, wave, view, sub, result, fatal, reports>>

\* What is left when a merge has been given up.
\* Fault: the branch is deleted as after a merge that succeeded.
GivenUp_Deleted == "gone"

GivenUp == "kept"

\* merge_single_sub_worktree: commit, remove the worktree, merge; with
\* conflicts the lock stays held while an agent works in the feature's
\* directory.  A failed task's worktree and branch are removed.
MergeClean(t) ==
  /\ sub' = [sub EXCEPT ![t] = "gone"]
  /\ code' = [code EXCEPT ![Home(F(t))] = @ \cup {t}]
  /\ Goto(t, "report")
  /\ UNCHANGED dropped

MergeConflict(t) ==
  /\ sub' = [sub EXCEPT ![t] = "kept"]
  /\ Goto(t, "resolving")
  /\ UNCHANGED <<code, dropped>>

\* Git refuses the commit, which nobody looks at: the work goes with the
\* worktree, and the branch, with nothing on it, is deleted as merged.
CommitRefused(t) ==
  /\ sub' = [sub EXCEPT ![t] = "gone"]
  /\ dropped' = dropped \cup {t}
  /\ Goto(t, "report")
  /\ UNCHANGED code

DropSub(t) ==
  /\ sub' = [sub EXCEPT ![t] = "gone"]
  /\ Goto(t, "report")
  /\ UNCHANGED <<code, dropped>>

Join(t) ==
  /\ pc[t] = "join"
  /\ GitFree(F(t))
  /\ IF exit[t] = "ok" THEN MergeClean(t) \/ MergeConflict(t) \/ CommitRefused(t)
                       ELSE DropSub(t)
  /\ UNCHANGED <<plan, call, wave, view, tainted, exit, result, failed, fatal,
                 reports>>

\* The conflict resolution ends.  It has succeeded when the agent exits with 0
\* and no file is unmerged, which is so as well when the agent has aborted the
\* merge; it has not when the agent fails, be it after the commit.  Without
\* success the merge is aborted and the branch preserved.  Either way the
\* task stays what it was, a success.
Resolve(t, resolved, merged) ==
  /\ pc[t] = "resolving"
  /\ sub' = [sub EXCEPT ![t] = IF resolved THEN "gone" ELSE GivenUp]
  /\ code' = IF merged THEN [code EXCEPT ![Home(F(t))] = @ \cup {t}] ELSE code
  /\ dropped' = IF resolved /\ ~merged THEN dropped \cup {t} ELSE dropped
  /\ Goto(t, "report")
  /\ UNCHANGED <<plan, call, wave, view, tainted, exit, result, failed, fatal,
                 reports>>

\* on_task_end has returned: the coroutine leaves the gate and ends.
Report(t) ==
  /\ pc[t] = "report"
  /\ result' = [result EXCEPT ![t] = exit[t]]
  /\ reports' = [reports EXCEPT ![t] = @ + 1]
  /\ fatal' = fatal
  /\ Complete(t)
  /\ UNCHANGED <<plan, call, wave, git, exit, failed>>

\* A callback or the runner raises: the gate is left ...
Raise(t) ==
  /\ pc[t] \in {"note", "running", "report"}
  /\ Goto(t, "abort")
  /\ UNCHANGED <<plan, call, wave, git, exit, result, failed, fatal, reports>>

\* ... and worktree and branch of the task are removed, under the lock.
Abort(t) ==
  /\ pc[t] = "abort"
  /\ sub[t] = "none" \/ GitFree(F(t))
  /\ sub' = [sub EXCEPT ![t] = IF @ = "none" THEN "none" ELSE "gone"]
  /\ fatal' = fatal \cup {F(t)}
  /\ Complete(t)
  /\ UNCHANGED <<plan, call, wave, view, code, tainted, dropped, exit, result,
                 failed, reports>>

\* execute_feature returns when all tasks are done, and raises when one has
\* raised and the others have come to an end.
Alive(f) == In(InGate \cup {"launched", "gate", "slot", "note", "abort"}) \cap TasksOf(f)

FeatureEnds(f) ==
  /\ call[f] = "open"
  /\ IF f \in fatal THEN Alive(f) = {} ELSE TasksOf(f) \subseteq Completed
  /\ call' = [call EXCEPT ![f] = IF f \in fatal THEN "raised" ELSE "returned"]
  /\ UNCHANGED <<plan, wave, pc, git, exit, result, failed, fatal, reports>>

\* gather in map_concurrent: it waits for all results, but for one exception.
WaveReturns ==
  /\ wave = "open"
  /\ \A f \in Features : call[f] = "returned"
  /\ wave' = "returned"
  /\ UNCHANGED <<plan, call, pc, git, exit, result, failed, fatal, reports>>

WaveRaises ==
  /\ wave = "open"
  /\ \E f \in Features : call[f] = "raised"
  /\ wave' = "raised"
  /\ UNCHANGED <<plan, call, pc, git, exit, result, failed, fatal, reports>>

Proceed(t) ==
  \/ SkipFailed(t) \/ SkipResumed(t) \/ Noted(t)
  \/ Ask(t) \/ TakeDir(t) \/ TakeSlot(t) \/ Fork(t)
  \/ \E status \in {"ok", "failed"} : AgentEnds(t, status)
  \/ Join(t)
  \/ \E resolved, merged \in BOOLEAN : Resolve(t, resolved, merged)
  \/ Report(t) \/ Abort(t)

Collect == (\E f \in Features : FeatureEnds(f)) \/ WaveReturns \/ WaveRaises

Next ==
  \/ \E f \in Features : StartFeature(f)
  \/ \E t \in Tasks : Proceed(t) \/ Raise(t)
  \/ Collect

\* The event loop runs what is ready; asyncio's locks and semaphore are granted
\* in the order they are asked for, and each task asks once, or twice for
\* git_lock.  That agents, callbacks and git come to an end is an assumption
\* about the environment: the agents are spawned without a timeout.
Fairness ==
  /\ \A f \in Features : WF_vars(StartFeature(f))
  /\ \A t \in Tasks : WF_vars(Proceed(t))
  /\ WF_vars(Collect)

Spec == Init /\ [][Next]_vars
FairSpec == Spec /\ Fairness
-----------------------------------------------------------------------------
\* No two agents work in one directory: not two tasks, and not a task and the
\* agent that resolves the conflicts of a merge.
Cwd(t) == IF pc[t] = "running" /\ sub[t] = "worktree" THEN <<"sub", t>>
                                                    ELSE <<"home", Home(F(t))>>
DirectoryExclusive ==
  \A t, u \in In({"running", "resolving"}) : t # u => Cwd(t) # Cwd(u)

\* The agent of a task finds the work of every dependency in its directory,
\* unless the merge of that dependency was given up and its branch is still
\* there, or the work was dropped: git refused its commit, or the agent that
\* should have resolved its conflicts gave up and reported success.
SeesDependencies ==
  \A t \in In({"running"}) : \A d \in depends[t] :
    d \in view[t] \/ sub[d] = "kept" \/ d \in dropped

\* git_lock: nothing is committed over a merge with conflicts in progress.
CleanMerges == tainted = {}

\* The work of a task that was reported as completed is lost in two ways
\* only, the two that the code does not look for, see dropped.  Otherwise it is
\* in the directory of its feature or on its own branch, also when its merge
\* was given up and whatever raises afterwards.
WorkKept ==
  \A t \in Tasks : reports[t] = 1 /\ result[t] = "ok" =>
    t \in code[Home(F(t))] \/ sub[t] = "kept" \/ t \in dropped

\* The phase comes to an end, whatever fails or raises: directory lock,
\* semaphore and git lock never wait for each other in a circle.
PhaseEnds == <>(wave # "open")
=============================================================================
