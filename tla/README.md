# Verification of wave-server

wave-server takes a *plan* (waves of tasks, written by a coding agent or by a
person), runs one coding agent per task in git worktrees, merges what the
agents commit, and publishes the result as a branch and a pull request. It is
one Python process: a FastAPI application on one asyncio event loop, a SQL
database, git repositories on disk, agent processes and GitHub around it.

This directory holds TLA+ modules of the parts whose order of steps matters,
TLC configurations that check them on small instances, and theorems that TLAPS
proves for every instance. All paths of code below are relative to
`src/wave_server/`; `PROJECT.json` maps every definition to the lines it
models and lists the runs, the hazards with the properties that watch them,
the mutants that show each property to be breakable, and the findings.

Contents: [parts](#1-the-parts-of-the-system),
[interaction](#2-how-the-parts-interact),
[modules](#3-modules-state-and-actions), [runs](#4-runs-and-bounds),
[disagreements](#5-where-the-code-disagrees-with-its-documentation),
[fairness](#6-fairness), [proofs](#7-what-is-proved),
[abstractions](#8-abstractions), [not modelled](#9-not-modelled),
[plan](#10-plan).

## 1. The parts of the system

| Part | Code | State it keeps | Operations | Correct when |
|---|---|---|---|---|
| DAG scheduler | `engine/dag.py` `execute_dag`, `map_concurrent` | per call: `remaining_deps`, `dependents`, `completed_ids`, `failed_ids`, `in_flight`, `tasks_left`, `all_done`, semaphore | launch, run, complete, skip, abort on an exception | tasks follow their dependencies, ready tasks are launched, each task has one result, the call ends with nothing running |
| Plan validation | `engine/dag.py` `validate_plan`, `validate_dag`, `build_dag` | none | check ids, files and cycles; arrange in levels | exactly the executable plans pass; a level is as early as possible |
| Dirty closure | `engine/dag.py` `compute_dirty_closure` | none | tasks to repeat in a rerun | whatever depends on a repeated task is repeated, and nothing else |
| Feature executor | `engine/feature_executor.py` | per feature: `dir_lock`, `git_lock`, sub-worktrees | fork, run, merge back, resolve conflicts, report, skip | one agent per directory, agents see their dependencies' work, nothing reported is lost |
| Wave executor | `engine/wave_executor.py` | per wave: feature worktrees, results | foundation, features, merge, merge task, integration, clean-up | the next phase starts on what the previous one has built |
| Git worktrees | `engine/git_worktree.py` | branches, worktree registrations, directories | create, merge, recover, remove | see feature and wave executor; directories are not shared |
| Execution manager | `engine/execution_manager.py` | `_active_executions`, rows and events of the database, `db_lock` | launch, cancel, `_run_execution`, skip set and recovery | each execution ends in one terminal status that its event agrees with |
| Rate limiting | `engine/rate_limit.py` | `_gate`, `_paused`, `_pause_count`, `_wait_task` | report a limit, wait, sleep through the window, open, cancel | one window at a time, a retry comes after the window it waits for, the status shown is the true one |
| Execution routes | `routes/executions.py` | rows of the database | create, continue, rerun, cancel, promote, read | a cancellation that is answered stays |
| Sequence routes | `routes/sequences.py` | rows of the database | create, read with the status enriched | the sequence shows the execution at work, not the outcome of an older one |
| Quick fix | `routes/quick_fix.py` | a worktree, a branch | one agent, commit, push, pull request, promotion, clean-up | what is answered as delivered is; no worktree is left |
| Pull requests | `engine/github_pr.py` | none | create, approve, merge, promote | success means merged |
| Verify and fix | `engine/verify_fix.py`, `engine/enforcement.py` | attempt counter, the directory of the section | verify, fix, commit, verify again | bounded; a success is about the final state |
| Repository cache | `engine/repo_cache.py` | `_repo_locks`, one clone per repository on disk | clone, fetch, check out, reset | two users of one clone do not disturb each other; an execution starts from what the remote had |
| Agent runners | `engine/runner.py` | one process each | spawn, time out, judge how the agent ended | an agent that did nothing is not a success |
| Plan parser | `engine/plan_parser.py` | place in the document | text to plan, line by line | the tasks, sections and fields are those a person reads |
| Logs, state file, storage | `engine/execution_logger.py`, `engine/log_parser.py`, `engine/state.py`, `storage.py` | files | append, read | |
| Models, projects, application | `models.py`, `schemas.py`, `db.py`, `routes/projects.py`, `main.py`, `config.py`, `auth.py` | tables, settings | single transactions, set-up | |

### What is hard here

* **Interleaving at awaits.** Coroutines switch only at an `await`, so a stretch
  of code between two awaits is atomic, and exactly these stretches are the
  actions of the modules. What is read before an await can be stale after it:
  the `running` status that the cancel endpoint has read, the open gate, the
  failed dependencies that are looked up before a wait for the semaphore.
* **Callbacks one turn later.** A task's done-callback and a woken waiter of a
  lock, an event or a semaphore run in a later turn of the loop. The abort of
  `execute_dag` depends on it.
* **Cancellation** is an exception at the await where a task is suspended. It
  reaches `_run_execution` anywhere, including in its own `except` clauses, and
  it does not reach the coroutines that `execute_dag` has created.
* **Partial failure.** Any git command, GitHub call or agent can fail, and most
  of the code goes on: a merge is given up, a worktree is replaced by the
  directory of the feature, a failed commit is ignored.
* **Crash and restart.** Nothing is repaired at start. What the next execution
  finds is what the last one left: statuses, events, branches, registered
  worktrees without a directory.
* **Names that are shared.** The worktree of an execution is named after its
  work branch, that of a quick fix after the slug of its branch, the branch of
  a feature after wave and feature. Different owners can meet at one name.

`PROJECT.json` "hazards" lists them at their lines: thirty-nine, of
which two have no property; their notes say why.

## 2. How the parts interact

```
 routes/executions --launch--> execution_manager._run_execution  (asyncio task)
        |  \--cancel: status, then Task.cancel()        |
        |                                               | execute_wave, per wave
 routes/sequences  --reads statuses                     v
                                                 wave_executor
                                   foundation: execute_dag (dag.py)
                                   features:   map_concurrent -> execute_feature
                                                     execute_dag, locks, sub-worktrees
                                   merge:      git_worktree, merge agent
                                   integration: execute_dag
        every agent: RateLimitAwareRunner.spawn --pause/resume--> status (db_lock)
 _run_execution    --parse, preflight--> plan_parser, dag.validate_plan
                   --repository URL----> repo_cache.ensure_repo  (one lock per clone)
 routes/quick_fix  --worktree, agent, commit, push--> github_pr.promote_pr
 routes/executions --promote endpoints---------------^
```

* *Calls*: the routes start the background task and return; the background task
  calls the wave executor, which calls the feature executor, which calls the
  scheduler with a `run_task` of its own.
* *Shared state*: one semaphore for the agents of the features of a wave; one
  pauser per execution; one database session per execution behind `db_lock`,
  another one per request; the branches and worktrees of one repository; one
  directory, index and `index.lock` for all tasks of a foundation or integration
  section; one clone for all executions of a repository.
* *Callbacks*: `on_task_start`/`on_task_end` write events, `on_pause`/`on_resume`
  write the status, done-callbacks empty `in_flight`.
* *Messages*: the events of an execution. A continuation takes the tasks to
  skip from the `task_completed` events of the execution it continues.

## 3. Modules, state and actions

An action is the stretch of code from one await to the next, with every state
change made on the way. Names are the source's names where TLA+ allows it.
Operators named like `KeptRef_Never` before an operator `KeptRef` are not part of
a specification: they are plausible bugs, used to show that a property can fail.

**DagScheduler** — one call of `execute_dag`. The variables are the local
variables of the function, and the semaphore as asyncio implements it: `sem` is
its value, `waiters` its queue, a coroutine that has been woken but has not run
yet is `queued` and not in `waiters`. `Complete` is the tail of `_run_one`: it
records the result, counts down the dependents, launches those that are ready
and sets `all_done`. `Skip`, `Acquire`, `Enqueue`, `Wakeup`, `EndRun` are the
ways of a coroutine through `_run_one`, `Discard` the done-callback,
`AllDoneWait` and `Finish` the body after the launch, `CancelCall` a
cancellation of the caller. *TaskOrder* is the abstract specification: what the
caller may rely on, without counters, events or queues. `ImplementsTaskOrder`
states that DagScheduler implements it, with a coroutine's place and result
mapped to the phase of the task.

**FeaturePhase** — the features of one wave, all at once: `map_concurrent` over
`execute_feature`. A task goes from `launched` over the directory lock, if any
(`TakeDir`), the semaphore (`TakeSlot`), the fork of its sub-worktree (`Fork`), the
agent (`AgentEnds`), the merge under `git_lock` (`Join`), the agent that
resolves conflicts (`Resolve`) and the report (`Report`). `view` is what the
agent finds in its directory, `code` what each directory has, `sub` what exists
of a sub-worktree, and `tainted` marks directories in which a commit was made in
the middle of a merge. `dropped` has the tasks whose work the code loses without
noticing it: git refuses the commit, whose result nobody reads
(`CommitRefused`, and the same at the end of an agent in the feature's own
directory), or the agent that should resolve the conflicts aborts the merge and
exits with 0 (`Resolve(t, TRUE, FALSE)`). `Raise` is an exception anywhere on that way, `Abort` the
reaction of the scheduler, and `WaveRaises` that of `map_concurrent`.

**RateLimit** — the calls of `RateLimitAwareRunner.spawn` of one execution, the
pauser they share, the task that sleeps through the window, and the writes they
queue at `db_lock`. `AgentLimited` is the whole of the path after a limited
result: give up, wait for the window of another call, or open one. `OnPause` and
its like are the callbacks that hold the lock. `reported` is the number of the
window that a call has opened or joined last. `CancelRequested` and the
`Execution` actions are the end of the execution around them.

**ExecutionLifecycle** — the executions of one sequence. The endpoints are
`Create`, `Continue`, `Rerun` and the three steps of a cancel request
(`CancelReads`, `CancelInterrupts`, `CancelCommits`). The background task goes
through the stages of `_run_execution`, from `queued` to `over`; `ending` is the
status it is going to write, `handling` that it is in an `except` clause.
`Raise` is an exception of the stage it is in, `Interrupted` the `CancelledError`,
both of which lead to the `except` clause if the stage is `Covered` by the `try`,
and end the task unhandled if not. The agents run in coroutines that neither of
the two stops: `agents` says whose may still be running, and their `on_pause` and
`on_resume` set the status of the object that the variable `execution` names
(`entity`). While nobody else is about to write the status this is one step
(`CallbackInTime`); after a cancellation or in an `except` clause the value is
set (`CallbackSets`) and committed, by the callback (`flushing`,
`CallbackCommits`) or by the clause (`WriteEnd`, `Notify`), and the execution is
`overtaken`. `overlapped` are executions launched while another one's task was
alive. `tree` says whose directory lies at the path
of each work branch. `Crash` ends every task and request and keeps the rest.

**WaveGit** — commits over a chain of executions. A branch is the set of its
commits, a commit is a task in an execution. `Continue` and `Rerun` compute the
skip set, `Recover` merges the branches that an earlier execution has left, or
drops their tasks from the skip set, then the phases of `execute_wave` follow:
`Commit`/`Report`/`Fail` of a task, `Isolate`, `FeaturesEnd`, `MergeBranch`,
`Resolve`, `Verdict`, `Integrated`. The tasks of a feature in `parallel` work on
branches of their own (`OnSub`), which are merged into that of the feature when
they end (`Join`). `Interrupt` ends the execution anywhere and leaves what it
leaves. The recovery matches a branch by the name of
its feature, so it drops nothing for the branch of a task. `GivenUp` is what lies
on the branches of tasks whose merge was given up. `deleted` is a history variable: the tasks
whose commits were on a branch that `cleanup_all` has deleted.

**PlanParser**, **PlanValidation** — a document is a sequence of lines, each of a
kind that the regular expressions of the parser tell apart. `Step` is what the
parser does at a line, `Parse` the whole document. The preflight of an execution
then makes the passes of `validate_plan` over each wave (`CheckWave`, `StartSort`,
`Pop`: Kahn's algorithm with its counters), looks for the required sections and for a
wave (`EndChecks`), and `build_dag` gives levels to
the tasks of features. The files of a feature are those of its tasks and those of the
plan's own line for the feature; required sections are known by their headings
(`Given`). From an accepted plan a rerun selects tasks, and the walk
of `compute_dirty_closure` goes from wave to wave. The definitions at the end of
both modules are the reference they are compared with: what a person reads in
the document, an executable plan, the earliest level, the least closed set.
They mention neither modes nor counters.

**SectionRun** — a foundation or integration section: several
`run_task_with_runner` in one directory. When a task may start comes from
TaskOrder, which DagScheduler is shown to implement. A worker writes, is judged
by its runner (`Ends`, `PiFailure`), and its work is committed by
`commit_task_output` in the steps of git: `Status`, `AddStarts`, `AddEnds`,
`CommitStarts`, `CommitEnds`. A verifier goes round in
`attempt_fix_and_reverify`: `VerificationEnds`, `FixEnds`, commit, verification.
`tree`, `index` and `branch` say how far the work of each agent has got there;
`indexLock` is git's lock, at which a second command is refused without anyone
being told; a commit may also be refused by a hook or for want of an identity.
`refused`, `cutShort` and `fresh` are history variables.

**RepoCache** — calls of `ensure_repo` for one repository. The asyncio lock
belongs to the call, the git command to a process that goes on when its call is
cancelled: `pc` and `proc` are apart. `Enter` decides between clone and fetch,
the `...Ends` actions are the ends of the commands with what the code does next,
`SetUp` is the execution that reads the head of the clone. `Cancel`, `Crash` and
`Push` are the environment. `torn` remembers which kinds of command were
interrupted.

**QuickFix** — requests of the quick-fix endpoint, from the removal of an old
worktree (`Look`, `Clear`) over the creation (`FindBranch`, `AddTree`), the agent,
`Commit`, `PushBranch`, `OpenPr` and `promote_pr` (`GetPr`, `Approve`, `MergePr`,
`CreatePromotion`) to `Cleanup`, with the promote endpoints as further callers
of `promote_pr`, and people who close and merge pull requests (`Person...`).
Every call may fail; of opening a pull request also only the answer may be lost
(`OpenPrUnheard`). The names `QFInit`, `QFNext`, `QFSpec` and `QFTypeOK` keep apart what
RepoCache calls alike, since one module proves about both.

**MC...** modules give the instances their graphs, plans and layouts;
**..._proofs** modules hold the theorems.

## 4. Runs and bounds

| Run | Instance | Distinct question |
|---|---|---|
| `dag_order` | all 64 acyclic graphs on 4 tasks (a task depends on earlier ones), semaphore 2 | order, launch of every ready task, quiescence at the signal, refinement of TaskOrder, end unless a task raises |
| `dag_fatal_hang` | all acyclic graphs on 3 tasks | a violation, see section 5 |
| `feature_phase` | 2 features, 3 + 1 tasks in a join, a fork and a chain; with git, without, and resuming | directories, dependencies' code, undisturbed merges, kept work, end of the phase |
| `rate_limit` | 3 agents, 1 retry, cancellation allowed | one window, a retry after its window, true status, completed is final, calls return |
| `lifecycle` | 2 executions, 1 pause, 1 crash | cancellation sticks, event and status agree, the sequence shows its latest execution, end |
| `lifecycle_shared_tree` | 2 executions, no pause, no crash | a violation, see section 5 |
| `wave_git` | 3 executions; a foundation task, a feature of 2 tasks in a row or in parallel, a feature of 1, an integration task | skipped tasks have code, reported work is reachable, integration sees everything, completed is whole |
| `wave_git_skip` | the same | a violation, see section 5 |
| `plan_validation` | 86,411 documents: graphs of 3 tasks (cyclic ones included), of 4 tasks with one dependency each or in order; plans of 3 entries with 2 ids, of 2 with a file; files of tasks and of features; missing sections; two features of one name; 3 tasks in 2 waves; every continuation of 4 beginnings by 4 lines | parsed as written, accepted iff executable and complete, earliest levels, least closure |
| `section_run` | 2 workers, 1 verifier with 2 fixes, in 3 graphs; resumed or not | reported is committed, a verdict is about the final state, end |
| `repo_cache` | 3 callers, 1 push, 1 crash, any cancellations | fresh start, calls do not disturb each other, calls return |
| `quick_fix` | 2 fixes, 1 promotion, 2 branch names of one slug | delivery, promotion, no worktree left |

What TLAPS proves for every instance is not repeated as a property of a run
unless the run can show more with it: type invariants of DagScheduler,
ExecutionLifecycle, QuickFix, SectionRun and RepoCache, `EndedIsTerminal` and
`CommitsStay` are theorems only.

Why the bounds are enough to meet the interesting cases:

* *Four tasks* give chains, forks, joins, the diamond and a task that is
  independent of a failing chain; *a semaphore of two* lets two agents run and
  others queue, and a queue of two shows its order. One more slot than needed
  would never queue.
* *Two features* compete for the semaphore; the three tasks of the first are
  enough for a join of two sub-worktrees, where merges conflict, and for a fork,
  where a merged dependency has to be seen twice.
* *Three agents* are: one that opens the window, one that waits for it and one
  that is still running and reports a limit after the window. One retry lets an
  agent meet a second window and also run out of retries.
* *Two executions* of ExecutionLifecycle are the one that is cancelled and the
  one that follows while it cleans up. *One crash* can come at every
  state, and *one pause* too, also one that is set before a cancellation and
  committed after it, or resumed by an agent that the cancellation did not stop.
* *Three executions* of WaveGit are the least for a continuation of a
  continuation: the skip set of the second is inherited by the third. A rerun
  names one task (`Requests`); the rerun of the foundation task with the cascade
  is left out of the run, since it repeats the whole plan on the branches that
  are there, as the continuation of an execution that reported nothing does.
  (With it the run has twice as many states and the same result.)
* *Four lines* after each beginning are enough to enter a task, a description or
  a section, leave it and come back; the longer documents are written from plans.
* *Two workers and a verifier* make every race at the index: two commits, a commit
  against the commit of a fix, a worker that writes while another one stages.
  *Two fixes* are the number in the code.
* *Three callers* are one that is cancelled while its command runs on, one that
  meets that command, and one that comes later; with *one push* a fetch has
  something to install.
* *Two fixes* on one path can remove each other's worktree, on the same branch
  or not; the promotion competes with the one a fix makes for itself.

`CHECK_DEADLOCK FALSE` is set in all runs because all these systems stop: a call
returns, a request is answered, the executions reach their bound. Where an end
must be reached, a liveness property says so.

The properties in short; each module states them with the behaviour of the code
they are about:

* `DependenciesFirst`, `ReadyIsLaunched`: the two halves of "launched as soon as
  all dependencies have completed", the first also while a launched task waits
  for its slot and others fail. `QuiescentWhenSignalled`: what the caller finds
  when it goes on.
* `DirectoryExclusive`, `SeesDependencies`, `CleanMerges`, `WorkKept`: what the
  locks of a feature are for; `WorkKept` and `SeesDependencies` name the two ways in
  which work is lost all the same (`dropped`).
* `OneWindow`, `RetriesAreSpaced`, `StatusFollowsPauser`, `CompletedIsFinal`: what
  the gate, the flag and `db_lock` are for.
* `CancelSticks`, `VerdictAgrees`, `ShownIsCurrent`: what the clients rely on, as
  far as the agents that run on let it hold.
* `SkipHasCodeUnlessDeleted`, `ReportedIsReachable`, `IntegrationSeesAll`,
  `CompletedIsWhole`: no code is lost between executions, except what section 5
  describes (`deleted`, `GivenUp`); what is not in the work branch is still on a branch that is named
  in the property.
* `ParsedAsWritten`, `AcceptedIffExecutable`, `LevelsAreEarliest`,
  `ClosureIsLeast`: the passes over a plan against what they are meant to
  compute.
* `ReportedIsCommitted`, `VerifiedIsFinal`: a directory without a lock still
  commits what is reported, except when git refuses; a fix is not trusted.
* `StartsFresh`, `NoRaces`: what `_repo_locks` is for, and how far it reaches.
* `UndisturbedIsDelivered`, `PromotedIsOnTarget`, `NoTreeLeft`.
* `EndsUnlessFatal`, `PhaseEnds`, `SpawnsReturn`, `EndsEventually`,
  `SectionEnds`, `CallsEnd`: everything that is called comes back.

Each property of a passing run has a mutant of a mapped definition, a dropped
guard, an off-by-one, a wrong order, under which TLC finds it violated.

## 5. Where the code disagrees with its documentation

Three runs end in a counterexample that a reader can replay in the code. Quotes
are in `PROJECT.json` "findings".

1. **`dag_fatal_hang`** (`engine/dag.py:323`). After an exception `all_done` is
   set by the coroutine that finds at most itself in `in_flight`. Two coroutines
   that end in the same turn of the loop both find two, because the
   done-callbacks come a turn later; the call waits for ever.
2. **`lifecycle_shared_tree`** (`engine/git_worktree.py:765`). A cancelled
   execution can be continued before its task has cleaned up; both use the path
   of one work branch, and the clean-up of the first removes the directory the
   second works in.
3. **`wave_git_skip`** (`engine/wave_executor.py:397`). `merge_feature_branches`
   keeps the branch of a failed feature for the continuation, `cleanup_all`
   deletes it a few lines later; the continuation skips the feature's completed
   tasks although their code is gone.

The passing runs are stated so that they say what does hold beside these:
`EndsUnlessFatal` excepts calls with an exception, the properties of WaveGit
except `deleted` code. None of the three is assumed away in the model itself.

Further observations. Those marked (TLC) are counterexamples that one finds by
the change that is named; the passing runs exclude them by a constant or by a
condition of the property, which says so.

* A dependency listed twice (`Depends: a, a`) passes parser and validation, is
  counted twice in `remaining_deps` and once in `dependents`; the task never
  becomes ready and the call waits for ever (TLC, with such a list in the graphs
  of `dag_order`).
* A task without its sub-worktree runs in the directory of its feature, where
  "the semaphore prevents concurrent access" (`engine/feature_executor.py:197`);
  it admits `max_concurrency` tasks, and there is no lock (TLC,
  `MayFallBack = TRUE` in `feature_phase`: `DirectoryExclusive` and `CleanMerges`
  are violated).
* The recovery drops the tasks of a branch that conflicts from the skip set, so
  that they "re-run from scratch" (`engine/execution_manager.py:649`), when it finds a feature
  called like the branch. For the branch of a task that `merge_single_sub_worktree`
  has preserved there is none: the task stays in the skip set, and its code is on
  its branch only (TLC: `SkipHasCodeUnlessDeleted`, `IntegrationSeesAll` and
  `CompletedIsWhole` are violated without `GivenUp`).
* `_try_resolve_conflicts` "Returns True if conflicts were resolved and
  committed" (`engine/git_worktree.py:80`), but it looks at the exit code of the
  agent and for unmerged files only: an agent that aborts the merge and exits
  with 0 counts as a success, and the branch is deleted with the work (line 676).
  `merge_single_sub_worktree` does not look at the result of
  `commit_task_output` (line 630): when git refuses the commit, the worktree is
  removed with the work, the branch has no diff, and the task is reported as
  completed (TLC: `WorkKept` and `SeesDependencies` are violated without
  `dropped`).
* An agent that is still running after a cancellation can meet a rate limit or
  see its end: the callback sets the status to paused or running again, also
  while the `except` clause of a failure is at work. An execution left `running`
  in this way can be cancelled anew; one left `paused` can be neither cancelled
  nor continued nor rerun (`routes/executions.py:324`, `343`, `378`), and an
  execution that is paused cannot be cancelled at all (TLC: `CancelSticks`,
  `VerdictAgrees` and `EndsEventually` are violated without `overtaken`).
* Continuing an execution that is not the latest resets the work branch to a
  SHA without the code that a later one has merged (TLC, `OlderToo = TRUE` in
  `wave_git`).
* Cancelling opens the gate of the pauser, and the coroutines of the tasks are
  not cancelled: an agent can also start after the cancellation.
* Parallel tasks of a foundation or integration section meet at git's
  `index.lock`. A refused `git add` or `git commit` is not noticed and the task is
  reported as completed with its work uncommitted, until another task's
  `git add -A` takes it along (`refused` in `ReportedIsCommitted`). The same holds
  for a commit that a hook refuses, or that git refuses for want of an identity
  (`engine/git_worktree.py:437`). Likewise an
  agent that pi reports an error for after some output counts as a success
  (`cutShort`).
* Two verifiers of one section run beside each other: the fix of one may change
  what the other has passed. `VerifiedIsFinal` is about a verifier and the tasks
  it depends on.
* A verifier that prints no verdict has passed; a `status` that is no string
  raises `AttributeError` (`engine/enforcement.py:99`), which ends the section by
  finding 1 or by an exception.
* The tasks of a plan have no timeout: `timeout_ms` is stored
  (`routes/executions.py:273`) but not given to `RunnerConfig`
  (`engine/wave_executor.py:132`).
* A crash during checkout or reset leaves `index.lock`, after which executions
  start from an old commit; one during a clone leaves a `.git` without
  references, after which every set-up fails; a fetch that goes on after its
  call was cancelled makes the next fetch fail. `torn` in `StartsFresh` and
  `NoRaces` excepts these.
* The work branch forks from HEAD of the clone when no SHA is given, not from
  the `source_branch` of the request as the comment at
  `engine/execution_manager.py:473` has it.
* The parser drops the fields of a task after a blank line, does not know the
  form `**Depends:**`, and takes a heading right after `## Goal` for the goal; the
  example in `skills/wave-server/SKILL.md:221` is rejected by the validation.
  `WellWritten` names the conditions.
* Two features of a wave with one name pass validation even if their tasks have
  the same ids (`engine/dag.py:89`), and share one worktree
  (`engine/wave_executor.py:270`); `docs/architecture.md:114` promises
  "duplicate ID detection". That what is
  accepted is executable is stated for different names; that only what is not is
  rejected holds for all.
* The commit of a quick fix may fail without a trace: the worktree is removed
  with the change and the request answers with success. `UndisturbedIsDelivered`
  excepts it (`unsaved`).
* For a remote URL `quick_fix` calls `ensure_repo` with arguments that are not
  those of its signature, so such a request is answered with a failure;
  QuickFix models a repository at a local path.
* An execution that is `running` when the server stops stays so. It can be
  cancelled, after which it can be continued.

## 6. Fairness

Weak fairness, and only where the code or its environment justifies it:

* The event loop runs every callback that is ready. Hence each coroutine's step
  that stays enabled is taken: `TaskStep(t)`, `Proceed(t)`, `Call(a)`,
  `CallStep(c)`, `Scheduler`. ExecutionLifecycle asks less: as long as some
  background task can go on, one of them does, and as long as some request is to
  be answered or some callback to be made or committed, one of them is
  (`Fairness`). As every execution makes a bounded number of steps this is enough.
* Windows of rate limits pass (`Resuming`), agents end, and so do git commands and
  the callbacks. For agents this is an
  assumption about the environment: the tasks of a plan are spawned without a
  timeout (section 5), and one that hangs holds its slot for ever. How an agent
  ends is free.
* asyncio locks and semaphores are first-in first-out. DagScheduler and RateLimit
  have the queues themselves; in FeaturePhase and RepoCache a lock is granted in
  any order, and as every task or call asks for it a bounded number of times
  weak fairness of each one's steps is implied by the queue.
* In SectionRun `TaskStep` does not contain `Write`: an agent need not write.
* No fairness for anything a user, a person at GitHub or a fault does: cancel,
  create, continue, push, crash, raise.

WaveGit, PlanValidation and QuickFix are checked for safety only and state no
fairness. `lifecycle_shared_tree` and `wave_git_skip` are safety
counterexamples. `dag_fatal_hang` is a temporal one, found under `FairSpec`: the
call does not end although everything that is ready runs.

## 7. What is proved

All proofs are checked by tlapm with Z3, Zenon and LS4. Each proof module has
an inductive invariant (`IndInv`; `BaseInv` in WaveGit, `QFInv` for QuickFix), the
lemmas `Init => IndInv` and `IndInv /\ [Next]_vars => IndInv'`, and theorems that follow from them. Some
have a second one on top of it, for a theorem that needs a hypothesis or a part
that the others do without; it is named below. TLC evaluates the assumptions on
the constants in every run of the module; given the inductive invariants as
INVARIANTs of the passing run of each module (section 4), it finds that all of
them hold there.

**DagScheduler_proofs** — for every finite set of tasks, all dependency lists
(repeated entries and cycles included), every semaphore value of at least one.

| Theorem | States |
|---|---|
| `TypeCorrect` | `[]TypeOK`, with the bounds of the semaphore |
| `DependencyOrder` | `[]DependenciesFirst` |
| `SignalledQuiescent` | `[]QuiescentWhenSignalled` |
| `ReadyTasksLaunch` | `NoRepeats => []ReadyIsLaunched` |
| `ImplementsOrder` | `ImplementsTaskOrder`: the scheduler refines TaskOrder |

None of the first three is inductive. The code launches a task when a *counter*
reaches zero, and signals when *counts* are small. `Counting` relates them to the
sets: `remaining[t]` is at least the number of dependencies of `t` that are not
completed, so zero means that all are; every live coroutine is in `in_flight`, so
a count of one means that no other lives. `SlotsCounted` says that the value
of the semaphore and the coroutines that hold a slot, those woken but not yet
running included, add up to its initial value. `Results` carries the outcome of
dependencies over the wait for the semaphore: a failed dependency cannot appear
after the check, since all dependencies have completed by then. The proof is by
one step per action; the ends of a coroutine share lemmas about the tail
`Complete`. Note that the invariant is *at least*, not equality: with a
repeated dependency the counter stays too high (section 5), and these three
theorems hold nevertheless.

For `ReadyTasksLaunch` no dependency may be listed twice (`NoRepeats`), and
`Exact` is `Counting` with equality, as long as no exception is pending: only then
does the counter reach zero for every task whose dependencies have completed.

`ImplementsOrder` goes through all actions. Most are stutters of TaskOrder: the
queue of ready coroutines, the semaphore and the done-callbacks are invisible
there. `Recorded` says what the refinement mapping has to know: a task that was
launched has the results of its dependencies, since whoever ends without one
leaves an exception, which stops all launches; and when the call collects
results, all tasks are over or one has raised.

**ExecutionLifecycle_proofs** — for any number of executions, crashes
and rate limits.

| Theorem | States |
|---|---|
| `TypeCorrect` | `[]TypeOK` |
| `EndsAreTerminal` | `[]EndedIsTerminal` |
| `EventsAgree` | `[]VerdictAgrees` |
| `CancellationIsFinal` | `CancelSticks`, an action property |
| `LatestIsShown` | `[]ShownIsCurrent` |

`Stopped` is what makes a cancellation final: from the moment the cancel request
has looked for the background task, that task has ended, or its next step is the
`CancelledError`, or it is in the `except` clause that writes "cancelled" again.
`Requests` keeps that for requests in flight and answered ones. What can still be
written after the answer comes from an agent: `overtaken` is set in the step that
sets the value, and `Written` follows it from the object to the database, so that
the status is cancelled, or else paused or running and the execution overtaken,
and never completed or failed. For the others it relates the stage of the task to
what it has already written. `LatestIsShown` is about two tables: the status of the
sequence is written by every execution, and only a terminal one hides that of the
latest execution. The execution that begins writes "running" only if it found
something else. `InOrder` says that ids are given out in order, so there is a latest
execution; `Undisturbed`, that one which was launched while no task was alive is
the only one as long as it is the latest, so what it found or wrote is still
there when its waves are at work.

**RateLimit_proofs** — for any calls and any number of retries.

| Theorem | States |
|---|---|
| `TypeCorrect` | `[]TypeOK`, with the bound on the agent processes of a call |
| `PausesHaveOneOwner` | `[]OneWindow` |
| `RetriesAwaitTheirWindow` | `[]RetriesAreSpaced` |
| `StatusAgrees` | `[]StatusFollowsPauser` |
| `CompletionIsFinal` | `[]CompletedIsFinal` |

A pause has an owner that moves: the call that announces it, then its `on_pause`
in the queue of `db_lock`, then the background task that sleeps through the
window. `OneOwner` says that there is never a second one, `Owned` that there is
one as long as nobody was cancelled and no `on_pause` has failed, `Entries` ties
each entry of the queue to whoever waits for it. What the status shows depends on
the order of that queue (`Ordered`): an `on_pause` is queued behind the
`on_resume` of the window before, because the gate opens in the same step that
queues the `on_resume`. `StatusSettled` is then what remains when the queue holds
neither. `RetriesAreSpaced` needs to know where a call can be between its report and its
retry, while other calls open and end windows. `Spaced`: the window of its last
report is over, or the call is inside `pause()`, announcing it or asleep at the
gate, or was raised out of it. It leaves the gate when it has been woken, which is
when the window ended (`GateKept`), also if the next one has begun since.
That the execution does not complete under a queued `on_resume` rests
on the call that announced the pause (`PauserAwaits`): it sleeps until the window
is over, and what it writes after that comes behind the `on_resume`
(`BehindResume`).

**FeaturePhase_proofs** — for any tasks, features, dependency graphs, layouts
and values of the semaphore.

| Theorem | States |
|---|---|
| `TypeCorrect` | `[]TypeOK`, with the bound on the tasks that hold a slot |
| `DependenciesAreSeen` | `[]SeesDependencies` |
| `NoWorkIsLost` | `[]WorkKept` |
| `MergesAreClean` | `~MayFallBack => []CleanMerges` |
| `AgentsWorkApart` | `~MayFallBack /\ ApartLayouts => []DirectoryExclusive` |

`Ends` and `Supplied` carry work from task to task: whoever reports a success has
`Landed`, in the directory of its feature or on a branch that was preserved, and
stays there, or has had it `dropped`; a task that runs has only dependencies that succeeded, whose work
was in the directory when it looked. `Locks` is what `dir_lock` and `git_lock`
keep apart within a feature, `SubsApart` that a feature that uses sub-worktrees
does not need the first. Across features `OwnHomes` separates the directories of
merges, and without git, where all share one, `Turns` says that features run one
by one. Neither hypothesis can be dropped: without `~MayFallBack` (section 5) a task
whose sub-worktree cannot be created works in the feature's directory next to
others, and two features whose worktrees could both not be created share the
directory of the execution (`ApartLayouts` excludes that).

**WaveGit_proofs** — for any plan with one wave, any number of executions and any
requests.

| Theorem | States |
|---|---|
| `TypeCorrect` | `[]TypeOK` |
| `SkippedHasCode` | `~OlderToo => []SkipHasCodeUnlessDeleted` |
| `ReportedStaysReachable` | `~OlderToo => []ReportedIsReachable` |
| `IntegrationSeesItAll` | `[]IntegrationSeesAll` |
| `CompletionIsWhole` | `~OlderToo => []CompletedIsWhole` |

The invariant has three layers. `BaseInv` says what is at hand in each phase: which
branches are there, how far the tasks are and what has been recorded. On top of
it `Placed` follows the output of a task of this execution from its own branch to
its feature's and to the work branch; `Unmerged` tells up to which step it may be
on the second, so that none is left when integration begins. These two hold for
all constants. `CodeInv`, about the code of earlier executions, holds if only the
latest is continued or rerun. With `OlderToo` the three properties that rest on it
are false (TLC; section 5).

In `CodeInv`, `Skipped` says that the code of a task that is skipped is on the work
branch, or on a feature's branch that the recovery has not got to (`KeptRefs`), or on the
branch of a task that this execution has not taken over (`KeptSubs`). It is preserved by a recovery that
conflicts because of `Own`: a branch has nothing of another feature that is not
merged, so dropping the tasks of its own feature from the skip set drops all that
is missing. `Latest` says that the SHA a continuation resets the work branch to is
where the branch ends. `CompletedIsWhole` then is inductive next to `CodeInv`,
established in the one step that writes "completed". The proof assumes of the plan
that no task has the id of the merge task (`w1-merge`, `wave_executor.py:340`),
and that features and tasks have different names.

**Repository_proofs, QuickFix** — for any sets of requests, promotions and branch names.

| Theorem | States |
|---|---|
| `QuickFixTypes` | `[]QFTypeOK`, in which main has nothing that the target lacks |
| `AnswersDeliver` | `[]UndisturbedIsDelivered` |
| `PromotionMeansMerged` | `[]PromotedIsOnTarget` |
| `TreesAreRemoved` | `[]NoTreeLeft` |
| `NothingIsUndone` | `CommitsStay`, an action property |

`Fixing` follows a change from the agent to the push: as long as nobody else has
removed the worktree it is on the request's branch, and the change is in the
worktree or on the branch. `Merging` follows the pull request: what was
delivered stays on the remote branch, and a merge takes what the branch has at
that moment. `TreeIsHeld` says that a worktree has a request that will remove
it, `PushedIsLocal` that GitHub never knows more of a branch than the
repository, without which a push could lose a commit.

**SectionRun_proofs** — for any tasks, dependency graphs, verifiers, skip sets and
numbers of attempts.

| Theorem | States |
|---|---|
| `TypeCorrect` | `[]TypeOK`, with the bound on the attempts |
| `VerdictsAreCurrent` | `[]VerifiedIsFinal` |
| `ReportsAreCommitted` | `[]ReportedIsCommitted` |
| `AgentsBuildOnCommitted` | `[]BuildsOnCommitted`: while a task runs, the work of its dependencies is finished and committed, with the same exceptions |

`VerifiedIsFinal` speaks of the moment of the report; `Verified` says it from the
verdict on: a verifier that is past a passing run, in its commit or at its
report, has passed and is `fresh`. For that to stay so, no task it depends on may
write any more, which needs `Started` (what has begun has its dependencies
behind it, as TaskOrder promises) and `Placed` (where a task is in
`run_task_with_runner` agrees with its phase, so one that is done does not write).

`ReportedIsCommitted` needs `WorkInv`. `Staged`: from its `git add` on, the part
of the index that belongs to a task is what the directory has, and when it is at
rest the branch is too; other tasks stage and commit all the time, but only to
bring index and branch up to the directory. It holds for tasks that `git` has not
refused, be it at `index.lock` or in the commit itself, whence the exception in
the property. `Finished`: a task that is between
agents has left nothing half done unless it was cut short, and `Ahead`: the fix
agents that are still to come have written nothing, so a new attempt keeps
`Finished`.

**Repository_proofs, RepoCache** — for any callers, pushes and crashes.

| Theorem | States |
|---|---|
| `CacheTypes` | `[]TypeOK` |
| `CallsDoNotRace` | `[]NoRaces` |
| `StartsAreFresh` | `[]StartsFresh` |

For `NoRaces` all parts of the invariant are about runs in which nothing was
interrupted (`torn = {}`): `Serial` says that whoever has a command running has the lock, so
there is one at most; `Commands`, that nobody changes what it has read before it
ends; `Whole`, that a `.git` without a running clone has its references; `Handed`,
that a path that was handed out is one of a whole clone.

`StartsFresh` allows for fetches that were interrupted and may run on
(`FreshInv` with `OnlyFetchesTorn`). Then `Orphans`: what is left of a cancelled call is a fetch;
`Locks`: so whoever checks out or resets has `index.lock`, and that the exit codes
are ignored does no harm; `Fetches` and `Tracked`: a fetch installs nothing older
than what it replaces, and the local branch never is ahead of it, so a reset
moves it forward to what was asked for (`Served`).

**PlanValidation_proofs** — for any set of documents of any length, with any ids,
files and graphs, malformed ones included.

| Theorem | States |
|---|---|
| `TypeCorrect` | `[]TypeOK`; no id is popped twice |
| `ParsingIsRight` | `[]ParsedAsWritten` |
| `VerdictIsRight` | `[]AcceptedIffExecutable` |
| `LevelsAreRight` | `[]LevelsAreEarliest` |
| `ClosureIsRight` | `[]ClosureIsLeast` |

`DocumentsAssumption` says what a line can carry: a task line an id, a line of
dependencies finitely many ids; and that `MaxWaves` bounds the waves of the
documents. It excludes no document: the ids can be chosen to fit, and so can the
bound for any finite number of documents. The properties keep the conditions they have in the run: a document
that is written as the format wants, features of a wave with different names
for an acceptance, ids that are not repeated across waves for the closure.

The parser and the loops are recursions over data, and the theorems of the library
for induction take an operator as a parameter, which the provers do not
instantiate. Instead, a set of numbers is shown to have a least element (`Least`:
the intervals up to its elements are ordered by inclusion, which is well-founded
on finite sets), and what a step passes on holds everywhere because there is no
least exception (`Induction`). `RunExists` solves the recursion of `Parse` for
any number of lines in this way.

* *Reading a document.* `Read` is the place of the parser after n lines, in terms
  of what a person has read by then. The record alone says too little: that a
  field still reaches its task rests on `ModeRead`, which keeps apart the last
  heading, the last line that `Compact` allows a field to follow, and the
  mode. `GoalNext` shows that `goal_next_line` swallows no heading of a document
  that gives its goal. A feature gets the number that the parser counts because
  all features before it have got smaller ones (`FeatureAdded`), same names included.
* *Kahn's algorithm.* `Sorting` has two parts. The degree of an entry whose id is
  its own counts its dependencies that are not popped. With different ids, a set of
  entries of which each waits for another keeps its degrees positive, so a count
  that is complete shows that there is none, and `Verdict` takes the sections
  together. If two entries of a section have one id, a degree may be anything,
  but the ids that can be popped are fewer than the entries, so the sort ends
  with a cycle reported (`SortedIsSound`): the duplicate check leaves these to the
  count. `CycleIsError` is the converse: what is not sorted waits for itself.
* *The verdict.* Each error has a defect behind it. `ElsewhereIsError` has the hard
  case: the ids of a section are those of the *last* feature of its name, so a
  dependency inside an earlier one may be reported as one on another section; then
  two tasks have its id. `SharedIsError` turns files of features, from their tasks
  or their own line, into the overlap that `Apart` excludes, and `Lacking` the
  missing sections into an error of the whole plan.
* *Levels.* `Placing` keeps, for each entry with a level, that it is right above
  one of its dependencies, and for each entry without that something was missing
  in the round before. A round that places nothing would leave a set that waits
  for itself (`AllPlaced`), which an accepted plan has not.
* *Closure.* `Walked` says that waves behind the walk are closed, that in the wave
  of the walk what is dirty and not queued has passed its dirt on, and that every
  closed set with the selected tasks contains what is dirty. The three sections of
  a wave are compared by rank in the property and by name in the code (`Ranks`).

**Only model-checked.** Liveness (`EndsUnlessFatal`, `PhaseEnds`,
`SpawnsReturn`, `EndsEventually`, `SectionEnds`, `CallsEnd`) and everything about
ENABLED are outside what the installed provers do. All invariants and all other
action properties of the passing runs are theorems. Where a theorem has a
hypothesis, TLC has a counterexample without it: a task that cannot get its
sub-worktree (`MayFallBack`), two features without a worktree in one directory
(`ApartLayouts`), a continuation of an older execution (`OlderToo`), a dependency
listed twice (`NoRepeats`).

## 8. Abstractions

* *DagScheduler*: what `run_task` does is a choice of outcome. A dependency that
  is no task of the call does not occur (validation rejects it).
* *FeaturePhase*: counters are the sets they count, since DagScheduler shows them
  to agree when no dependency is repeated; the late done-callbacks and the hang
  they cause are left to DagScheduler. A commit is the work of a task. The
  verify-and-fix loop is part of how an agent ends (SectionRun has it in full). The
  agent that resolves a conflict may have merged or not, and be taken for
  successful or not; the four combinations are possible.
* *RateLimit*: the patterns that recognise a limit are a choice of the agent. The
  length of a window is not modelled, only that it passes.
* *ExecutionLifecycle*: the project is a git repository. The waves are one stage.
  Of pausing it has the two callbacks, at any moment an agent may be running;
  when they come is RateLimit's, and the first resume comes after a pause. One cancel request per execution is in flight at a
  time. SQLAlchemy writes only attributes that have changed: an execution that
  finds the sequence "running" writes nothing when it sets it to that
  (`sawRunning`).
* *WaveGit*: commits succeed, and an agent that resolves a conflict with exit 0 has
  resolved it when a sub-branch is merged (FeaturePhase has both the other way).
  The names of features are names of branches for git; one that git refuses gives
  no worktree, and its feature runs in the directory of the execution. One wave, one sequence, one execution at a time; the tasks of a
  feature are in a row or all parallel; reruns name one task with or without the
  cascade. Only the latest execution is continued or rerun (`OlderToo = FALSE`),
  and executions before it are forgotten (`Past`). A merge can conflict if both
  sides have got commits that the other has not. The branch of a task is made
  and committed to in one step, except that an interruption may leave it empty:
  in between nothing reads it.
* *PlanParser*: a line has one kind, the one whose expression comes first. Of the
  fields of a task only dependencies and files are kept, of a feature its files, of
  the required sections that their headings are there. A dependency is listed
  once.
* *SectionRun*: the runner is `pi`, the directory that of an execution (with a
  `repo_root`). A section is not cancelled in the middle (ExecutionLifecycle). The
  lock that `git status` takes when it can is ignored. What an agent writes
  is told apart by agent and attempt.
* *RepoCache*: one repository, whose default branch is the one that matters; git
  before 2.48, which does not set `origin/HEAD` in a fetch.
* *QuickFix*: one repository at a local path, one slug for all branch names (other
  paths meet only at GitHub), one pull request per request at most. Without git
  the request has no state and is left out.

## 9. Not modelled

Of agent runners only how the end of a process is judged is modelled; that they
start one and collect its output is pure I/O. The logs, the storage, the models
and schemas, the project routes, the dashboard and the prompts have no order of
steps that could go wrong: single transactions and conversions. The state file
(`engine/state.py`) is written and never read by `_run_execution`. The reasons
are in `PROJECT.json` "components", one by one.

Two hazards have no property. The coroutines that go on after a cancellation
(`engine/rate_limit.py:184`) would need RateLimit and ExecutionLifecycle in one
state space. Branches that are not scoped by sequence
(`engine/git_worktree.py:201`) need a second sequence in WaveGit.

## 10. Plan

In place: DagScheduler and TaskOrder, RateLimit, FeaturePhase,
ExecutionLifecycle, WaveGit with the branches of tasks, PlanParser and
PlanValidation with the closure, QuickFix, SectionRun, RepoCache. What would add
most next:

1. WaveGit with a second wave and a second sequence in one repository.
2. The push and pull request at the end of an execution, composed with QuickFix's
   `promote_pr`.
3. RateLimit within ExecutionLifecycle in full: of what agents do after a
   cancellation only their callbacks are there, not the spawns.

The theorem that would come with them: that `SkippedHasCode` survives a second
wave. SectionRun takes
`Begin`, `Skip` and `Return` from TaskOrder by definition, so that it follows the
scheduler's promise needs no proof.
