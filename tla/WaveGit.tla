------------------------------ MODULE WaveGit ------------------------------
(***************************************************************************)
(* What happens to the code that the agents of one sequence commit, over   *)
(* executions that continue or rerun one another:                          *)
(*   wave_server/engine/wave_executor.py, execute_wave,                    *)
(*   wave_server/engine/git_worktree.py, feature worktrees and branches,   *)
(*   wave_server/engine/execution_manager.py, the skip set and recovery.   *)
(*                                                                         *)
(* A branch is the set of the commits that are its ancestors; merging is   *)
(* union.  One commit stands for the output of one task in one execution.  *)
(* The plan has one wave.  A feature is a chain, or its tasks depend on    *)
(* none and each works on a branch of its own, which is merged into that   *)
(* of the feature.  One execution runs at a time (ExecutionLifecycle says  *)
(* what happens otherwise).                                                *)
(***************************************************************************)
EXTENDS Naturals, Sequences

CONSTANTS
  Foundation,     \* the tasks of the foundation section
  Features,       \* the features
  Chain,          \* the tasks of each feature, in order
  Listed,         \* features and their tasks in the order of their branches
  Integration,    \* the tasks of the integration section
  MaxExecutions,  \* bound on the executions of the sequence
  Requests,       \* bound on reruns: the tasks asked for, cascading or not
  OlderToo        \* also executions before the latest are continued

TasksOf(f) == {Chain[f][i] : i \in 1 .. Len(Chain[f])}
FeatureTasks == UNION {TasksOf(f) : f \in Features}
Tasks == Foundation \cup FeatureTasks \cup Integration
Merge == "merge"                       \* the task of the merge agent, w1-merge

ASSUME LayoutAssumption ==
  /\ Chain \in [Features -> Seq(FeatureTasks)]
  /\ \A f, g \in Features : f # g => TasksOf(f) \cap TasksOf(g) = {}
  /\ Foundation \cap FeatureTasks = {} /\ Foundation \cap Integration = {}
  /\ Integration \cap FeatureTasks = {}
  /\ Features \cap FeatureTasks = {} /\ Merge \notin Tasks
  /\ Listed \in Seq(Features \cup FeatureTasks)
  /\ \A x \in Features \cup FeatureTasks : \E i \in DOMAIN Listed : Listed[i] = x
  /\ Requests \subseteq Tasks \X BOOLEAN
  /\ MaxExecutions \in Nat \ {0} /\ OlderToo \in BOOLEAN

Executions == 1 .. MaxExecutions
Commits == Tasks \X Executions
Gone == {<<"gone", 0>>}                \* for a branch or SHA that is not there

VARIABLES
  parallel,    \* the features whose tasks depend on none; fixed by the plan
  status,      \* of each execution
  now,         \* the execution under way, or the last one; 0 at first
  phase,       \* what it is doing
  todo,        \* what is left to recover, isolate or merge in this phase
  isolated,    \* features that got a worktree in this execution
  outcome,     \* of each task in this execution
  conflicting, \* passed features whose branch did not merge
  skip,        \* skip_task_ids
  done,        \* per execution, the tasks with a task_completed event
  tip,         \* the work branch
  shaAfter,    \* Execution.git_sha_after
  ref,         \* the branch wave-N/<feature> of each feature
  sub,         \* the branch wave-N/<feature>--<task> of each task
  registered,  \* the worktrees git knows of; "stale" if the directory is gone
  deleted      \* tasks whose commits were on a branch that cleanup deleted

run == <<parallel, status, now, phase, todo>>
wave == <<isolated, outcome, conflicting, skip>>
repo == <<tip, ref, sub, registered, deleted>>
record == <<done, shaAfter>>
vars == <<run, wave, record, repo>>

Phases == {"idle", "recover", "foundation", "isolate", "features", "merge",
           "resolve", "verdict", "integration"}

TypeOK ==
  /\ parallel \subseteq Features
  /\ status \in [Executions -> {"none", "running", "completed", "failed",
                                "cancelled", "past"}]
  /\ now \in 0 .. MaxExecutions
  /\ phase \in Phases /\ (phase # "idle" => status[now] = "running")
  /\ todo \subseteq Features \cup FeatureTasks
  /\ isolated \subseteq Features
  /\ outcome \in [Tasks -> {"todo", "committed", "ok", "failed"}]
  /\ conflicting \subseteq isolated
  /\ skip \subseteq Tasks \cup {Merge}
  /\ done \in [Executions -> SUBSET (Tasks \cup {Merge})]
  /\ tip \subseteq Commits
  /\ \A e \in Executions : shaAfter[e] = Gone \/ shaAfter[e] \subseteq Commits
  /\ \A f \in Features : ref[f] = Gone \/ ref[f] \subseteq Commits
  /\ \A t \in FeatureTasks : sub[t] = Gone \/ sub[t] \subseteq Commits
  /\ registered \in [Features -> {"no", "live", "stale"}]
  /\ deleted \subseteq Tasks

Init ==
  /\ parallel \in SUBSET {f \in Features : Len(Chain[f]) > 1}
  /\ status = [e \in Executions |-> "none"]
  /\ now = 0 /\ phase = "idle" /\ todo = {}
  /\ isolated = {} /\ conflicting = {} /\ skip = {}
  /\ outcome = [t \in Tasks |-> "todo"]
  /\ done = [e \in Executions |-> {}]
  /\ shaAfter = [e \in Executions |-> Gone]
  /\ tip = {}
  /\ ref = [f \in Features |-> Gone]
  /\ sub = [t \in FeatureTasks |-> Gone]
  /\ registered = [f \in Features |-> "no"]
  /\ deleted = {}
-----------------------------------------------------------------------------
TasksIn(commits) == {c[1] : c \in commits}
Refs == {f \in Features : ref[f] # Gone}
Subs == {t \in FeatureTasks : sub[t] # Gone}

\* Whose turn it is, of those that are left.
First(x) ==
  /\ x \in todo
  /\ \E i \in DOMAIN Listed :
       Listed[i] = x /\ \A j \in 1 .. i - 1 : Listed[j] \notin todo

FeatureOf == [t \in FeatureTasks |-> CHOOSE f \in Features : t \in TasksOf(f)]

Preceding ==
  [t \in FeatureTasks |->
     LET c == Chain[FeatureOf[t]]
     IN {c[i] : i \in {i \in 1 .. Len(c) : \E j \in i + 1 .. Len(c) : c[j] = t}}]

\* The tasks that a task depends on, its section's order aside.
Before(t) ==
  IF t \in FeatureTasks /\ FeatureOf[t] \notin parallel THEN Preceding[t] ELSE {}

\* compute_dirty_closure, for one wave.
Downstream(R) == R \cup {t \in FeatureTasks : Before(t) \cap R # {}}

Dirty(R, cascade) ==
  IF ~cascade THEN R
  ELSE Downstream(R)
         \cup (IF R \cap Foundation # {} THEN FeatureTasks ELSE {})
         \cup (IF R \cap (Foundation \cup FeatureTasks) # {} THEN Integration ELSE {})

\* The tasks that the events of an execution report as completed.
Completed(p) == done[p]

\* An execution that cannot be continued any more is forgotten.
Past(e) == IF OlderToo THEN {} ELSE 1 .. e - 1

\* A new execution.  The worktree of a continuation is attached to the work
\* branch and reset to the SHA that its predecessor recorded, if it has.
Start(from, dirty) ==
  /\ phase = "idle" /\ now' = now + 1 /\ now' \in Executions
  /\ status' = [d \in Executions |->
                  IF d = now' THEN "running"
                  ELSE IF d \in Past(now') THEN "past" ELSE status[d]]
  /\ done' = [d \in Executions |-> IF d \in Past(now') THEN {} ELSE done[d]]
  /\ shaAfter' = [d \in Executions |->
                    IF d \in Past(now') THEN Gone ELSE shaAfter[d]]
  /\ skip' = IF from = 0 THEN {} ELSE Completed(from) \ dirty
  /\ tip' = IF from = 0 \/ shaAfter[from] = Gone THEN tip ELSE shaAfter[from]
  /\ IF skip' = {} THEN phase' = "foundation" /\ todo' = {}
                   ELSE phase' = "recover" /\ todo' = Refs \cup Subs
  /\ UNCHANGED <<parallel, isolated, outcome, conflicting, ref, sub, registered,
                 deleted>>

Resumable(p) == phase = "idle" /\ (p = now \/ OlderToo)

Continue(p) ==
  /\ Resumable(p) /\ status[p] \in {"failed", "cancelled"}
  /\ Start(p, {})

\* Bound: a request names one task.
Rerun(p) ==
  /\ Resumable(p) /\ status[p] \in {"completed", "failed", "cancelled"}
  /\ \E r \in Requests : Start(p, Dirty({r[1]}, r[2]))

Create == now = 0 /\ Start(0, {})

\* A merge can conflict if both sides have got commits that the other has not.
MayConflict(branch, target) ==
  ~(branch \subseteq target) /\ ~(target \subseteq branch)

\* recover_unmerged_wave_branches: branches left behind are merged.  The tasks
\* of a feature whose branch conflicts are taken out of the skip set; what follows
\* wave-N/ in the name of a task's own branch is the name of no feature.
\* Fault: they are left in it.
Dropped_None(x) == {}

Dropped(x) == IF x \in Features THEN TasksOf(x) ELSE {}

Recover(x) ==
  /\ phase = "recover" /\ First(x)
  /\ todo' = todo \ {x}
  /\ LET branch == IF x \in Features THEN ref[x] ELSE sub[x]
     IN \/ tip' = tip \cup branch /\ UNCHANGED skip
        \/ /\ MayConflict(branch, tip)
           /\ skip' = skip \ Dropped(x)
           /\ UNCHANGED tip
  /\ UNCHANGED <<parallel, status, now, phase, isolated, outcome, conflicting,
                 record, ref, sub, registered, deleted>>

Recovered ==
  /\ phase = "recover" /\ todo = {}
  /\ phase' = "foundation"
  /\ UNCHANGED <<parallel, status, now, todo, wave, record, repo>>
-----------------------------------------------------------------------------
\* The tasks of the three sections.
Section(t) ==
  IF t \in Foundation THEN "foundation"
  ELSE IF t \in Integration THEN "integration" ELSE "features"

Ready(t) ==
  /\ outcome[t] = "todo"
  /\ phase = Section(t)
  /\ \A u \in Before(t) : outcome[u] = "ok"

\* git creates a branch for the task unless it is there already, from an
\* earlier execution; the task then works in the directory of the feature.
OnSub(t) ==
  /\ FeatureOf[t] \in parallel \cap isolated
  /\ sub[t] = Gone

\* An agent succeeds and its output is committed where it worked ...
Commit(t) ==
  /\ Ready(t) /\ t \notin skip
  /\ outcome' = [outcome EXCEPT ![t] = "committed"]
  /\ LET commit == {<<t, now>>}
     IN IF t \notin FeatureTasks \/ FeatureOf[t] \notin isolated
          THEN tip' = tip \cup commit /\ UNCHANGED <<ref, sub>>
        ELSE IF OnSub(t)
          THEN /\ sub' = [sub EXCEPT ![t] = ref[FeatureOf[t]] \cup commit]
               /\ UNCHANGED <<tip, ref>>
          ELSE /\ ref' = [ref EXCEPT ![FeatureOf[t]] = @ \cup commit]
               /\ UNCHANGED <<tip, sub>>
  /\ UNCHANGED <<run, isolated, conflicting, skip, record, registered, deleted>>

\* ... merged, by git or by the agent that resolves the conflicts, unless the
\* merge is given up, in which case its branch is kept ...
\* Fault: the branch is deleted all the same.
KeptSub_Never(t) == Gone

KeptSub(t) == sub[t]

Join(t) ==
  LET f == FeatureOf[t]
  IN \/ /\ ref' = [ref EXCEPT ![f] = @ \cup sub[t]]
        /\ sub' = [sub EXCEPT ![t] = Gone]
     \/ /\ MayConflict(sub[t], ref[f])
        /\ sub' = [sub EXCEPT ![t] = KeptSub(t)]
        /\ UNCHANGED ref

\* ... and then reported.  A task of the skip set is only reported.
Report(t) ==
  /\ \/ outcome[t] = "committed"
     \/ Ready(t) /\ t \in skip
  /\ IF t \in Subs /\ <<t, now>> \in sub[t] THEN Join(t) ELSE UNCHANGED <<ref, sub>>
  /\ outcome' = [outcome EXCEPT ![t] = "ok"]
  /\ done' = [done EXCEPT ![now] = @ \cup {t}]
  /\ UNCHANGED <<run, isolated, conflicting, skip, shaAfter, tip, registered,
                 deleted>>

\* Its agent fails, or a task before it has failed.
Fail(t) ==
  /\ outcome[t] = "todo" /\ phase = Section(t)
  /\ \/ Ready(t) /\ t \notin skip
     \/ \E u \in Before(t) : outcome[u] = "failed"
  /\ outcome' = [outcome EXCEPT ![t] = "failed"]
  /\ UNCHANGED <<run, isolated, conflicting, skip, record, repo>>

All(T, results) == \A t \in T : outcome[t] \in results
Ended(T) == All(T, {"ok", "failed"})
Passed(f) == All(TasksOf(f), {"ok"})

\* The variables of execute_wave end with it.
End(result) ==
  /\ phase' = "idle" /\ todo' = {}
  /\ status' = [status EXCEPT ![now] = result]
  /\ isolated' = {} /\ conflicting' = {} /\ skip' = {}
  /\ outcome' = [t \in Tasks |-> "todo"]
  /\ UNCHANGED <<parallel, now>>

\* An end that was not interrupted.
EndWave(result, head) ==
  /\ End(result)
  /\ shaAfter' = [shaAfter EXCEPT ![now] = head]

Founded ==
  /\ phase = "foundation" /\ Ended(Foundation)
  /\ IF All(Foundation, {"ok"})
       THEN /\ phase' = "isolate" /\ todo' = Features
            /\ UNCHANGED <<parallel, status, now, wave, shaAfter>>
       ELSE EndWave("failed", tip)
  /\ UNCHANGED <<done, repo>>

\* create_feature_worktree: the branch is made or, if it is there, reused.
\* git refuses to add a worktree that it has registered at the path already;
\* the feature then runs in the directory of the execution.
Isolate(f) ==
  /\ phase = "isolate" /\ First(f)
  /\ todo' = todo \ {f}
  /\ ref' = [ref EXCEPT ![f] = IF @ = Gone THEN tip ELSE @]
  /\ IF registered[f] = "no"
       THEN /\ registered' = [registered EXCEPT ![f] = "live"]
            /\ isolated' = isolated \cup {f}
       ELSE UNCHANGED <<registered, isolated>>
  /\ UNCHANGED <<parallel, status, now, phase, outcome, conflicting, skip,
                 record, tip, sub, deleted>>

Isolated ==
  /\ phase = "isolate" /\ todo = {}
  /\ phase' = "features"
  /\ UNCHANGED <<parallel, status, now, todo, wave, record, repo>>

\* Fault: the branches of features that got no worktree are merged as well.
Branches_All == Features

Branches == isolated

\* merge_feature_branches begins by removing the worktrees.
FeaturesEnd ==
  /\ phase = "features" /\ Ended(FeatureTasks)
  /\ phase' = "merge"
  /\ todo' = Branches
  /\ registered' = [f \in Features |-> IF f \in isolated THEN "no" ELSE registered[f]]
  /\ UNCHANGED <<parallel, status, now, wave, record, tip, ref, sub, deleted>>

\* A passed branch is merged and deleted, unless it conflicts; one that has
\* failed is preserved.
\* Fault: a conflicting branch is deleted as well.
KeptRef_Never(f) == Gone

KeptRef(f) == ref[f]

MergeBranch(f) ==
  /\ phase = "merge" /\ First(f)
  /\ todo' = todo \ {f}
  /\ \/ /\ ~Passed(f)
        /\ UNCHANGED <<tip, ref, conflicting>>
     \/ /\ Passed(f)
        /\ tip' = tip \cup ref[f]
        /\ ref' = [ref EXCEPT ![f] = Gone]
        /\ UNCHANGED conflicting
     \/ /\ Passed(f) /\ MayConflict(ref[f], tip)
        /\ conflicting' = conflicting \cup {f}
        /\ ref' = [ref EXCEPT ![f] = KeptRef(f)]
        /\ UNCHANGED tip
  /\ UNCHANGED <<parallel, status, now, phase, isolated, outcome, skip, record, sub,
                 registered, deleted>>

Merged ==
  /\ phase = "merge" /\ todo = {}
  /\ phase' = IF conflicting = {} THEN "verdict" ELSE "resolve"
  /\ UNCHANGED <<parallel, status, now, todo, wave, record, repo>>

\* The merge task: its agent merges what it can, unless an earlier execution
\* has completed a merge task.  verify_branches_merged looks what is merged.
\* Fault: the exit code of the agent is believed.
Verified_Believed(F) == TRUE

Verified(F) == \A f \in F : ref[f] \subseteq tip'

Resolve(exitCode, M) ==
  /\ phase = "resolve"
  /\ Merge \in skip => exitCode = 0 /\ M = {}
  /\ tip' = tip \cup UNION {ref[f] : f \in M}
  /\ done' = IF exitCode = 0 THEN [done EXCEPT ![now] = @ \cup {Merge}] ELSE done
  /\ ref' = [f \in Features |->
               IF exitCode = 0 /\ f \in conflicting /\ ref[f] \subseteq tip'
               THEN Gone ELSE ref[f]]
  /\ IF exitCode = 0 /\ Verified(conflicting)
       THEN /\ phase' = "verdict"
            /\ UNCHANGED <<parallel, status, now, todo, wave, shaAfter>>
       ELSE EndWave("failed", tip')
  /\ UNCHANGED <<sub, registered, deleted>>

\* cleanup_all deletes the branches, when a feature has failed.
Verdict ==
  /\ phase = "verdict"
  /\ IF \A f \in Features : Passed(f)
       THEN /\ phase' = "integration"
            /\ UNCHANGED <<parallel, status, now, todo, wave, shaAfter, ref,
                           registered, deleted>>
       ELSE /\ EndWave("failed", tip)
            /\ ref' = [f \in Features |-> IF f \in isolated THEN Gone ELSE ref[f]]
            /\ deleted' = deleted \cup
                 UNION {TasksIn(ref[f] \ tip) : f \in isolated \cap Refs}
            /\ registered' = IF isolated = {} THEN registered
                             ELSE [f \in Features |-> "no"]
  /\ UNCHANGED <<done, tip, sub>>

Integrated ==
  /\ phase = "integration" /\ Ended(Integration)
  /\ EndWave(IF All(Integration, {"ok"}) THEN "completed" ELSE "failed", tip)
  /\ UNCHANGED <<done, repo>>

\* A cancellation, an exception, or a crash and a cancellation later on: the
\* directory of the execution goes with everything that is not committed.
\* git keeps the worktrees in it registered and the branches, those of tasks
\* whose agents were at work too.
AtWork == {t \in FeatureTasks \ skip : Ready(t) /\ OnSub(t)}

Interrupt ==
  /\ phase # "idle"
  /\ End("cancelled")
  /\ \E T \in SUBSET AtWork :
       sub' = [t \in FeatureTasks |-> IF t \in T THEN ref[FeatureOf[t]] ELSE sub[t]]
  /\ registered' = [f \in Features |->
                      IF registered[f] = "live" THEN "stale" ELSE registered[f]]
  /\ UNCHANGED <<record, tip, ref, deleted>>

Next ==
  \/ Create
  \/ \E p \in 1 .. now : Continue(p) \/ Rerun(p)
  \/ \E x \in Features \cup FeatureTasks : Recover(x)
  \/ \E f \in Features : Isolate(f) \/ MergeBranch(f)
  \/ \E t \in Tasks : Commit(t) \/ Report(t) \/ Fail(t)
  \/ \E exitCode \in {0, 1}, M \in SUBSET conflicting : Resolve(exitCode, M)
  \/ Recovered \/ Founded \/ Isolated \/ FeaturesEnd \/ Merged \/ Verdict
  \/ Integrated \/ Interrupt

Spec == Init /\ [][Next]_vars
-----------------------------------------------------------------------------
\* Once recovery is over, a task that is going to be skipped has its code in
\* the work branch: the comment on recovery promises that no task is "silently
\* marked done with no code on disk".
Underway == phase \notin {"idle", "recover"}
SkipHasCode ==
  Underway => skip \cap Tasks \subseteq TasksIn(tip)

\* What is on branches of tasks, of which the merge was given up.
GivenUp == UNION {sub[t] : t \in Subs}

\* The same for everything but the code that cleanup_all has deleted, and that
\* on the branches of tasks, for which the recovery finds no feature.
SkipHasCodeUnlessDeleted ==
  Underway => skip \cap Tasks \subseteq TasksIn(tip \cup GivenUp) \cup deleted

\* A task reported completed by the latest execution is on the work branch, on
\* its feature's branch or on its own, wherever the execution has got to and
\* however it ended, unless cleanup_all has deleted it.
ReportedIsReachable ==
  now # 0 =>
    done[now] \cap Tasks \subseteq
      TasksIn(tip \cup GivenUp \cup UNION {ref[f] : f \in Refs}) \cup deleted

\* Integration starts on everything that the execution has built, except what
\* is on the branches of tasks whose merge was given up.
IntegrationSeesAll ==
  phase = "integration" =>
    \A t \in (Foundation \cup FeatureTasks) \ skip :
      <<t, now>> \in tip \cup GivenUp

\* A completed execution records a SHA that contains the output of every task
\* of the plan, be it of this execution or of an earlier one, with the same
\* exceptions.
CompletedIsWhole ==
  \A e \in Executions :
    status[e] = "completed" =>
      Tasks \subseteq TasksIn(shaAfter[e] \cup GivenUp) \cup deleted
=============================================================================
