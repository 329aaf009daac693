----------------------------- MODULE SectionRun -----------------------------
(***************************************************************************)
(* A foundation or integration section of a wave: run_task_with_runner of  *)
(* execute_wave (wave_server/engine/wave_executor.py), the verify-and-fix  *)
(* loop (verify_fix.py, enforcement.py), how a runner judges the end of an *)
(* agent (runner.py), and commit_task_output (git_worktree.py).            *)
(*                                                                         *)
(* All tasks of a section work and commit in one directory.  No lock of    *)
(* the engine keeps them apart: git add and git commit of parallel tasks   *)
(* meet at the index.lock of git, where the second one is refused.         *)
(*                                                                         *)
(* When a task may start is taken from TaskOrder, the promise of           *)
(* execute_dag that DagScheduler is shown to keep.  The section works on a *)
(* work branch (repo_root is given), with the runner "pi".                 *)
(***************************************************************************)
EXTENDS Naturals, FiniteSets

CONSTANTS
  Tasks, Graphs, MaxConcurrency,   \* see TaskOrder
  Verifiers,     \* tasks whose agent is "wave-verifier"
  MaxAttempts,   \* max_attempts of attempt_fix_and_reverify
  SkipSets,      \* what skip_task_ids may be
  Nobody         \* holds index.lock when no command of the engine does

ASSUME NobodyAssumption == Nobody \notin Tasks
ASSUME VerifiersAssumption == Verifiers \subseteq Tasks /\ MaxAttempts \in Nat
ASSUME SkipAssumption == SkipSets \subseteq SUBSET Tasks

VARIABLES
  depends, phase, call,   \* the call of execute_dag, see TaskOrder
  skip,       \* opts.skip_task_ids
  pc,         \* where run_task_with_runner of each task is
  attempt,    \* attempt of the fix loop, 0 outside of it
  passed,     \* verifiers whose last verification reported no failure
  tree,       \* the directory: how far the work of each agent is in it
  index,      \* what git add has staged
  branch,     \* what is committed
  indexLock,  \* the task whose git command holds index.lock
  refused,    \* tasks one of whose git commands failed: it found index.lock
              \* taken, or the commit was refused
  cutShort,   \* tasks whose agent failed half-way and was taken for a success
  fresh       \* verifiers with no work done on what they verify since their
              \* last verification began

order   == <<depends, phase, call>>
repo    == <<index, branch, indexLock, refused>>
history == <<cutShort, fresh>>
vars == <<order, skip, pc, attempt, passed, tree, repo, history>>

Order == INSTANCE TaskOrder

\* The agents of a task: round 0 is its own, round n that of its n-th fix.
Rounds == 0 .. MaxAttempts
Progress == {"none", "half", "whole"}
Content == [Tasks -> [Rounds -> Progress]]

Subject(v) == {v} \cup Order!Deps(v)

AgentPc == {"agent", "fix", "verify"}
GitPc   == {"status", "add", "adding", "commit", "committing"}

TypeOK ==
  /\ depends \in Graphs
  /\ phase \in [Tasks -> {"pending", "running", "ok", "failed", "raised", "skipped"}]
  /\ call \in {"open", "returned", "raised"}
  /\ skip \in SkipSets
  /\ pc \in [Tasks -> AgentPc \cup GitPc \cup {"idle", "ok", "failed", "raise", "done"}]
  /\ attempt \in [Tasks -> Rounds]
  /\ passed \subseteq Verifiers
  /\ {tree, index, branch} \subseteq Content
  /\ indexLock \in Tasks \cup {Nobody}
  /\ refused \subseteq Tasks /\ cutShort \subseteq Tasks
  /\ fresh \subseteq Verifiers

\* The work of a task that is skipped is in the branch already.
Init ==
  /\ Order!Init
  /\ skip \in SkipSets
  /\ pc = [t \in Tasks |-> "idle"]
  /\ attempt = [t \in Tasks |-> 0]
  /\ passed = {}
  /\ tree = [t \in Tasks |-> [n \in Rounds |-> IF n = 0 /\ t \in skip THEN "whole" ELSE "none"]]
  /\ index = tree /\ branch = tree
  /\ indexLock = Nobody
  /\ refused = {} /\ cutShort = {} /\ fresh = {}

----------------------------------------------------------------------------
(* How a task goes on. *)

Goto(t, place) == pc' = [pc EXCEPT ![t] = place]

\* Fault: the counter of the fix loop stands still.
NextAttempt_Uncounted(t) ==
  IF attempt[t] < MaxAttempts
  THEN Goto(t, "fix") /\ attempt' = [attempt EXCEPT ![t] = 1]
  ELSE Goto(t, "failed") /\ UNCHANGED attempt

NextAttempt(t) ==
  IF attempt[t] < MaxAttempts
  THEN Goto(t, "fix") /\ attempt' = [attempt EXCEPT ![t] = @ + 1]
  ELSE Goto(t, "failed") /\ UNCHANGED attempt

\* Fault: a fix that was committed counts as verified.
AfterCommit_Trusting(t) == Goto(t, "ok") /\ UNCHANGED fresh

\* After the commit of a fix comes its verification, after the commit of a
\* task its report.
AfterCommit(t) ==
  IF t \in Verifiers \ passed
  THEN Goto(t, "verify") /\ fresh' = fresh \cup {t}
  ELSE Goto(t, "ok") /\ UNCHANGED fresh

----------------------------------------------------------------------------
(* Agents. *)

\* How an agent can end: by itself; with a code other than 0; with code 0
\* after its API refused all retries; after an error that let it do nothing;
\* after an error that came in the middle of its work.
Ends == {"finished", "crashed", "retriesExhausted", "errorAtOnce", "errorMidway"}

\* Fault: the exit code of pi is believed.
PiFailure_Unseen(end) == FALSE

PiFailure(end) == end \in {"retriesExhausted", "errorAtOnce"}

Succeeds(end) == end # "crashed" /\ ~PiFailure(end)

\* What a verifier prints: a verdict, none that can be found, or a status
\* that is no string.
Reports == {"pass", "fail", "silent", "odd"}

VerifierFailure(report) == report = "fail"

Start(t) ==
  /\ Order!Begin(t)
  /\ Goto(t, IF t \in skip THEN "ok" ELSE "agent")
  /\ fresh' = IF t \in Verifiers THEN fresh \cup {t} ELSE fresh
  /\ UNCHANGED <<skip, attempt, passed, tree, repo, cutShort>>

Writing(t) == pc[t] = "fix" \/ (pc[t] = "agent" /\ t \notin Verifiers)

Work(t, progress) ==
  /\ tree' = [tree EXCEPT ![t][attempt[t]] = progress]
  /\ fresh' = fresh \ {v \in Verifiers : t \in Subject(v)}

\* An agent has written a part of what it is going to write.
Write(t) ==
  /\ Writing(t)
  /\ tree[t][attempt[t]] = "none"
  /\ Work(t, "half")
  /\ UNCHANGED <<order, skip, pc, attempt, passed, repo, cutShort>>

\* One that finishes has done all or found nothing to do; one that fails
\* leaves what it has written.
WorkEnds(t, end) ==
  LET done == tree[t][attempt[t]]
  IN /\ \/ end = "finished" /\ Work(t, "whole")
        \/ end = "finished" /\ done = "none" /\ UNCHANGED <<tree, fresh>>
        \/ end = "errorAtOnce" /\ done = "none" /\ UNCHANGED <<tree, fresh>>
        \/ end \notin {"finished", "errorAtOnce"} /\ UNCHANGED <<tree, fresh>>
     /\ cutShort' = IF end = "errorMidway" THEN cutShort \cup {t} ELSE cutShort

AgentEnds(t) ==
  /\ pc[t] = "agent" /\ t \notin Verifiers
  /\ \E end \in Ends :
       /\ WorkEnds(t, end)
       /\ Goto(t, IF Succeeds(end) THEN "status" ELSE "failed")
  /\ UNCHANGED <<order, skip, attempt, passed, repo>>

FixEnds(t) ==
  /\ pc[t] = "fix"
  /\ \E end \in Ends :
       /\ WorkEnds(t, end)
       /\ IF Succeeds(end) THEN Goto(t, "status") /\ UNCHANGED attempt
                           ELSE NextAttempt(t)
  /\ UNCHANGED <<order, skip, passed, repo>>

\* The first run of a verifier and the runs after a fix.  Silence passes, and
\* a status that is no string raises.
VerificationEnds(t) ==
  /\ t \in Verifiers /\ pc[t] \in {"agent", "verify"}
  /\ \/ \E end \in Ends :
          /\ ~Succeeds(end)
          /\ IF pc[t] = "agent" THEN Goto(t, "failed") /\ UNCHANGED attempt
                                ELSE NextAttempt(t)
          /\ UNCHANGED passed
     \/ \E end \in Ends, report \in Reports :
          /\ Succeeds(end)
          /\ IF report = "odd" THEN Goto(t, "raise") /\ UNCHANGED <<attempt, passed>>
             ELSE IF VerifierFailure(report) THEN NextAttempt(t) /\ UNCHANGED passed
             ELSE Goto(t, "status") /\ passed' = passed \cup {t} /\ UNCHANGED attempt
  /\ UNCHANGED <<order, skip, tree, repo, history>>

----------------------------------------------------------------------------
(* commit_task_output. *)

\* Fault: what is staged already is not looked at.
Changed_UnstagedOnly == tree # index

Changed == tree # index \/ index # branch

Status(t) ==
  /\ pc[t] = "status"
  /\ IF Changed THEN Goto(t, "add") /\ UNCHANGED fresh ELSE AfterCommit(t)
  /\ UNCHANGED <<order, skip, attempt, passed, tree, repo, cutShort>>

\* A git command that changes the index starts: it takes index.lock, or ends
\* at once because another one has it, which nobody is told.
TakeIndex(t, from, to) ==
  /\ pc[t] = from
  /\ \/ /\ indexLock = Nobody
        /\ indexLock' = t
        /\ Goto(t, to)
        /\ UNCHANGED <<refused, fresh>>
     \/ /\ indexLock # Nobody
        /\ refused' = refused \cup {t}
        /\ AfterCommit(t)
        /\ UNCHANGED indexLock
  /\ UNCHANGED <<order, skip, attempt, passed, tree, index, branch, cutShort>>

AddStarts(t)    == TakeIndex(t, "add", "adding")
CommitStarts(t) == TakeIndex(t, "commit", "committing")

\* git add -A stages what the directory has, whoever has written it.
AddEnds(t) ==
  /\ pc[t] = "adding"
  /\ index' = tree
  /\ indexLock' = Nobody
  /\ Goto(t, "commit")
  /\ UNCHANGED <<order, skip, attempt, passed, tree, branch, refused, history>>

\* git makes the commit or refuses it: with nothing staged, which comes to the
\* same, or because of a hook or a missing identity, which nobody is told.
CommitEnds(t) ==
  /\ pc[t] = "committing"
  /\ \/ branch' = index /\ UNCHANGED refused
     \/ index # branch /\ refused' = refused \cup {t} /\ UNCHANGED branch
  /\ indexLock' = Nobody
  /\ AfterCommit(t)
  /\ UNCHANGED <<order, skip, attempt, passed, tree, index, cutShort>>

----------------------------------------------------------------------------
(* The end of a task and of the section. *)

Report(t) ==
  /\ pc[t] \in {"ok", "failed"}
  /\ Order!Move(t, "running", pc[t])
  /\ Goto(t, "done")
  /\ UNCHANGED <<skip, attempt, passed, tree, repo, history>>

Raise(t) ==
  /\ pc[t] = "raise"
  /\ Order!Move(t, "running", "raised")
  /\ Goto(t, "done")
  /\ UNCHANGED <<skip, attempt, passed, tree, repo, history>>

Scheduler ==
  /\ (\E t \in Tasks : Order!Skip(t)) \/ Order!Return \/ Order!Raise
  /\ UNCHANGED <<skip, pc, attempt, passed, tree, repo, history>>

TaskStep(t) ==
  \/ Start(t) \/ AgentEnds(t) \/ FixEnds(t) \/ VerificationEnds(t)
  \/ Status(t) \/ AddStarts(t) \/ AddEnds(t) \/ CommitStarts(t) \/ CommitEnds(t)
  \/ Report(t) \/ Raise(t)

Next == (\E t \in Tasks : TaskStep(t) \/ Write(t)) \/ Scheduler

Spec == Init /\ [][Next]_vars

\* Agents and git commands end: an assumption about the environment, since the
\* tasks of a plan are spawned without a timeout.  The scheduler starts what it
\* may start, which DagScheduler shows.
FairSpec == Spec /\ (\A t \in Tasks : WF_vars(TaskStep(t))) /\ WF_vars(Scheduler)

----------------------------------------------------------------------------
(* Properties *)

\* What a task has done when it is reported a success is finished and in the
\* branch, from which the features fork, whoever committed it: another task
\* may have staged it, or have taken it along half done before.  Not so if git
\* failed when it was to be committed, or if its agent was cut short by an
\* error that the runner overlooks.
ReportedIsCommitted ==
  \A t \in Tasks \ refused :
    phase[t] = "ok" =>
      /\ branch[t] = tree[t]
      /\ t \in cutShort \/ branch[t][attempt[t]] # "half"

\* A verifier that is reported a success has passed in its last run, and
\* neither its own fixes nor the tasks it depends on have changed anything
\* since that run began: the success is not that of an earlier state.
VerifiedIsFinal ==
  \A v \in Verifiers \ skip : phase[v] = "ok" => v \in passed \cap fresh

\* The section ends, however often verifiers fail and git refuses, unless a
\* task raises.
SectionEnds == <>(call = "returned" \/ \E t \in Tasks : phase[t] = "raised")
=============================================================================
