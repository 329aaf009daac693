-------------------------- MODULE SectionRun_proofs --------------------------
(***************************************************************************)
(* Theorems about SectionRun for any tasks, dependencies, verifiers, skip  *)
(* sets and any number of attempts.                                        *)
(*                                                                         *)
(* Why a verification that passed still holds when it is reported: a task  *)
(* is started after everything that it depends on has been reported, and a *)
(* task that has been reported writes no more (Placed, Started).  So while *)
(* a verifier is between the begin of its run and its report, its own fix  *)
(* agents are the only ones that could change what it verifies, and none   *)
(* of them lives after the verdict (Verified).                             *)
(*                                                                         *)
(* The second half is about the work itself: why what is reported is in    *)
(* the branch (WorkInv).                                                   *)
(***************************************************************************)
EXTENDS SectionRun, TLAPS

\* Where the coroutine of a task is and how far the scheduler takes it to be.
Placed ==
  \A t \in Tasks :
    /\ pc[t] = "idle" <=> phase[t] \in {"pending", "skipped"}
    /\ pc[t] = "done" <=> phase[t] \in {"ok", "failed", "raised"}

Started ==
  \A t \in Tasks :
    pc[t] # "idle" => \A d \in Order!Deps(t) : d \in Tasks => phase[d] = "ok"

Verified ==
  \A v \in Verifiers :
    /\ v \in passed => v \in fresh /\ pc[v] \in GitPc \cup {"ok", "done"}
    /\ pc[v] \in {"agent", "verify"} => v \in fresh
    /\ v \in passed => phase[v] \notin {"failed", "raised"}
    /\ v \notin skip /\ (pc[v] = "ok" \/ phase[v] = "ok") => v \in passed

IndInv == TypeOK /\ Placed /\ Started /\ Verified

LEMMA InitEstablishes == Init => IndInv
<1> SUFFICES ASSUME Init PROVE IndInv
  OBVIOUS
<1> USE VerifiersAssumption, SkipAssumption DEF Init, Order!Init
<1>1. TypeOK
  <2>1. tree \in Content
    BY DEF Content, Progress, Rounds
  <2>2. QED
    BY <2>1 DEF TypeOK, Rounds
<1>2. Placed /\ Started /\ Verified
  BY DEF Placed, Started, Verified, GitPc
<1>3. QED
  BY <1>1, <1>2 DEF IndInv

LEMMA WorkIsContent ==
  ASSUME TypeOK, NEW t \in Tasks, NEW p \in Progress, Work(t, p)
  PROVE  tree' \in Content /\ fresh' \subseteq Verifiers
BY DEF TypeOK, Work, Content

LEMMA AttemptIsRound ==
  ASSUME TypeOK, NEW t \in Tasks, NextAttempt(t)
  PROVE  attempt' \in [Tasks -> Rounds]
BY VerifiersAssumption DEF TypeOK, NextAttempt, Rounds

LEMMA TypesPreserved == TypeOK /\ [Next]_vars => TypeOK'
<1> SUFFICES ASSUME TypeOK, [Next]_vars PROVE TypeOK'
  OBVIOUS
<1> USE VerifiersAssumption
<1> USE DEF TypeOK, AgentPc, GitPc, Goto, order, repo, history
<1>1. ASSUME NEW t \in Tasks, Start(t) PROVE TypeOK'
  BY <1>1 DEF Start, Order!Begin, Order!Move
<1>2. ASSUME NEW t \in Tasks, AgentEnds(t) PROVE TypeOK'
  <2>1. PICK end \in Ends : WorkEnds(t, end)
    BY <1>2 DEF AgentEnds
  <2>2. tree' \in Content /\ fresh' \subseteq Verifiers /\ cutShort' \subseteq Tasks
    <3>1. CASE Work(t, "whole")
      BY <2>1, <3>1, WorkIsContent DEF WorkEnds, Progress
    <3>2. CASE UNCHANGED <<tree, fresh>>
      BY <2>1, <3>2 DEF WorkEnds
    <3>3. QED
      BY <2>1, <3>1, <3>2 DEF WorkEnds
  <2>3. QED
    BY <1>2, <2>2 DEF AgentEnds
<1>3. ASSUME NEW t \in Tasks, FixEnds(t) PROVE TypeOK'
  <2>1. PICK end \in Ends : WorkEnds(t, end)
    BY <1>3 DEF FixEnds
  <2>2. tree' \in Content /\ fresh' \subseteq Verifiers /\ cutShort' \subseteq Tasks
    <3>1. CASE Work(t, "whole")
      BY <2>1, <3>1, WorkIsContent DEF WorkEnds, Progress
    <3>2. CASE UNCHANGED <<tree, fresh>>
      BY <2>1, <3>2 DEF WorkEnds
    <3>3. QED
      BY <2>1, <3>1, <3>2 DEF WorkEnds
  <2>3. attempt' \in [Tasks -> Rounds]
    BY <1>3, AttemptIsRound DEF FixEnds
  <2>4. QED
    BY <1>3, <2>2, <2>3 DEF FixEnds, NextAttempt
<1>4. ASSUME NEW t \in Tasks, VerificationEnds(t) PROVE TypeOK'
  <2>1. attempt' \in [Tasks -> Rounds]
    BY <1>4, AttemptIsRound DEF VerificationEnds
  <2>2. QED
    BY <1>4, <2>1 DEF VerificationEnds, NextAttempt
<1>5. ASSUME NEW t \in Tasks, Status(t) PROVE TypeOK'
  BY <1>5 DEF Status, AfterCommit
<1>6. ASSUME NEW t \in Tasks, AddStarts(t) PROVE TypeOK'
  BY <1>6 DEF AddStarts, TakeIndex, AfterCommit
<1>7. ASSUME NEW t \in Tasks, AddEnds(t) PROVE TypeOK'
  BY <1>7 DEF AddEnds
<1>8. ASSUME NEW t \in Tasks, CommitStarts(t) PROVE TypeOK'
  BY <1>8 DEF CommitStarts, TakeIndex, AfterCommit
<1>9. ASSUME NEW t \in Tasks, CommitEnds(t) PROVE TypeOK'
  BY <1>9 DEF CommitEnds, AfterCommit
<1>10. ASSUME NEW t \in Tasks, Report(t) PROVE TypeOK'
  BY <1>10 DEF Report, Order!Move
<1>11. ASSUME NEW t \in Tasks, Raise(t) PROVE TypeOK'
  BY <1>11 DEF Raise, Order!Move
<1>12. ASSUME NEW t \in Tasks, Write(t) PROVE TypeOK'
  <2>1. Work(t, "half") /\ "half" \in Progress
    BY <1>12 DEF Write, Progress
  <2>2. tree' \in Content /\ fresh' \subseteq Verifiers
    BY <2>1, WorkIsContent
  <2>3. QED
    BY <1>12, <2>2 DEF Write
<1>13. ASSUME Scheduler PROVE TypeOK'
  BY <1>13 DEF Scheduler, Order!Skip, Order!Return, Order!Raise, Order!Move
<1>14. CASE UNCHANGED vars
  BY <1>14 DEF vars
<1>15. QED
  BY <1>1, <1>2, <1>3, <1>4, <1>5, <1>6, <1>7, <1>8, <1>9, <1>10, <1>11, <1>12, <1>13, <1>14 DEF Next, TaskStep

LEMMA StepPreserves == IndInv /\ [Next]_vars => IndInv'
<1> SUFFICES ASSUME IndInv, [Next]_vars PROVE IndInv'
  OBVIOUS
<1>0. TypeOK'
  BY TypesPreserved DEF IndInv
<1> USE VerifiersAssumption
<1> USE DEF IndInv, Placed, Started, Verified, GitPc, Goto, Order!Deps, Subject
<1> USE DEF order, repo, history
<1>1. ASSUME NEW t \in Tasks, Start(t) PROVE IndInv'
  <2> USE DEF Start, Order!Begin, Order!Move
  <2>1. phase = [phase EXCEPT ![t] = "pending"] /\ phase' = [phase EXCEPT ![t] = "running"]
    BY <1>1 DEF TypeOK
  <2>2. Placed'
    BY <1>1, <2>1 DEF TypeOK
  <2>3. Started'
    BY <1>1, <2>1 DEF TypeOK, Order!InPhase
  <2>4. Verified'
    BY <1>1 DEF TypeOK
  <2>5. QED
    BY <1>0, <2>2, <2>3, <2>4
<1>2. ASSUME NEW t \in Tasks, AgentEnds(t) PROVE IndInv'
  <2> USE DEF AgentEnds, WorkEnds, Work
  <2>1. Placed' /\ Started'
    BY <1>2 DEF TypeOK
  <2>2. Verified'
    BY <1>2 DEF TypeOK
  <2>3. QED
    BY <1>0, <2>1, <2>2
<1>3. ASSUME NEW t \in Tasks, FixEnds(t) PROVE IndInv'
  <2> USE DEF FixEnds, WorkEnds, Work, NextAttempt
  <2>1. Placed' /\ Started'
    BY <1>3 DEF TypeOK
  <2>2. Verified'
    BY <1>3 DEF TypeOK
  <2>3. QED
    BY <1>0, <2>1, <2>2
<1>4. ASSUME NEW t \in Tasks, VerificationEnds(t) PROVE IndInv'
  <2> USE DEF VerificationEnds, NextAttempt
  <2>1. Placed' /\ Started'
    BY <1>4 DEF TypeOK
  <2>2. Verified'
    BY <1>4 DEF TypeOK
  <2>3. QED
    BY <1>0, <2>1, <2>2
<1>5. ASSUME NEW t \in Tasks, Status(t) PROVE IndInv'
  <2> USE DEF Status, AfterCommit
  <2>1. Placed' /\ Started'
    BY <1>5 DEF TypeOK
  <2>2. Verified'
    BY <1>5 DEF TypeOK
  <2>3. QED
    BY <1>0, <2>1, <2>2
<1>6. ASSUME NEW t \in Tasks, AddStarts(t) PROVE IndInv'
  <2> USE DEF AddStarts, TakeIndex, AfterCommit
  <2>1. Placed' /\ Started'
    BY <1>6 DEF TypeOK
  <2>2. Verified'
    BY <1>6 DEF TypeOK
  <2>3. QED
    BY <1>0, <2>1, <2>2
<1>7. ASSUME NEW t \in Tasks, AddEnds(t) PROVE IndInv'
  <2> USE DEF AddEnds
  <2>1. Placed' /\ Started'
    BY <1>7 DEF TypeOK
  <2>2. Verified'
    BY <1>7 DEF TypeOK
  <2>3. QED
    BY <1>0, <2>1, <2>2
<1>8. ASSUME NEW t \in Tasks, CommitStarts(t) PROVE IndInv'
  <2> USE DEF CommitStarts, TakeIndex, AfterCommit
  <2>1. Placed' /\ Started'
    BY <1>8 DEF TypeOK
  <2>2. Verified'
    BY <1>8 DEF TypeOK
  <2>3. QED
    BY <1>0, <2>1, <2>2
<1>9. ASSUME NEW t \in Tasks, CommitEnds(t) PROVE IndInv'
  <2> USE DEF CommitEnds, AfterCommit
  <2>1. Placed' /\ Started'
    BY <1>9 DEF TypeOK
  <2>2. Verified'
    BY <1>9 DEF TypeOK
  <2>3. QED
    BY <1>0, <2>1, <2>2
<1>10. ASSUME NEW t \in Tasks, Report(t) PROVE IndInv'
  <2> USE DEF Report, Order!Move
  <2>1. Placed' /\ Started'
    BY <1>10 DEF TypeOK
  <2>2. Verified'
    BY <1>10 DEF TypeOK
  <2>3. QED
    BY <1>0, <2>1, <2>2
<1>11. ASSUME NEW t \in Tasks, Raise(t) PROVE IndInv'
  <2> USE DEF Raise, Order!Move
  <2>1. Placed' /\ Started'
    BY <1>11 DEF TypeOK
  <2>2. Verified'
    BY <1>11 DEF TypeOK
  <2>3. QED
    BY <1>0, <2>1, <2>2
<1>12. ASSUME NEW t \in Tasks, Write(t) PROVE IndInv'
  <2> USE DEF Write, Writing, Work
  <2>1. Placed' /\ Started'
    BY <1>12 DEF TypeOK
  <2>2. Verified'
    BY <1>12 DEF TypeOK
  <2>3. QED
    BY <1>0, <2>1, <2>2
<1>13. ASSUME Scheduler PROVE IndInv'
  <2> USE DEF Scheduler, Order!Skip, Order!Return, Order!Raise, Order!Move
  <2>1. Placed' /\ Started'
    BY <1>13 DEF TypeOK
  <2>2. Verified'
    BY <1>13 DEF TypeOK
  <2>3. QED
    BY <1>0, <2>1, <2>2
<1>14. CASE UNCHANGED vars
  BY <1>0, <1>14 DEF vars, TypeOK
<1>15. QED
  BY <1>1, <1>2, <1>3, <1>4, <1>5, <1>6, <1>7, <1>8, <1>9, <1>10, <1>11, <1>12, <1>13, <1>14 DEF Next, TaskStep

\* The variables keep their types, and attempt its bound, for any plan.
THEOREM TypeCorrect == Spec => []TypeOK
<1>1. Init => IndInv
  BY InitEstablishes
<1>2. IndInv /\ [Next]_vars => IndInv'
  BY StepPreserves
<1>3. IndInv => TypeOK
  BY DEF IndInv
<1>4. QED
  BY <1>1, <1>2, <1>3, PTL DEF Spec

\* A verifier that is reported a success has passed in its last run, and
\* nothing that it verifies has been changed since that run began.
THEOREM VerdictsAreCurrent == Spec => []VerifiedIsFinal
<1>1. Init => IndInv
  BY InitEstablishes
<1>2. IndInv /\ [Next]_vars => IndInv'
  BY StepPreserves
<1>3. IndInv => VerifiedIsFinal
  BY VerifiersAssumption DEF IndInv, Verified, VerifiedIsFinal
<1>4. QED
  BY <1>1, <1>2, <1>3, PTL DEF Spec
-----------------------------------------------------------------------------
(* Why what is reported is committed: git add stages the work of every     *)
(* task, and the index and the branch are never changed but to bring them  *)
(* up to the directory.  So when a task has stopped writing and a git add  *)
(* has ended, its part of the index stays what the directory has, and the  *)
(* same is true of the branch after the next commit (Staged).              *)

Committed(t) == index[t] = tree[t] /\ branch[t] = tree[t]

Staged ==
  \A t \in Tasks \ refused :
    /\ pc[t] \in {"commit", "committing"} => index[t] = tree[t]
    /\ pc[t] \in {"idle", "ok"} \/ phase[t] = "ok" => Committed(t)

\* The fix agents that are still to come have written nothing.
Ahead ==
  \A t \in Tasks : \A n \in Rounds : n > attempt[t] => tree[t][n] = "none"

\* Between agents, and while a verifier looks at the directory.
AtRest(t) ==
  \/ pc[t] \in GitPc \cup {"idle", "verify", "ok"}
  \/ pc[t] = "agent" /\ t \in Verifiers
  \/ phase[t] = "ok"

Finished == \A t \in Tasks \ cutShort : AtRest(t) => tree[t][attempt[t]] # "half"

WorkInv == Staged /\ Ahead /\ Finished

LEMMA WorkChanges ==
  ASSUME TypeOK, NEW t \in Tasks, NEW p \in Progress, Work(t, p)
  PROVE  /\ \A u \in Tasks \ {t} : tree'[u] = tree[u]
         /\ tree'[t][attempt[t]] = p
         /\ \A n \in Rounds \ {attempt[t]} : tree'[t][n] = tree[t][n]
<1>1. tree \in [Tasks -> [Rounds -> Progress]] /\ attempt[t] \in Rounds
  BY DEF TypeOK, Content
<1>2. tree' = [tree EXCEPT ![t][attempt[t]] = p]
  BY DEF Work
<1>3. QED
  BY <1>1, <1>2

\* An agent that is taken for a success has done all or nothing, or is known to
\* be cut short.
LEMMA SuccessIsFinished ==
  ASSUME TypeOK, NEW t \in Tasks, NEW end \in Ends, WorkEnds(t, end)
  PROVE  /\ \A u \in Tasks \ {t} : tree'[u] = tree[u]
         /\ \A n \in Rounds \ {attempt[t]} : tree'[t][n] = tree[t][n]
         /\ cutShort \subseteq cutShort'
         /\ Succeeds(end) => t \in cutShort' \/ tree'[t][attempt[t]] # "half"
<1>1. cutShort' = IF end = "errorMidway" THEN cutShort \cup {t} ELSE cutShort
  BY DEF WorkEnds
<1>2. CASE Work(t, "whole") /\ end = "finished"
  BY <1>1, <1>2, WorkChanges DEF Progress
<1>3. CASE end \in {"finished", "errorAtOnce"} /\ tree[t][attempt[t]] = "none" /\ UNCHANGED tree
  BY <1>1, <1>3
<1>4. CASE end \notin {"finished", "errorAtOnce"} /\ UNCHANGED tree
  BY <1>1, <1>4 DEF Succeeds, PiFailure, Ends
<1>5. QED
  BY <1>2, <1>3, <1>4 DEF WorkEnds

LEMMA NextAttemptCounts ==
  ASSUME TypeOK, NEW t \in Tasks, NextAttempt(t)
  PROVE  /\ attempt'[t] >= attempt[t] /\ attempt'[t] \in Rounds
         /\ \A u \in Tasks \ {t} : attempt'[u] = attempt[u]
         /\ pc'[t] \in {"fix", "failed"}
BY AttemptIsRound DEF TypeOK, NextAttempt, Goto, Rounds

LEMMA WorkInvInit == Init => WorkInv
<1> SUFFICES ASSUME Init PROVE WorkInv
  OBVIOUS
<1>1. \A t \in Tasks : \A n \in Rounds : tree[t][n] \in {"none", "whole"}
  BY DEF Init
<1>2. \A t \in Tasks : attempt[t] = 0 /\ 0 \in Rounds
  BY VerifiersAssumption DEF Init, Rounds
<1>3. Staged
  BY DEF Init, Staged, Committed
<1>4. Ahead
  BY <1>2 DEF Init, Ahead, Rounds
<1>5. Finished
  BY <1>1, <1>2 DEF Finished
<1>6. QED
  BY <1>3, <1>4, <1>5 DEF WorkInv

LEMMA WorkInvStep == IndInv /\ WorkInv /\ [Next]_vars => WorkInv'
<1> SUFFICES ASSUME IndInv, WorkInv, [Next]_vars PROVE WorkInv'
  OBVIOUS
<1>0. TypeOK /\ Placed
  BY DEF IndInv
<1>a. \A t \in Tasks : phase[t] = "ok" => pc[t] = "done"
  BY <1>0 DEF Placed
<1>b. pc \in [Tasks -> AgentPc \cup GitPc \cup {"idle", "ok", "failed", "raise", "done"}]
  BY <1>0 DEF TypeOK
<1> USE DEF WorkInv, Goto, order, repo, history
<1>1. ASSUME NEW t \in Tasks, Start(t) PROVE WorkInv'
  <2>1. /\ phase' = [phase EXCEPT ![t] = "running"] /\ phase[t] = "pending"
        /\ phase \in [Tasks -> {"pending", "running", "ok", "failed", "raised", "skipped"}]
    BY <1>0, <1>1 DEF Start, Order!Begin, Order!Move, TypeOK
  <2>2. pc[t] = "idle" /\ pc' = [pc EXCEPT ![t] = IF t \in skip THEN "ok" ELSE "agent"]
    BY <1>0, <1>1, <2>1 DEF Start, Placed
  <2>3. UNCHANGED <<tree, index, branch, refused, attempt, cutShort>>
    BY <1>1 DEF Start
  <2>4. QED
    BY <1>b, <2>1, <2>2, <2>3 DEF Staged, Committed, Ahead, Finished, AtRest, GitPc
<1>2. ASSUME NEW t \in Tasks, AgentEnds(t) PROVE WorkInv'
  <2>1. PICK end \in Ends : /\ WorkEnds(t, end)
                            /\ Goto(t, IF Succeeds(end) THEN "status" ELSE "failed")
    BY <1>2 DEF AgentEnds
  <2>2. pc[t] = "agent" /\ UNCHANGED <<phase, index, branch, refused, attempt>>
    BY <1>2 DEF AgentEnds
  <2>3. Staged'
    BY <1>0, <1>a, <1>b, <2>1, <2>2, SuccessIsFinished DEF Staged, Committed
  <2>4. Ahead'
    BY <1>0, <2>1, <2>2, SuccessIsFinished DEF Ahead, TypeOK, Rounds
  <2>5. Finished'
    BY <1>0, <1>a, <1>b, <2>1, <2>2, SuccessIsFinished DEF Finished, AtRest, GitPc
  <2>6. QED
    BY <2>3, <2>4, <2>5
<1>3. ASSUME NEW t \in Tasks, FixEnds(t) PROVE WorkInv'
  <2>1. PICK end \in Ends :
          /\ WorkEnds(t, end)
          /\ IF Succeeds(end) THEN Goto(t, "status") /\ UNCHANGED attempt ELSE NextAttempt(t)
    BY <1>3 DEF FixEnds
  <2>2. pc[t] = "fix" /\ UNCHANGED <<phase, index, branch, refused>>
    BY <1>3 DEF FixEnds
  <2>3. \A u \in Tasks \ {t} : pc'[u] = pc[u] /\ attempt'[u] = attempt[u]
    BY <1>b, <2>1, NextAttemptCounts, <1>0 DEF NextAttempt
  <2>4. /\ attempt'[t] >= attempt[t]
        /\ pc'[t] = "status" => Succeeds(end) /\ attempt'[t] = attempt[t]
        /\ pc'[t] \in {"status", "fix", "failed"}
    BY <1>0, <1>b, <2>1, NextAttemptCounts DEF TypeOK, Rounds
  <2>5. Staged'
    BY <1>0, <1>a, <2>1, <2>2, <2>3, <2>4, SuccessIsFinished DEF Staged, Committed
  <2>6. Ahead'
    <3> SUFFICES ASSUME NEW u \in Tasks, NEW n \in Rounds, n > attempt'[u]
                 PROVE  tree'[u][n] = "none"
      BY DEF Ahead
    <3>1. n > attempt[u] /\ n # attempt[u]
      BY <1>0, <2>1, <2>3, <2>4, NextAttemptCounts DEF TypeOK, Rounds
    <3>2. QED
      BY <1>0, <2>1, <3>1, SuccessIsFinished DEF Ahead
  <2>7. Finished'
    BY <1>0, <1>a, <2>1, <2>2, <2>3, <2>4, SuccessIsFinished DEF Finished, AtRest, GitPc
  <2>8. QED
    BY <2>5, <2>6, <2>7
<1>4. ASSUME NEW t \in Tasks, VerificationEnds(t) PROVE WorkInv'
  <2>1. t \in Verifiers /\ pc[t] \in {"agent", "verify"}
        /\ UNCHANGED <<phase, tree, index, branch, refused, cutShort>>
    BY <1>4 DEF VerificationEnds
  <2>2. \/ NextAttempt(t)
        \/ UNCHANGED attempt /\ \E place \in {"failed", "raise", "status"} : Goto(t, place)
    BY <1>4 DEF VerificationEnds
  <2>3. \A u \in Tasks \ {t} : pc'[u] = pc[u] /\ attempt'[u] = attempt[u]
    BY <1>0, <1>b, <2>2, NextAttemptCounts DEF NextAttempt
  <2>4. /\ attempt'[t] >= attempt[t]
        /\ pc'[t] = "status" => attempt'[t] = attempt[t]
        /\ pc'[t] \in {"status", "fix", "failed", "raise"}
    BY <1>0, <1>b, <2>2, NextAttemptCounts DEF TypeOK, Rounds
  <2>5. Staged'
    BY <1>a, <2>1, <2>3, <2>4 DEF Staged, Committed
  <2>6. Ahead'
    <3> SUFFICES ASSUME NEW u \in Tasks, NEW n \in Rounds, n > attempt'[u]
                 PROVE  tree'[u][n] = "none"
      BY DEF Ahead
    <3>1. n > attempt[u]
      BY <1>0, <2>2, <2>3, <2>4, NextAttemptCounts DEF TypeOK, Rounds
    <3>2. QED
      BY <2>1, <3>1 DEF Ahead
  <2>7. Finished'
    BY <1>a, <2>1, <2>3, <2>4 DEF Finished, AtRest, GitPc
  <2>8. QED
    BY <2>5, <2>6, <2>7
<1>5. ASSUME NEW t \in Tasks, Status(t) PROVE WorkInv'
  <2>1. pc[t] = "status" /\ UNCHANGED <<phase, attempt, tree, index, branch, refused, cutShort>>
    BY <1>5 DEF Status
  <2>2. /\ pc' = [pc EXCEPT ![t] = pc'[t]]
        /\ pc'[t] \in {"add", "verify", "ok"}
        /\ pc'[t] = "add" \/ (tree = index /\ index = branch)
    BY <1>5, <1>b DEF Status, AfterCommit, Changed
  <2>3. QED
    BY <1>a, <1>b, <2>1, <2>2 DEF Staged, Committed, Ahead, Finished, AtRest, GitPc
<1>6. ASSUME NEW t \in Tasks, AddStarts(t) PROVE WorkInv'
  <2>1. pc[t] = "add" /\ UNCHANGED <<phase, attempt, tree, index, branch, cutShort>>
    BY <1>6 DEF AddStarts, TakeIndex
  <2>2. /\ pc' = [pc EXCEPT ![t] = pc'[t]]
        /\ pc'[t] \in {"adding", "verify", "ok"}
        /\ refused \subseteq refused'
        /\ pc'[t] = "adding" \/ t \in refused'
    BY <1>6, <1>b DEF AddStarts, TakeIndex, AfterCommit
  <2>3. QED
    BY <1>a, <1>b, <2>1, <2>2 DEF Staged, Committed, Ahead, Finished, AtRest, GitPc
<1>7. ASSUME NEW t \in Tasks, AddEnds(t) PROVE WorkInv'
  <2>1. /\ pc[t] = "adding" /\ pc' = [pc EXCEPT ![t] = "commit"] /\ index' = tree
        /\ UNCHANGED <<phase, attempt, tree, branch, refused, cutShort>>
    BY <1>7 DEF AddEnds
  <2>2. QED
    BY <1>a, <1>b, <2>1 DEF Staged, Committed, Ahead, Finished, AtRest, GitPc
<1>8. ASSUME NEW t \in Tasks, CommitStarts(t) PROVE WorkInv'
  <2>1. pc[t] = "commit" /\ UNCHANGED <<phase, attempt, tree, index, branch, cutShort>>
    BY <1>8 DEF CommitStarts, TakeIndex
  <2>2. /\ pc' = [pc EXCEPT ![t] = pc'[t]]
        /\ pc'[t] \in {"committing", "verify", "ok"}
        /\ refused \subseteq refused'
        /\ pc'[t] = "committing" \/ t \in refused'
    BY <1>8, <1>b DEF CommitStarts, TakeIndex, AfterCommit
  <2>3. QED
    BY <1>a, <1>b, <2>1, <2>2 DEF Staged, Committed, Ahead, Finished, AtRest, GitPc
<1>9. ASSUME NEW t \in Tasks, CommitEnds(t) PROVE WorkInv'
  <2>1. /\ pc[t] = "committing"
        /\ UNCHANGED <<phase, attempt, tree, index, cutShort>>
    BY <1>9 DEF CommitEnds
  <2>2. pc' = [pc EXCEPT ![t] = pc'[t]] /\ pc'[t] \in {"verify", "ok"}
    BY <1>9, <1>b DEF CommitEnds, AfterCommit
  <2>3. CASE branch' = index /\ UNCHANGED refused
    BY <1>a, <1>b, <2>1, <2>2, <2>3 DEF Staged, Committed, Ahead, Finished, AtRest, GitPc
  <2>4. CASE refused' = refused \cup {t} /\ UNCHANGED branch
    BY <1>a, <1>b, <2>1, <2>2, <2>4 DEF Staged, Committed, Ahead, Finished, AtRest, GitPc
  <2>5. QED
    BY <1>9, <2>3, <2>4 DEF CommitEnds
<1>10. ASSUME NEW t \in Tasks, Report(t) PROVE WorkInv'
  <2>1. /\ pc[t] \in {"ok", "failed"} /\ pc' = [pc EXCEPT ![t] = "done"]
        /\ phase' = [phase EXCEPT ![t] = pc[t]]
        /\ UNCHANGED <<attempt, tree, index, branch, refused, cutShort>>
    BY <1>10 DEF Report, Order!Move
  <2>2. phase \in [Tasks -> {"pending", "running", "ok", "failed", "raised", "skipped"}]
    BY <1>0 DEF TypeOK
  <2>3. QED
    BY <1>b, <2>1, <2>2 DEF Staged, Committed, Ahead, Finished, AtRest, GitPc
<1>11. ASSUME NEW t \in Tasks, Raise(t) PROVE WorkInv'
  <2>1. /\ pc' = [pc EXCEPT ![t] = "done"] /\ phase' = [phase EXCEPT ![t] = "raised"]
        /\ UNCHANGED <<attempt, tree, index, branch, refused, cutShort>>
    BY <1>11 DEF Raise, Order!Move
  <2>2. phase \in [Tasks -> {"pending", "running", "ok", "failed", "raised", "skipped"}]
    BY <1>0 DEF TypeOK
  <2>3. QED
    BY <1>b, <2>1, <2>2 DEF Staged, Committed, Ahead, Finished, AtRest, GitPc
<1>12. ASSUME NEW t \in Tasks, Write(t) PROVE WorkInv'
  <2>1. Work(t, "half") /\ Writing(t)
        /\ UNCHANGED <<phase, pc, attempt, index, branch, refused, cutShort>>
    BY <1>12 DEF Write
  <2>2. /\ \A u \in Tasks \ {t} : tree'[u] = tree[u]
        /\ \A n \in Rounds \ {attempt[t]} : tree'[t][n] = tree[t][n]
    BY <1>0, <2>1, WorkChanges DEF Progress
  <2>3. ~AtRest(t) /\ pc[t] \notin {"commit", "committing"}
    BY <1>a, <2>1 DEF Writing, AtRest, GitPc
  <2>4. Staged'
    BY <2>1, <2>2, <2>3 DEF Staged, Committed, AtRest
  <2>5. Ahead'
    BY <1>0, <2>1, <2>2 DEF Ahead, TypeOK, Rounds
  <2>6. Finished'
    BY <2>1, <2>2, <2>3 DEF Finished, AtRest
  <2>7. QED
    BY <2>4, <2>5, <2>6
<1>13. ASSUME Scheduler PROVE WorkInv'
  <2>1. /\ \A t \in Tasks : phase'[t] = "ok" => phase[t] = "ok"
        /\ UNCHANGED <<pc, attempt, tree, index, branch, refused, cutShort>>
    BY <1>0, <1>13 DEF Scheduler, Order!Skip, Order!Return, Order!Raise, Order!Move, TypeOK
  <2>2. QED
    BY <2>1 DEF Staged, Committed, Ahead, Finished, AtRest
<1>14. CASE UNCHANGED vars
  BY <1>14 DEF vars, Staged, Committed, Ahead, Finished, AtRest
<1>15. QED
  BY <1>1, <1>2, <1>3, <1>4, <1>5, <1>6, <1>7, <1>8, <1>9, <1>10, <1>11, <1>12, <1>13, <1>14 DEF Next, TaskStep

\* What a task has done is in the branch and not half done when the task is
\* reported a success, for any plan and any timing of the commands that share
\* the index; but for the tasks that git refused or whose agent was cut short.
THEOREM ReportsAreCommitted == Spec => []ReportedIsCommitted
<1>1. Init => IndInv /\ WorkInv
  BY InitEstablishes, WorkInvInit
<1>2. IndInv /\ WorkInv /\ [Next]_vars => (IndInv /\ WorkInv)'
  BY StepPreserves, WorkInvStep
<1>3. IndInv /\ WorkInv => ReportedIsCommitted
  BY DEF WorkInv, Staged, Committed, Finished, AtRest, ReportedIsCommitted
<1>4. QED
  BY <1>1, <1>2, <1>3, PTL DEF Spec

\* What an agent starts from: the work of the tasks that its task depends on.
BuildsOnCommitted ==
  \A t \in Tasks : phase[t] = "running" =>
    \A d \in (Order!Deps(t) \cap Tasks) \ refused :
      /\ branch[d] = tree[d]
      /\ d \in cutShort \/ branch[d][attempt[d]] # "half"

\* All the time that a task runs, the work of its dependencies is finished and
\* committed, so that nothing in the directory that it may build on is still
\* changing, though others write and stage next to it; with the exceptions of
\* ReportedIsCommitted.
THEOREM AgentsBuildOnCommitted == Spec => []BuildsOnCommitted
<1>1. IndInv /\ ReportedIsCommitted => BuildsOnCommitted
  <2> SUFFICES ASSUME IndInv, ReportedIsCommitted, NEW t \in Tasks, phase[t] = "running",
                      NEW d \in (Order!Deps(t) \cap Tasks) \ refused
               PROVE  /\ branch[d] = tree[d]
                      /\ d \in cutShort \/ branch[d][attempt[d]] # "half"
    BY DEF BuildsOnCommitted
  <2>1. pc[t] # "idle"
    BY DEF IndInv, Placed
  <2>2. phase[d] = "ok"
    BY <2>1 DEF IndInv, Started
  <2>3. QED
    BY <2>2 DEF ReportedIsCommitted
<1>2. Spec => []IndInv
  BY InitEstablishes, StepPreserves, PTL DEF Spec
<1>3. QED
  BY <1>1, <1>2, ReportsAreCommitted, PTL
==============================================================================
