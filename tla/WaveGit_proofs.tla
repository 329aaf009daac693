--------------------------- MODULE WaveGit_proofs ---------------------------
(***************************************************************************)
(* Theorems about WaveGit for any plan, any number of executions and any   *)
(* requests.  TypeOK and IntegrationSeesAll hold for all of them, the      *)
(* other properties if no execution but the latest is continued: with      *)
(* OlderToo, TLC finds states in which they are false.                     *)
(*                                                                         *)
(* BaseInv says what is at hand in each phase: which branches are there,   *)
(* how far the tasks are and what has been recorded.  Placed follows the   *)
(* output of a task of this execution from its own branch to that of its   *)
(* feature and to the work branch, and Unmerged tells up to which step it  *)
(* may still be on the second.  CodeInv says where the code of earlier     *)
(* executions is.  Its Skipped does for the tasks that are skipped what    *)
(* Placed does for the others: the recovery has to bring them in before a  *)
(* task runs.  Own says that a branch has nothing of another feature that  *)
(* is not merged, which is why it is enough to drop from the skip set the  *)
(* tasks of the feature whose branch conflicts.  Latest ties the SHA that  *)
(* a continuation resets the work branch to with the work branch; it is    *)
(* the part that OlderToo breaks.                                          *)
(***************************************************************************)
EXTENDS WaveGit, TLAPS

\* Commits of the executions so far.
Made == Tasks \X (1 .. now)

\* TypeOK, with every commit dated.
Types ==
  /\ parallel \subseteq Features
  /\ status \in [Executions -> {"none", "running", "completed", "failed",
                                "cancelled", "past"}]
  /\ now \in 0 .. MaxExecutions
  /\ phase \in Phases
  /\ todo \subseteq Features \cup FeatureTasks
  /\ isolated \subseteq Features
  /\ outcome \in [Tasks -> {"todo", "committed", "ok", "failed"}]
  /\ conflicting \subseteq isolated
  /\ skip \subseteq Tasks \cup {Merge}
  /\ done \in [Executions -> SUBSET (Tasks \cup {Merge})]
  /\ tip \subseteq Made
  /\ shaAfter \in [Executions -> (SUBSET Made) \cup {Gone}]
  /\ ref \in [Features -> (SUBSET Made) \cup {Gone}]
  /\ sub \in [FeatureTasks -> (SUBSET Made) \cup {Gone}]
  /\ registered \in [Features -> {"no", "live", "stale"}]
  /\ deleted \subseteq Tasks

\* What each phase has at hand: branches that are there, and nothing left over
\* from another phase.
AtHand ==
  /\ phase \notin {"recover", "isolate", "merge"} => todo = {}
  /\ phase \in {"idle", "recover", "foundation"} => isolated = {}
  /\ phase \notin {"merge", "resolve", "verdict", "integration"} =>
       conflicting = {}
  /\ phase = "recover" => todo \subseteq Refs \cup Subs
  /\ phase = "isolate" => todo \subseteq Features
  /\ phase \in {"isolate", "features"} => isolated \subseteq Refs
  /\ phase = "merge" => todo \subseteq isolated /\ todo \subseteq Refs
  /\ phase \in {"merge", "resolve"} => conflicting \subseteq Refs \ todo

\* What has been recorded of executions, and what not yet.
Recorded ==
  /\ phase # "idle" =>
       now # 0 /\ status[now] = "running" /\ shaAfter[now] = Gone
  /\ phase = "recover" => done[now] = {}
  /\ \A e \in Executions :
       e > now => done[e] = {} /\ shaAfter[e] = Gone /\ status[e] = "none"

\* How far the tasks are.
Progress ==
  /\ phase \in {"idle", "recover"} => All(Tasks, {"todo"})
  /\ \A t \in Tasks : outcome[t] = "committed" => phase = Section(t)
  /\ phase \notin {"idle", "recover", "foundation"} => All(Foundation, {"ok"})
  /\ phase = "integration" => All(FeatureTasks, {"ok"})

\* A branch of a task that has a commit of this execution belongs to a feature
\* with a worktree.
Forked ==
  \A t \in Subs :
    <<t, now>> \in sub[t] =>
      phase = "idle" \/ (phase # "recover" /\ FeatureOf[t] \in isolated)

BaseInv == Types /\ AtHand /\ Recorded /\ Progress /\ Forked

\* The work branch ends where its last execution left it.
Latest ==
  /\ phase = "idle" /\ now # 0 => shaAfter[now] \in {Gone, tip}
  /\ \A e \in Executions :
       status[e] = "completed" => e = now /\ phase = "idle" /\ shaAfter[e] = tip

\* A branch has nothing of other features that is not merged.
Own ==
  /\ \A f \in Refs : TasksIn(ref[f]) \subseteq TasksIn(tip) \cup TasksOf(f)
  /\ \A t \in Subs :
       TasksIn(sub[t]) \subseteq TasksIn(tip) \cup TasksOf(FeatureOf[t])

\* Where the code of this execution is.
Unmerged(f) ==
  /\ f \in isolated
  /\ \/ phase \in {"isolate", "features"}
     \/ f \in todo
     \/ phase \in {"merge", "resolve"} /\ f \in conflicting
     \/ ~Passed(f)
Placed ==
  \A t \in Tasks \ skip : outcome[t] \in {"committed", "ok"} =>
    \/ <<t, now>> \in tip
    \/ t \in Subs /\ <<t, now>> \in sub[t]
    \/ /\ t \in FeatureTasks /\ Unmerged(FeatureOf[t])
       /\ FeatureOf[t] \in Refs /\ <<t, now>> \in ref[FeatureOf[t]]

\* Where the code of a task that is skipped is: on the work branch, or on a
\* feature's branch that the recovery has not got to, or on a branch of a task
\* that has nothing of this execution.
KeptSubs == {u \in Subs : <<u, now>> \notin sub[u]}
KeptRefs == {g \in Refs : phase = "recover" /\ g \in todo}
Skipped ==
  phase # "idle" => \A t \in skip \cap Tasks :
    \/ t \in TasksIn(tip) \cup deleted
    \/ \E u \in KeptSubs : t \in TasksIn(sub[u])
    \/ \E g \in KeptRefs : t \in TasksIn(ref[g])

\* ReportedIsReachable, task by task.
Reachable(t) ==
  \/ t \in TasksIn(tip) \cup deleted
  \/ \E u \in Subs : t \in TasksIn(sub[u])
  \/ \E g \in Refs : t \in TasksIn(ref[g])
Reported == now # 0 => \A t \in done[now] \cap Tasks : Reachable(t)

CodeInv == Latest /\ Own /\ Skipped /\ Reported

-----------------------------------------------------------------------------
PlanHolds ==
  /\ \A f \in Features : TasksOf(f) \subseteq FeatureTasks
  /\ \A t \in FeatureTasks :
       FeatureOf[t] \in Features /\ t \in TasksOf(FeatureOf[t])
  /\ \A f \in Features : \A t \in TasksOf(f) : FeatureOf[t] = f
  /\ FeatureTasks \subseteq Tasks /\ Foundation \subseteq Tasks
  /\ Integration \subseteq Tasks
  /\ Features \cap FeatureTasks = {} /\ Merge \notin Tasks
  /\ \A t \in Tasks :
       /\ t \in Foundation <=> Section(t) = "foundation"
       /\ t \in FeatureTasks <=> Section(t) = "features"
       /\ t \in Integration <=> Section(t) = "integration"
       /\ Section(t) \in {"foundation", "features", "integration"}
  /\ MaxExecutions \in Nat /\ Executions = 1 .. MaxExecutions

\* What the assumption says of the tasks.
LEMMA PlanFacts == PlanHolds
<1>1. \A f \in Features : TasksOf(f) \subseteq FeatureTasks
  BY DEF FeatureTasks
<1>2. \A t \in FeatureTasks :
        FeatureOf[t] \in Features /\ t \in TasksOf(FeatureOf[t])
  <2> TAKE t \in FeatureTasks
  <2>1. \E f \in Features : t \in TasksOf(f)
    BY DEF FeatureTasks
  <2>2. QED
    BY <2>1 DEF FeatureOf
<1>3. \A f \in Features : \A t \in TasksOf(f) : FeatureOf[t] = f
  BY <1>1, <1>2, LayoutAssumption
<1>4. /\ FeatureTasks \subseteq Tasks /\ Foundation \subseteq Tasks
      /\ Integration \subseteq Tasks
  BY DEF Tasks
<1>5. \A t \in Tasks :
       /\ t \in Foundation <=> Section(t) = "foundation"
       /\ t \in FeatureTasks <=> Section(t) = "features"
       /\ t \in Integration <=> Section(t) = "integration"
       /\ Section(t) \in {"foundation", "features", "integration"}
  BY LayoutAssumption DEF Tasks, Section
<1>6. QED
  BY <1>1, <1>2, <1>3, <1>4, <1>5, LayoutAssumption DEF PlanHolds, Executions

\* No set of commits is the mark of a branch that is not there.
LEMMA NotMade == \A S \in SUBSET Made : S # Gone
<1>1. <<"gone", 0>> \in Gone /\ <<"gone", 0>> \notin Made
  BY DEF Gone, Made
<1>2. QED
  BY <1>1

\* A branch that is there is a set of commits.
LEMMA SetsOfCommits ==
  ASSUME Types
  PROVE  /\ \A f \in Refs : ref[f] \in SUBSET Made
         /\ \A t \in Subs : sub[t] \in SUBSET Made
BY DEF Types, Refs, Subs

-----------------------------------------------------------------------------
\* BaseInv, step by step.  An execution can end with any result, wherever the
\* work branch is left.
LEMMA EndKeepsBase ==
  ASSUME BaseInv, phase # "idle",
         NEW result \in {"completed", "failed", "cancelled"}, End(result),
         tip' \in SUBSET Made,
         shaAfter' = shaAfter
           \/ (\E head \in SUBSET Made :
                 shaAfter' = [shaAfter EXCEPT ![now] = head]),
         done' = done \/ done' = [done EXCEPT ![now] = @ \cup {Merge}],
         ref' \in [Features -> (SUBSET Made) \cup {Gone}],
         sub' \in [FeatureTasks -> (SUBSET Made) \cup {Gone}],
         registered' \in [Features -> {"no", "live", "stale"}],
         deleted' \subseteq Tasks
  PROVE  BaseInv'
<1> USE PlanFacts DEF BaseInv, PlanHolds
<1>0. now' = now /\ Made' = Made /\ now \in Executions /\ now # 0
  BY DEF End, Made, Types, Recorded
<1>1. Types'
  <2>1. status' \in [Executions -> {"none", "running", "completed", "failed",
                                    "cancelled", "past"}]
    BY DEF End, Types
  <2>2. shaAfter' \in [Executions -> (SUBSET Made) \cup {Gone}]
    <3>1. shaAfter \in [Executions -> (SUBSET Made) \cup {Gone}]
      BY DEF Types
    <3>2. ASSUME NEW head \in SUBSET Made,
                 shaAfter' = [shaAfter EXCEPT ![now] = head]
          PROVE  shaAfter' \in [Executions -> (SUBSET Made) \cup {Gone}]
      BY <3>1, <3>2
    <3>3. QED
      BY <3>1, <3>2
  <2>3. done' \in [Executions -> SUBSET (Tasks \cup {Merge})]
    <3>1. done \in [Executions -> SUBSET (Tasks \cup {Merge})]
      BY DEF Types
    <3>2. CASE done' = [done EXCEPT ![now] = @ \cup {Merge}]
      BY <1>0, <3>1, <3>2
    <3>3. QED
      BY <3>1, <3>2
  <2>4. QED
    BY <1>0, <2>1, <2>2, <2>3 DEF End, Types, Phases
<1>2. AtHand'
  BY DEF End, AtHand
<1>3. Recorded'
  <2>1. \A e \in Executions : e # now =>
          /\ status'[e] = status[e] /\ shaAfter'[e] = shaAfter[e]
          /\ done'[e] = done[e]
    <3>1. \A e \in Executions : e # now => status'[e] = status[e]
      BY DEF End, Types
    <3>2. \A e \in Executions : e # now => shaAfter'[e] = shaAfter[e]
      BY DEF Types
    <3>3. \A e \in Executions : e # now => done'[e] = done[e]
      <4>1. done \in [Executions -> SUBSET (Tasks \cup {Merge})]
        BY DEF Types
      <4>2. CASE done' = [done EXCEPT ![now] = @ \cup {Merge}]
        BY <1>0, <4>1, <4>2
      <4>3. QED
        BY <4>2
    <3>4. QED
      BY <3>1, <3>2, <3>3
  <2>2. QED
    BY <1>0, <2>1 DEF End, Recorded, Executions, Types
<1>4. Progress'
  BY DEF End, Progress, All
<1>5. Forked'
  BY DEF End, Forked
<1>6. QED
  BY <1>1, <1>2, <1>3, <1>4, <1>5

LEMMA StartKeepsBase ==
  ASSUME BaseInv, NEW p \in 0 .. now, NEW dirty, p = 0 => now = 0, Start(p, dirty)
  PROVE  BaseInv'
<1> USE PlanFacts, NotMade DEF PlanHolds, BaseInv, run, wave, record, repo,
    Refs, Subs
<1>1. Types'
  <2>1. now' = now + 1 /\ now' \in 1 .. MaxExecutions /\ Made \subseteq Made'
    BY DEF Start, Types, Made
  <2>2. /\ tip' \subseteq Made'
       /\ shaAfter' \in [Executions -> (SUBSET Made') \cup {Gone}]
    BY <2>1 DEF Start, Types
  <2>3. /\ ref' \in [Features -> (SUBSET Made') \cup {Gone}]
       /\ sub' \in [FeatureTasks -> (SUBSET Made') \cup {Gone}]
    BY <2>1 DEF Start, Types
  <2>4. /\ status' \in [Executions -> {"none", "running", "completed", "failed",
                                       "cancelled", "past"}]
       /\ done' \in [Executions -> SUBSET (Tasks \cup {Merge})]
    BY <2>1 DEF Start, Types
  <2>5. /\ skip' \subseteq Tasks \cup {Merge}
       /\ phase' \in Phases /\ todo' \subseteq Features \cup FeatureTasks
    BY <2>1 DEF Start, Types, Completed, Phases
  <2>9. QED
    BY <2>1, <2>2, <2>3, <2>4, <2>5 DEF Start, Types
<1>2. AtHand'
  BY DEF Start, AtHand, Types
<1>3. Recorded'
  <2>1. now' = now + 1 /\ now' \in 1 .. MaxExecutions
    BY DEF Start, Types
  <2>2. status'[now'] = "running" /\ shaAfter'[now'] = Gone /\ done'[now'] = {}
    BY <2>1 DEF Start, Types, Recorded, Past
  <2>3. \A e \in Executions : e > now' =>
          done'[e] = {} /\ shaAfter'[e] = Gone /\ status'[e] = "none"
    BY <2>1 DEF Start, Types, Recorded, Past
  <2>9. QED
    BY <2>1, <2>2, <2>3 DEF Recorded
<1>4. Progress'
  BY DEF Start, Progress, All, Types
<1>5. Forked'
  <2>1. now' = now + 1 /\ now \in Nat
    BY DEF Start, Types
  <2>2. \A t \in Subs : sub[t] \in SUBSET Made
    BY DEF Types
  <2>3. \A t \in Subs : <<t, now'>> \notin sub[t]
    BY <2>1, <2>2 DEF Made
  <2>9. QED
    BY <2>1, <2>2, <2>3 DEF Start, Forked
<1>9. QED
  BY <1>1, <1>2, <1>3, <1>4, <1>5 DEF BaseInv

LEMMA RecoverKeepsBase ==
  ASSUME BaseInv, NEW x \in Features \cup FeatureTasks, Recover(x)
  PROVE  BaseInv'
<1> USE PlanFacts, NotMade DEF PlanHolds, BaseInv, run, wave, record, repo,
    Refs, Subs
<1>0. now' = now /\ Made' = Made
  BY DEF Made, Recover, First, MayConflict
<1>1. Types'
  <2>1. tip' \subseteq Made
    BY <1>0 DEF Recover, Types, AtHand, First
  <2>2. skip' \subseteq Tasks \cup {Merge}
    BY <1>0 DEF Recover, Types
  <2>9. QED
    BY <1>0, <2>1, <2>2 DEF Recover, Types
<1>2. AtHand'
  BY <1>0 DEF Recover, First, MayConflict, AtHand, Types
<1>3. Recorded'
  BY <1>0 DEF Recover, First, MayConflict, Recorded, Types, AtHand
<1>4. Progress'
  BY <1>0 DEF Recover, First, MayConflict, Progress, All, Types
<1>5. Forked'
  BY <1>0 DEF Recover, First, MayConflict, Forked, Subs, Types, AtHand,
     Recorded, Progress
<1>9. QED
  BY <1>1, <1>2, <1>3, <1>4, <1>5 DEF BaseInv

LEMMA RecoveredKeepsBase ==
  ASSUME BaseInv, Recovered
  PROVE  BaseInv'
<1> USE PlanFacts, NotMade DEF PlanHolds, BaseInv, run, wave, record, repo,
    Refs, Subs
<1>0. now' = now /\ Made' = Made
  BY DEF Made, Recovered
<1>1. Types'
  BY <1>0 DEF Recovered, Types, AtHand, Recorded, Phases
<1>2. AtHand'
  BY <1>0 DEF Recovered, AtHand, Types
<1>3. Recorded'
  BY <1>0 DEF Recovered, Recorded, Types, AtHand
<1>4. Progress'
  BY <1>0 DEF Recovered, Progress, All, Types
<1>5. Forked'
  BY <1>0 DEF Recovered, Forked, Subs, Types, AtHand, Recorded, Progress
<1>9. QED
  BY <1>1, <1>2, <1>3, <1>4, <1>5 DEF BaseInv

LEMMA CommitKeepsBase ==
  ASSUME BaseInv, NEW t \in Tasks, Commit(t)
  PROVE  BaseInv'
<1> USE PlanFacts, NotMade DEF PlanHolds, BaseInv, run, wave, record, repo,
    Refs, Subs
<1>0. now' = now /\ Made' = Made
  BY DEF Made, Commit, Ready, OnSub
<1>1. Types'
  <2>1. now \in 1 .. MaxExecutions /\ <<t, now>> \in Made
    BY DEF Commit, Ready, Types, Recorded, AtHand, Made
  <2>2. outcome' \in [Tasks -> {"todo", "committed", "ok", "failed"}]
    BY DEF Commit, Types
  <2>3. tip' \in SUBSET Made /\ ref' \in [Features -> (SUBSET Made) \cup {Gone}]
        /\ sub' \in [FeatureTasks -> (SUBSET Made) \cup {Gone}]
    <3>1. CASE t \notin FeatureTasks \/ FeatureOf[t] \notin isolated
      <4>1. tip \cup {<<t, now>>} \in SUBSET Made
        BY <2>1 DEF Types
      <4>2. tip' = tip \cup {<<t, now>>} /\ UNCHANGED <<ref, sub>>
        BY <3>1 DEF Commit
      <4>3. QED
        BY <4>1, <4>2 DEF Types
    <3>2. CASE t \in FeatureTasks /\ FeatureOf[t] \in isolated
      <4>1. FeatureOf[t] \in Features /\ ref[FeatureOf[t]] \in SUBSET Made
        BY <3>2 DEF Commit, Ready, Types, AtHand
      <4>2. ref[FeatureOf[t]] \cup {<<t, now>>} \in SUBSET Made
        BY <2>1, <4>1
      <4> DEFINE S == ref[FeatureOf[t]] \cup {<<t, now>>}
      <4>3. \/ sub' = [sub EXCEPT ![t] = S] /\ tip' = tip /\ ref' = ref
            \/ ref' = [ref EXCEPT ![FeatureOf[t]] = S] /\ tip' = tip /\ sub' = sub
        BY <3>2 DEF Commit
      <4>4. S \in (SUBSET Made) \cup {Gone}
        BY <4>2
      <4> HIDE DEF S
      <4>5. CASE sub' = [sub EXCEPT ![t] = S] /\ tip' = tip /\ ref' = ref
        BY <4>4, <4>5 DEF Types
      <4>6. CASE ref' = [ref EXCEPT ![FeatureOf[t]] = S] /\ tip' = tip /\ sub' = sub
        BY <4>4, <4>6 DEF Types
      <4>7. QED
        BY <4>3, <4>5, <4>6
    <3>3. QED
      BY <3>1, <3>2
  <2>4. QED
    BY <1>0, <2>2, <2>3 DEF Commit, Types
<1>2. AtHand'
  <2>1. now \in Executions
    BY DEF Commit, Ready, Types, Recorded, AtHand
  <2>2. \A f \in Refs : f \in Refs'
    <3>1. CASE t \in FeatureTasks /\ FeatureOf[t] \in isolated
      <4>1. /\ FeatureOf[t] \in Features /\ ref[FeatureOf[t]] \in SUBSET Made
            /\ <<t, now>> \in Made
        BY <2>1, <3>1 DEF Commit, Ready, Types, AtHand, Made
      <4>2. ref[FeatureOf[t]] \cup {<<t, now>>} \in SUBSET Made
        BY <4>1
      <4>3. QED
        BY <3>1, <4>1, <4>2 DEF Commit, Types
    <3>2. CASE ~(t \in FeatureTasks /\ FeatureOf[t] \in isolated)
      BY <3>2 DEF Commit
    <3>3. QED
      BY <3>1, <3>2
  <2>3. /\ todo' = todo /\ phase' = phase /\ isolated' = isolated
        /\ conflicting' = conflicting /\ phase # "recover"
    BY DEF Commit, Ready, Section
  <2>4. QED
    BY <2>2, <2>3 DEF AtHand
<1>3. Recorded'
  BY <1>0 DEF Commit, Ready, OnSub, Recorded, Types, AtHand
<1>4. Progress'
  BY <1>0 DEF Commit, Ready, OnSub, Progress, All, Types
<1>5. Forked'
  BY <1>0 DEF Commit, Ready, OnSub, Forked, Subs, Types, AtHand, Recorded,
     Progress
<1>9. QED
  BY <1>1, <1>2, <1>3, <1>4, <1>5 DEF BaseInv

LEMMA ReportKeepsBase ==
  ASSUME BaseInv, NEW t \in Tasks, Report(t)
  PROVE  BaseInv'
<1> USE PlanFacts, NotMade DEF PlanHolds, BaseInv, run, wave, record, repo,
    Refs, Subs
<1>0. now' = now /\ Made' = Made
  BY DEF Made, Report, Ready, Join, KeptSub
<1>1. Types'
  <2>1. phase # "idle" /\ now \in Executions
    BY DEF Report, Ready, Types, Recorded, Progress
  <2>2. done' \in [Executions -> SUBSET (Tasks \cup {Merge})]
    BY <2>1 DEF Report, Types
  <2>3. /\ ref' \in [Features -> (SUBSET Made) \cup {Gone}]
        /\ sub' \in [FeatureTasks -> (SUBSET Made) \cup {Gone}]
    <3>1. CASE t \in Subs /\ <<t, now>> \in sub[t]
      <4>1. /\ t \in FeatureTasks /\ FeatureOf[t] \in Features
            /\ ref[FeatureOf[t]] \in SUBSET Made /\ sub[t] \in SUBSET Made
        BY <3>1 DEF Report, Ready, Types, Forked, Progress, AtHand
      <4>2. ref[FeatureOf[t]] \cup sub[t] \in SUBSET Made
        BY <4>1
      <4>3. Join(t)
        BY <3>1 DEF Report
      <4>4. \/ /\ ref' = [ref EXCEPT ![FeatureOf[t]] = ref[FeatureOf[t]] \cup sub[t]]
               /\ sub' = [sub EXCEPT ![t] = Gone]
            \/ ref' = ref /\ sub' = [sub EXCEPT ![t] = sub[t]]
        BY <4>3 DEF Join, KeptSub
      <4>5. /\ ref \in [Features -> (SUBSET Made) \cup {Gone}]
            /\ sub \in [FeatureTasks -> (SUBSET Made) \cup {Gone}]
        BY DEF Types
      <4>6. CASE /\ ref' = [ref EXCEPT ![FeatureOf[t]] = ref[FeatureOf[t]] \cup sub[t]]
                 /\ sub' = [sub EXCEPT ![t] = Gone]
        BY <4>1, <4>2, <4>5, <4>6
      <4>7. CASE ref' = ref /\ sub' = [sub EXCEPT ![t] = sub[t]]
        BY <4>1, <4>5, <4>7
      <4>8. QED
        BY <4>4, <4>6, <4>7
    <3>2. CASE ~(t \in Subs /\ <<t, now>> \in sub[t])
      BY <3>2 DEF Report, Types
    <3>3. QED
      BY <3>1, <3>2
  <2>4. outcome' \in [Tasks -> {"todo", "committed", "ok", "failed"}]
    BY DEF Report, Types
  <2>9. QED
    BY <1>0, <2>2, <2>3, <2>4 DEF Report, Types
<1>2. AtHand'
  <2>1. /\ phase # "recover" /\ todo' = todo /\ phase' = phase
        /\ isolated' = isolated /\ conflicting' = conflicting
    BY DEF Report, Ready, Progress
  <2>2. \A f \in Refs : f \in Refs'
    <3>1. CASE t \in Subs /\ <<t, now>> \in sub[t]
      <4>1. /\ t \in FeatureTasks /\ FeatureOf[t] \in Features
            /\ ref[FeatureOf[t]] \in SUBSET Made /\ sub[t] \in SUBSET Made
        BY <3>1 DEF Report, Ready, Types, Forked, Progress, AtHand
      <4>2. ref[FeatureOf[t]] \cup sub[t] \in SUBSET Made
        BY <4>1
      <4>3. Join(t)
        BY <3>1 DEF Report
      <4>4. \/ /\ ref' = [ref EXCEPT ![FeatureOf[t]] = ref[FeatureOf[t]] \cup sub[t]]
               /\ sub' = [sub EXCEPT ![t] = Gone]
            \/ ref' = ref /\ sub' = [sub EXCEPT ![t] = sub[t]]
        BY <4>3 DEF Join, KeptSub
      <4>5. /\ ref \in [Features -> (SUBSET Made) \cup {Gone}]
            /\ sub \in [FeatureTasks -> (SUBSET Made) \cup {Gone}]
        BY DEF Types
      <4>6. CASE /\ ref' = [ref EXCEPT ![FeatureOf[t]] = ref[FeatureOf[t]] \cup sub[t]]
                 /\ sub' = [sub EXCEPT ![t] = Gone]
        BY <4>1, <4>2, <4>5, <4>6
      <4>7. CASE ref' = ref /\ sub' = [sub EXCEPT ![t] = sub[t]]
        BY <4>1, <4>5, <4>7
      <4>8. QED
        BY <4>4, <4>6, <4>7
    <3>2. CASE ~(t \in Subs /\ <<t, now>> \in sub[t])
      BY <3>2 DEF Report, Types
    <3>3. QED
      BY <3>1, <3>2
  <2>3. QED
    BY <2>1, <2>2 DEF AtHand
<1>3. Recorded'
  <2>1. phase \notin {"idle", "recover"}
    BY <1>0 DEF Report, Ready, Progress
  <2>2. \A e \in Executions : e # now => done'[e] = done[e]
    BY <1>0 DEF Report, Types
  <2>3. /\ UNCHANGED <<now, status, phase, shaAfter>> /\ now \in Nat
        /\ \A e \in Executions : e > now => e # now
    BY DEF Report, Types, Executions
  <2>4. \A e \in Executions : e > now => done'[e] = {}
    BY <2>2, <2>3 DEF Recorded
  <2>5. QED
    BY <2>1, <2>3, <2>4 DEF Recorded
<1>4. Progress'
  BY <1>0 DEF Report, Ready, Join, KeptSub, Progress, All, Types
<1>5. Forked'
  BY <1>0 DEF Report, Ready, Join, KeptSub, Forked, Subs, Types, AtHand,
     Recorded, Progress
<1>9. QED
  BY <1>1, <1>2, <1>3, <1>4, <1>5 DEF BaseInv

LEMMA FailKeepsBase ==
  ASSUME BaseInv, NEW t \in Tasks, Fail(t)
  PROVE  BaseInv'
<1> USE PlanFacts, NotMade DEF PlanHolds, BaseInv, run, wave, record, repo,
    Refs, Subs
<1>0. now' = now /\ Made' = Made
  BY DEF Made, Fail, Ready
<1>1. Types'
  BY <1>0 DEF Fail, Ready, Types, AtHand, Recorded, Phases
<1>2. AtHand'
  BY <1>0 DEF Fail, Ready, AtHand, Types
<1>3. Recorded'
  BY <1>0 DEF Fail, Ready, Recorded, Types, AtHand
<1>4. Progress'
  BY <1>0 DEF Fail, Ready, Progress, All, Types
<1>5. Forked'
  BY <1>0 DEF Fail, Ready, Forked, Subs, Types, AtHand, Recorded, Progress
<1>9. QED
  BY <1>1, <1>2, <1>3, <1>4, <1>5 DEF BaseInv

LEMMA FoundedKeepsBase ==
  ASSUME BaseInv, Founded
  PROVE  BaseInv'
<1> USE PlanFacts, NotMade DEF PlanHolds, BaseInv, run, wave, record, repo,
    Refs, Subs
<1>0. now' = now /\ Made' = Made
  BY DEF Founded, EndWave, End, Made
<1>1. CASE All(Foundation, {"ok"})
  <2>1. Types' /\ AtHand'
    BY <1>0, <1>1 DEF Founded, Types, AtHand, Phases
  <2>2. Recorded' /\ Progress' /\ Forked'
    BY <1>0, <1>1 DEF Founded, Recorded, Progress, All, Forked
  <2>3. QED
    BY <2>1, <2>2
<1>2. CASE ~All(Foundation, {"ok"})
  BY <1>2, EndKeepsBase DEF Founded, EndWave, Types
<1>3. QED
  BY <1>1, <1>2

LEMMA IsolateKeepsBase ==
  ASSUME BaseInv, NEW f \in Features, Isolate(f)
  PROVE  BaseInv'
<1> USE PlanFacts, NotMade DEF PlanHolds, BaseInv, run, wave, record, repo,
    Refs, Subs
<1>0. now' = now /\ Made' = Made
  BY DEF Made, Isolate, First
<1>1. Types'
  BY <1>0 DEF Isolate, First, Types, AtHand, Recorded, Phases
<1>2. AtHand'
  <2>1. f \in Refs' /\ \A g \in Refs : g \in Refs'
    BY <1>0 DEF Isolate, Types
  <2>9. QED
    BY <1>0, <2>1 DEF Isolate, AtHand, First
<1>3. Recorded'
  BY <1>0 DEF Isolate, First, Recorded, Types, AtHand
<1>4. Progress'
  BY <1>0 DEF Isolate, First, Progress, All, Types
<1>5. Forked'
  BY <1>0 DEF Isolate, First, Forked, Subs, Types, AtHand, Recorded, Progress
<1>9. QED
  BY <1>1, <1>2, <1>3, <1>4, <1>5 DEF BaseInv

LEMMA IsolatedKeepsBase ==
  ASSUME BaseInv, Isolated
  PROVE  BaseInv'
<1> USE PlanFacts, NotMade DEF PlanHolds, BaseInv, run, wave, record, repo,
    Refs, Subs
<1>0. now' = now /\ Made' = Made
  BY DEF Made, Isolated
<1>1. Types'
  BY <1>0 DEF Isolated, Types, AtHand, Recorded, Phases
<1>2. AtHand'
  BY <1>0 DEF Isolated, AtHand, Types
<1>3. Recorded'
  BY <1>0 DEF Isolated, Recorded, Types, AtHand
<1>4. Progress'
  BY <1>0 DEF Isolated, Progress, All, Types
<1>5. Forked'
  BY <1>0 DEF Isolated, Forked, Subs, Types, AtHand, Recorded, Progress
<1>9. QED
  BY <1>1, <1>2, <1>3, <1>4, <1>5 DEF BaseInv

LEMMA FeaturesEndKeepsBase ==
  ASSUME BaseInv, FeaturesEnd
  PROVE  BaseInv'
<1> USE PlanFacts, NotMade DEF PlanHolds, BaseInv, run, wave, record, repo,
    Refs, Subs
<1>0. now' = now /\ Made' = Made
  BY DEF Made, FeaturesEnd, Branches, Ended, All
<1>1. Types'
  BY <1>0 DEF FeaturesEnd, Branches, Ended, All, Types, AtHand, Recorded, Phases
<1>2. AtHand'
  BY <1>0 DEF FeaturesEnd, Branches, Ended, All, AtHand, Types
<1>3. Recorded'
  BY <1>0 DEF FeaturesEnd, Branches, Ended, All, Recorded, Types, AtHand
<1>4. Progress'
  BY <1>0 DEF FeaturesEnd, Branches, Ended, All, Progress, All, Types
<1>5. Forked'
  BY <1>0 DEF FeaturesEnd, Branches, Ended, All, Forked, Subs, Types, AtHand,
     Recorded, Progress
<1>9. QED
  BY <1>1, <1>2, <1>3, <1>4, <1>5 DEF BaseInv

LEMMA MergeBranchKeepsBase ==
  ASSUME BaseInv, NEW f \in Features, MergeBranch(f)
  PROVE  BaseInv'
<1> USE PlanFacts, NotMade DEF PlanHolds, BaseInv, run, wave, record, repo,
    Refs, Subs
<1>0. now' = now /\ Made' = Made
  BY DEF Made, MergeBranch, First, KeptRef
<1>1. Types'
  <2>1. ref[f] \in SUBSET Made
    BY <1>0 DEF MergeBranch, First, AtHand, Types
  <2>2. tip' \subseteq Made /\ ref' \in [Features -> (SUBSET Made) \cup {Gone}]
    BY <1>0, <2>1 DEF MergeBranch, Types, KeptRef
  <2>3. conflicting' \subseteq isolated
    BY <1>0 DEF MergeBranch, First, AtHand, Types
  <2>9. QED
    BY <1>0, <2>1, <2>2, <2>3 DEF MergeBranch, Types
<1>2. AtHand'
  BY <1>0 DEF MergeBranch, First, KeptRef, AtHand, Types
<1>3. Recorded'
  BY <1>0 DEF MergeBranch, First, KeptRef, Recorded, Types, AtHand
<1>4. Progress'
  BY <1>0 DEF MergeBranch, First, KeptRef, Progress, All, Types
<1>5. Forked'
  BY <1>0 DEF MergeBranch, First, KeptRef, Forked, Subs, Types, AtHand,
     Recorded, Progress
<1>9. QED
  BY <1>1, <1>2, <1>3, <1>4, <1>5 DEF BaseInv

LEMMA MergedKeepsBase ==
  ASSUME BaseInv, Merged
  PROVE  BaseInv'
<1> USE PlanFacts, NotMade DEF PlanHolds, BaseInv, run, wave, record, repo,
    Refs, Subs
<1>0. now' = now /\ Made' = Made
  BY DEF Made, Merged
<1>1. Types'
  BY <1>0 DEF Merged, Types, AtHand, Recorded, Phases
<1>2. AtHand'
  BY <1>0 DEF Merged, AtHand, Types
<1>3. Recorded'
  BY <1>0 DEF Merged, Recorded, Types, AtHand
<1>4. Progress'
  BY <1>0 DEF Merged, Progress, All, Types
<1>5. Forked'
  BY <1>0 DEF Merged, Forked, Subs, Types, AtHand, Recorded, Progress
<1>9. QED
  BY <1>1, <1>2, <1>3, <1>4, <1>5 DEF BaseInv

\* The id of the merge task may be added to what an execution has done.
LEMMA MergeIsRecorded ==
  ASSUME now \in Executions, done \in [Executions -> SUBSET (Tasks \cup {Merge})],
         done' = done \/ done' = [done EXCEPT ![now] = @ \cup {Merge}]
  PROVE  done' \in [Executions -> SUBSET (Tasks \cup {Merge})]
  OBVIOUS

LEMMA ResolveKeepsBase ==
  ASSUME BaseInv, NEW exitCode \in {0, 1}, NEW M \in SUBSET conflicting,
         Resolve(exitCode, M)
  PROVE  BaseInv'
<1> USE PlanFacts, NotMade DEF PlanHolds, BaseInv, run, wave, record, repo,
    Refs, Subs
<1>0. now' = now /\ Made' = Made
  BY DEF Resolve, EndWave, End, Made
<1>1. tip' \in SUBSET Made
  <2>1. \A f \in M : ref[f] \in SUBSET Made
    BY DEF Resolve, Types, AtHand
  <2>2. UNION {ref[f] : f \in M} \in SUBSET Made
    BY <2>1
  <2>3. QED
    BY <2>2 DEF Resolve, Types
<1>2. ref' \in [Features -> (SUBSET Made) \cup {Gone}]
  BY DEF Resolve, Types
<1>3. done' = done \/ done' = [done EXCEPT ![now] = @ \cup {Merge}]
  BY DEF Resolve
<1>4. CASE exitCode = 0 /\ Verified(conflicting)
  <2>1. phase' = "verdict" /\ UNCHANGED <<parallel, status, now, todo, wave,
                                          shaAfter, sub, registered, deleted>>
    BY <1>4 DEF Resolve
  <2>2. done' \in [Executions -> SUBSET (Tasks \cup {Merge})]
    <3>1. now \in Executions
      BY DEF Resolve, Recorded, Types
    <3>2. done \in [Executions -> SUBSET (Tasks \cup {Merge})]
      BY DEF Types
    <3>3. QED
      BY <1>3, <3>1, <3>2, MergeIsRecorded
  <2>3. Types'
    BY <1>0, <1>1, <1>2, <2>1, <2>2 DEF Types, Phases
  <2>4. AtHand' /\ Progress'
    BY <2>1 DEF Resolve, AtHand, Progress, All, Section
  <2>5. Recorded'
    BY <1>3, <2>1 DEF Resolve, Recorded, Types
  <2>6. Forked'
    BY <1>0, <2>1 DEF Resolve, Forked
  <2>7. QED
    BY <2>3, <2>4, <2>5, <2>6
<1>5. CASE ~(exitCode = 0 /\ Verified(conflicting))
  <2>1. End("failed") /\ shaAfter' = [shaAfter EXCEPT ![now] = tip']
    BY <1>5 DEF Resolve, EndWave
  <2>2. UNCHANGED <<sub, registered, deleted>> /\ phase # "idle"
    BY DEF Resolve
  <2>3. QED
    BY <1>1, <1>2, <1>3, <2>1, <2>2, EndKeepsBase DEF Types
<1>6. QED
  BY <1>4, <1>5

LEMMA VerdictKeepsBase ==
  ASSUME BaseInv, Verdict
  PROVE  BaseInv'
<1> USE PlanFacts, NotMade DEF PlanHolds, BaseInv, run, wave, record, repo,
    Refs, Subs
<1>0. now' = now /\ Made' = Made
  BY DEF Verdict, EndWave, End, Made
<1>1. CASE \A f \in Features : Passed(f)
  <2>1. All(FeatureTasks, {"ok"})
    BY <1>1 DEF Passed, All
  <2>2. Types' /\ AtHand'
    BY <1>0, <1>1 DEF Verdict, Types, AtHand, Phases
  <2>3. Recorded' /\ Progress' /\ Forked'
    BY <1>0, <1>1, <2>1 DEF Verdict, Recorded, Progress, All, Forked, Section
  <2>4. QED
    BY <2>2, <2>3
<1>2. CASE ~(\A f \in Features : Passed(f))
  <2>1. deleted' \subseteq Tasks
    <3>1. \A f \in Refs : TasksIn(ref[f] \ tip) \subseteq Tasks
      <4>1. \A S \in SUBSET Made : TasksIn(S) \subseteq Tasks
        BY DEF TasksIn, Made
      <4>2. \A f \in Refs : ref[f] \ tip \in SUBSET Made
        BY DEF Types
      <4>3. QED
        BY <4>1, <4>2
    <3>2. UNION {TasksIn(ref[f] \ tip) : f \in isolated \cap Refs} \subseteq Tasks
      <4> DEFINE In(f) == TasksIn(ref[f] \ tip)
      <4>1. \A f \in isolated \cap Refs : In(f) \subseteq Tasks
        BY <3>1
      <4> HIDE DEF In
      <4>2. UNION {In(f) : f \in isolated \cap Refs} \subseteq Tasks
        BY <4>1
      <4>3. QED
        BY <4>2 DEF In
    <3>3. QED
      <4>1. deleted' =
              deleted \cup UNION {TasksIn(ref[f] \ tip) : f \in isolated \cap Refs}
        BY <1>2 DEF Verdict
      <4>2. QED
        BY <3>2, <4>1 DEF Types
  <2>2. /\ ref' \in [Features -> (SUBSET Made) \cup {Gone}]
        /\ registered' \in [Features -> {"no", "live", "stale"}]
    BY <1>2 DEF Verdict, Types
  <2>3. End("failed") /\ shaAfter' = [shaAfter EXCEPT ![now] = tip]
    BY <1>2 DEF Verdict, EndWave
  <2>4. UNCHANGED <<done, tip, sub>> /\ phase # "idle"
    BY DEF Verdict
  <2>5. QED
    BY <2>1, <2>2, <2>3, <2>4, EndKeepsBase DEF Types
<1>3. QED
  BY <1>1, <1>2

LEMMA IntegratedKeepsBase ==
  ASSUME BaseInv, Integrated
  PROVE  BaseInv'
BY EndKeepsBase DEF Integrated, EndWave, BaseInv, Types, repo

LEMMA InterruptKeepsBase ==
  ASSUME BaseInv, Interrupt
  PROVE  BaseInv'
<1> USE PlanFacts, NotMade DEF PlanHolds, BaseInv, run, wave, record, repo,
    Refs, Subs
<1>1. \E T \in SUBSET AtWork :
        sub' = [t \in FeatureTasks |->
                  IF t \in T THEN ref[FeatureOf[t]] ELSE sub[t]]
  BY DEF Interrupt
<1>2. sub' \in [FeatureTasks -> (SUBSET Made) \cup {Gone}]
  BY <1>1 DEF Types
<1>3. registered' \in [Features -> {"no", "live", "stale"}]
  BY DEF Interrupt, Types
<1>4. QED
  BY <1>2, <1>3, EndKeepsBase DEF Interrupt, Types

-----------------------------------------------------------------------------
\* Placed, step by step, for all constants.  Before a task has run and after the
\* end there is nothing to say.
LEMMA NothingPlaced == All(Tasks, {"todo"})' => Placed'
BY DEF All, Placed

LEMMA EndKeepsPlaced ==
  ASSUME NEW result, End(result)
  PROVE  Placed'
BY NothingPlaced DEF End, All

LEMMA CommitKeepsPlaced ==
  ASSUME BaseInv, Placed, NEW t \in Tasks, Commit(t)
  PROVE  Placed'
<1> USE DEF BaseInv
<1>0. PlanHolds
  BY PlanFacts
<1>1. /\ UNCHANGED <<now, phase, todo, skip, isolated, conflicting>>
      /\ now \in Executions /\ now \in Nat
      /\ outcome' = [outcome EXCEPT ![t] = "committed"] /\ outcome[t] = "todo"
      /\ t \notin skip /\ phase = Section(t)
  BY <1>0 DEF Commit, Ready, run, record, Section, Recorded, Types, PlanHolds
<1>2. CASE t \notin FeatureTasks \/ FeatureOf[t] \notin isolated
  <2>1. tip' = tip \cup {<<t, now>>} /\ ref' = ref /\ sub' = sub
    BY <1>2 DEF Commit
  <2>2. QED
    BY <1>1, <2>1 DEF Placed, Unmerged, Passed, All, Refs, Subs, Types
<1>3. CASE t \in FeatureTasks /\ FeatureOf[t] \in isolated
  <2>1. /\ FeatureOf[t] \in Refs /\ FeatureOf[t] \in Features
        /\ t \in TasksOf(FeatureOf[t]) /\ phase = "features"
    BY <1>0, <1>1, <1>3 DEF AtHand, PlanHolds, Refs
  <2>2. ref[FeatureOf[t]] \cup {<<t, now>>} \in SUBSET Made
    BY <1>0, <1>1, <2>1, SetsOfCommits DEF Made, PlanHolds
  <2>3. CASE OnSub(t)
    <3>1. /\ tip' = tip /\ ref' = ref
          /\ sub' = [sub EXCEPT ![t] = ref[FeatureOf[t]] \cup {<<t, now>>}]
          /\ t \notin Subs
      BY <1>3, <2>3 DEF Commit, OnSub, Subs
    <3>2. /\ Refs' = Refs /\ Subs' = Subs \cup {t}
          /\ \A u \in Subs : u # t /\ sub'[u] = sub[u]
          /\ sub'[t] = ref[FeatureOf[t]] \cup {<<t, now>>}
      BY <1>3, <2>2, <3>1, NotMade DEF Refs, Subs, Types
    <3>3. QED
      BY <1>1, <3>1, <3>2 DEF Placed, Unmerged, Passed, All, Types
  <2>4. CASE ~OnSub(t)
    <3>1. /\ tip' = tip /\ sub' = sub
          /\ ref' = [ref EXCEPT ![FeatureOf[t]] = @ \cup {<<t, now>>}]
      BY <1>3, <2>4 DEF Commit
    <3>2. /\ Refs' = Refs /\ Subs' = Subs
          /\ \A f \in Refs : ref[f] \subseteq ref'[f]
          /\ ref'[FeatureOf[t]] = ref[FeatureOf[t]] \cup {<<t, now>>}
      BY <2>1, <2>2, <3>1, NotMade DEF Refs, Subs, Types
    <3>3. QED
      BY <1>1, <1>3, <2>1, <3>1, <3>2 DEF Placed, Unmerged, Passed, All, Types
  <2>5. QED
    BY <2>3, <2>4
<1>4. QED
  BY <1>2, <1>3

\* What a report changes, and where it moves the commits of its task.
Counts(t) ==
  /\ UNCHANGED <<now, phase, todo, status, shaAfter, skip, isolated,
                 conflicting, deleted, tip>>
  /\ phase \notin {"idle", "recover"} /\ now \in Executions /\ now \in Nat
  /\ outcome' = [outcome EXCEPT ![t] = "ok"] /\ phase = Section(t)
  /\ outcome[t] = "committed" \/ (outcome[t] = "todo" /\ t \in skip)
  /\ done' = [done EXCEPT ![now] = @ \cup {t}]
Moves(t) ==
  /\ Refs' = Refs /\ \A f \in Refs : ref[f] \subseteq ref'[f]
  /\ \A u \in Subs : u # t => u \in Subs' /\ sub'[u] = sub[u]
  /\ \A u \in Subs' : u \in Subs /\ sub'[u] = sub[u]
  /\ t \in Subs /\ <<t, now>> \notin sub[t] => t \in Subs' /\ sub'[t] = sub[t]
  /\ t \in Subs =>
       \/ t \in Subs' /\ sub'[t] = sub[t]
       \/ /\ FeatureOf[t] \in isolated /\ FeatureOf[t] \in Refs
          /\ phase = "features"
          /\ ref'[FeatureOf[t]] = ref[FeatureOf[t]] \cup sub[t]
  /\ \A f \in Refs :
       \/ ref'[f] = ref[f]
       \/ t \in Subs /\ f = FeatureOf[t] /\ ref'[f] = ref[f] \cup sub[t]

LEMMA ReportMoves ==
  ASSUME BaseInv, NEW t \in Tasks, Report(t)
  PROVE  Counts(t) /\ Moves(t)
<1> USE DEF BaseInv
<1>0. PlanHolds
  BY PlanFacts
<1>1. Counts(t)
  BY <1>0 DEF Counts, Report, Ready, run, Recorded, Progress, Types, PlanHolds
<1>2. Moves(t)
  <2>1. CASE t \in Subs /\ <<t, now>> \in sub[t]
    <3>1. /\ t \in FeatureTasks /\ FeatureOf[t] \in isolated
          /\ FeatureOf[t] \in Features /\ phase = "features"
      BY <1>0, <1>1, <2>1 DEF Counts, Forked, Subs, PlanHolds
    <3>2. /\ FeatureOf[t] \in Refs
          /\ ref[FeatureOf[t]] \cup sub[t] \in SUBSET Made
      BY <2>1, <3>1, SetsOfCommits DEF AtHand
    <3>3. \/ /\ ref' = [ref EXCEPT ![FeatureOf[t]] = ref[FeatureOf[t]] \cup sub[t]]
             /\ sub' = [sub EXCEPT ![t] = Gone]
          \/ ref' = ref /\ sub' = [sub EXCEPT ![t] = sub[t]]
      BY <2>1 DEF Report, Join, KeptSub
    <3>4. CASE /\ ref' = [ref EXCEPT ![FeatureOf[t]] = ref[FeatureOf[t]] \cup sub[t]]
               /\ sub' = [sub EXCEPT ![t] = Gone]
      BY <2>1, <3>1, <3>2, <3>4, NotMade DEF Moves, Refs, Subs, Types
    <3>5. CASE ref' = ref /\ sub' = [sub EXCEPT ![t] = sub[t]]
      BY <2>1, <3>5 DEF Moves, Refs, Subs, Types
    <3>6. QED
      BY <3>3, <3>4, <3>5
  <2>2. CASE ~(t \in Subs /\ <<t, now>> \in sub[t])
    <3>1. ref' = ref /\ sub' = sub
      BY <2>2 DEF Report
    <3>2. QED
      BY <3>1 DEF Moves, Refs, Subs
  <2>3. QED
    BY <2>1, <2>2
<1>3. QED
  BY <1>1, <1>2

LEMMA ReportKeepsPlaced ==
  ASSUME BaseInv, Placed, NEW t \in Tasks, Report(t)
  PROVE  Placed'
<1>0. PlanHolds /\ Counts(t) /\ Moves(t)
  BY PlanFacts, ReportMoves
<1> USE <1>0 DEF BaseInv, Counts
<1>1. ASSUME NEW u \in Tasks \ skip, outcome'[u] \in {"committed", "ok"}
      PROVE  outcome[u] \in {"committed", "ok"}
  BY <1>1 DEF Types
<1>2. \A f \in Features : Unmerged(f) => Unmerged(f)'
  <2>1. \A f \in Features : phase # "features" => t \notin TasksOf(f)
    BY DEF PlanHolds, Section
  <2>2. \A f \in Features : phase # "features" /\ Passed(f)' => Passed(f)
    BY <2>1 DEF Passed, All, Types
  <2>3. QED
    BY <2>2 DEF Unmerged
<1>3. QED
  <2>1. ASSUME NEW u \in Tasks \ skip, outcome'[u] \in {"committed", "ok"}
        PROVE  \/ <<u, now>> \in tip
               \/ u \in Subs' /\ <<u, now>> \in sub'[u]
               \/ /\ u \in FeatureTasks /\ Unmerged(FeatureOf[u])' /\ FeatureOf[u] \in Refs'
                  /\ <<u, now>> \in ref'[FeatureOf[u]]
    <3>1. CASE <<u, now>> \in tip
      BY <3>1
    <3>2. CASE u \in Subs /\ <<u, now>> \in sub[u]
      <4>1. CASE u \in Subs' /\ sub'[u] = sub[u]
        BY <3>2, <4>1
      <4>2. CASE ~(u \in Subs' /\ sub'[u] = sub[u])
        <5>1. /\ u \in FeatureTasks /\ FeatureOf[u] \in isolated
              /\ FeatureOf[u] \in Refs
              /\ phase = "features"
              /\ ref'[FeatureOf[u]] = ref[FeatureOf[u]] \cup sub[u]
          BY <3>2, <4>2 DEF Subs, Moves
        <5>2. QED
          BY <3>2, <5>1 DEF Unmerged, Moves
      <4>3. QED
        BY <4>1, <4>2
    <3>3. CASE /\ u \in FeatureTasks /\ Unmerged(FeatureOf[u])
               /\ FeatureOf[u] \in Refs
               /\ <<u, now>> \in ref[FeatureOf[u]]
      BY <1>2, <3>3 DEF PlanHolds, Moves
    <3>4. QED
      BY <1>1, <2>1, <3>1, <3>2, <3>3 DEF Placed
  <2>2. QED
    BY <2>1 DEF Placed

LEMMA FailKeepsPlaced ==
  ASSUME BaseInv, Placed, NEW t \in Tasks, Fail(t)
  PROVE  Placed'
BY DEF Fail, run, record, repo, BaseInv, Placed, Unmerged, Passed, All, Refs,
   Subs, Types

LEMMA IsolateKeepsPlaced ==
  ASSUME BaseInv, Placed, NEW f \in Features, Isolate(f)
  PROVE  Placed'
<1>1. /\ UNCHANGED <<now, phase, skip, outcome, tip, sub>>
      /\ phase = "isolate" /\ isolated \subseteq isolated'
  BY DEF Isolate, record
<1>2. Refs \subseteq Refs' /\ \A g \in Refs : ref'[g] = ref[g]
  BY NotMade DEF Isolate, Refs, BaseInv, Types
<1>3. QED
  BY <1>1, <1>2 DEF Placed, Unmerged, Subs

\* From the foundation to the features, to their merge and to what follows it.
LEMMA PhaseKeepsPlaced ==
  ASSUME BaseInv, Placed, Founded \/ Isolated \/ FeaturesEnd \/ Merged
  PROVE  Placed'
<1> USE DEF BaseInv
<1>1. CASE Founded
  <2>1. CASE All(Foundation, {"ok"})
    BY <1>1, <2>1 DEF Founded, wave, repo, Placed, Unmerged, AtHand, Refs, Subs
  <2>2. CASE ~All(Foundation, {"ok"})
    BY <1>1, <2>2, EndKeepsPlaced DEF Founded, EndWave
  <2>3. QED
    BY <2>1, <2>2
<1>2. CASE Isolated \/ FeaturesEnd \/ Merged
  <2>1. /\ UNCHANGED <<now, skip, isolated, outcome, conflicting, tip, ref, sub>>
        /\ \/ phase = "isolate" /\ phase' = "features"
           \/ phase = "features" /\ phase' = "merge" /\ todo' = isolated
           \/ /\ phase = "merge" /\ todo' = todo
              /\ phase' = IF conflicting = {} THEN "verdict" ELSE "resolve"
    BY <1>2 DEF Isolated, FeaturesEnd, Branches, Merged, wave, record, repo
  <2>2. \A f \in Features : Unmerged(f) => Unmerged(f)'
    BY <2>1 DEF Unmerged, Passed, All
  <2>3. QED
    BY <2>1, <2>2, PlanFacts DEF Placed, Refs, Subs, PlanHolds
<1>3. QED
  BY <1>1, <1>2

LEMMA MergeBranchKeepsPlaced ==
  ASSUME BaseInv, Placed, NEW f \in Features, MergeBranch(f)
  PROVE  Placed'
<1> USE DEF BaseInv
<1>1. /\ UNCHANGED <<now, phase, skip, isolated, outcome, sub>>
      /\ phase = "merge" /\ f \in todo /\ todo' = todo \ {f}
  BY DEF MergeBranch, First, record
<1>2. /\ Refs' \subseteq Refs /\ \A g \in Refs' : ref'[g] = ref[g]
      /\ Refs \ {f} \subseteq Refs'
      /\ tip \subseteq tip' /\ conflicting \subseteq conflicting'
      /\ f \in Refs => \/ ref[f] \subseteq tip'
                       \/ f \in Refs' /\ (f \in conflicting' \/ ~Passed(f))
  BY DEF MergeBranch, KeptRef, Refs, Types
<1>3. \A g \in Refs : Unmerged(g) => (g \in Refs' /\ Unmerged(g)') \/ ref[g] \subseteq tip'
  BY <1>1, <1>2 DEF Unmerged, Passed, All
<1>4. QED
  BY <1>1, <1>2, <1>3 DEF Placed, Subs

LEMMA ResolveKeepsPlaced ==
  ASSUME BaseInv, Placed, NEW exitCode \in {0, 1}, NEW M \in SUBSET conflicting,
         Resolve(exitCode, M)
  PROVE  Placed'
<1>1. CASE exitCode = 0 /\ Verified(conflicting)
  <2>1. /\ UNCHANGED <<now, todo, isolated, outcome, conflicting, skip, sub>>
        /\ phase = "resolve" /\ phase' = "verdict" /\ tip \subseteq tip'
        /\ \A g \in conflicting : ref[g] \subseteq tip'
    BY <1>1 DEF Resolve, wave, Verified
  <2>2. \A g \in Refs : \/ g \in Refs' /\ ref'[g] = ref[g]
                        \/ ref[g] \subseteq tip'
    BY <2>1 DEF Resolve, Refs
  <2>3. \A g \in Features : Unmerged(g) => Unmerged(g)' \/ ref[g] \subseteq tip'
    BY <2>1 DEF Unmerged, Passed, All
  <2>4. QED
    BY <2>1, <2>2, <2>3 DEF Placed, Refs, Subs
<1>2. CASE ~(exitCode = 0 /\ Verified(conflicting))
  BY <1>2, EndKeepsPlaced DEF Resolve, EndWave
<1>3. QED
  BY <1>1, <1>2

LEMMA VerdictKeepsPlaced ==
  ASSUME BaseInv, Placed, Verdict
  PROVE  Placed'
<1>1. CASE \A f \in Features : Passed(f)
  BY <1>1 DEF Verdict, wave, Placed, Unmerged, Passed, All, Refs, Subs
<1>2. CASE ~(\A f \in Features : Passed(f))
  BY <1>2, EndKeepsPlaced DEF Verdict, EndWave
<1>3. QED
  BY <1>1, <1>2

-----------------------------------------------------------------------------
\* CodeInv.  First, what keeps its parts: TasksIn is monotone, so that it is
\* enough to say where the commits of each branch have gone to.
LEMMA TasksFacts ==
  /\ \A A, B : TasksIn(A \cup B) = TasksIn(A) \cup TasksIn(B)
  /\ \A A, B : A \subseteq B => TasksIn(A) \subseteq TasksIn(B)
  /\ \A t, n : TasksIn({<<t, n>>}) = {t}
  /\ \A t, n, A : <<t, n>> \in A => t \in TasksIn(A)
BY DEF TasksIn

LEMMA SkippedStays ==
  ASSUME Skipped, phase # "idle", skip' \subseteq skip,
         tip \subseteq tip', deleted' = deleted,
         \A u \in KeptSubs : u \in KeptSubs' /\ sub'[u] = sub[u],
         \A g \in KeptRefs : \/ g \in KeptRefs' /\ ref[g] \subseteq ref'[g]
                             \/ ref[g] \subseteq tip'
                             \/ TasksIn(ref[g]) \cap skip' \subseteq TasksIn(tip)
  PROVE  Skipped'
<1>1. TasksIn(tip) \subseteq TasksIn(tip')
  BY TasksFacts
<1>2. SUFFICES ASSUME NEW t \in skip' \cap Tasks
      PROVE  \/ t \in TasksIn(tip') \cup deleted'
             \/ \E u \in KeptSubs' : t \in TasksIn(sub'[u])
             \/ \E g \in KeptRefs' : t \in TasksIn(ref'[g])
  BY DEF Skipped
<1>3. CASE t \in TasksIn(tip) \cup deleted
  BY <1>1, <1>3
<1>4. ASSUME NEW u \in KeptSubs, t \in TasksIn(sub[u])
      PROVE  \E v \in KeptSubs' : t \in TasksIn(sub'[v])
  BY <1>4
<1>5. ASSUME NEW g \in KeptRefs, t \in TasksIn(ref[g])
      PROVE  \/ t \in TasksIn(tip')
             \/ \E h \in KeptRefs' : t \in TasksIn(ref'[h])
  <2>1. CASE g \in KeptRefs' /\ ref[g] \subseteq ref'[g]
    BY <1>5, <2>1, TasksFacts
  <2>2. CASE ref[g] \subseteq tip'
    BY <1>5, <2>2, TasksFacts
  <2>3. CASE TasksIn(ref[g]) \cap skip' \subseteq TasksIn(tip)
    BY <1>1, <1>5, <2>3
  <2>4. QED
    BY <2>1, <2>2, <2>3
<1>6. QED
  BY <1>3, <1>4, <1>5 DEF Skipped

LEMMA StaysReachable ==
  ASSUME tip \subseteq tip', deleted \subseteq deleted',
         \A u \in Subs : \/ u \in Subs' /\ sub[u] \subseteq sub'[u]
                         \/ \E g \in Refs' : sub[u] \subseteq ref'[g],
         \A g \in Refs : \/ g \in Refs' /\ ref[g] \subseteq ref'[g]
                         \/ TasksIn(ref[g]) \subseteq TasksIn(tip') \cup deleted'
  PROVE  \A t : Reachable(t) => Reachable(t)'
<1>1. TasksIn(tip) \subseteq TasksIn(tip')
  BY TasksFacts
<1>2. \A u \in Subs : \/ u \in Subs' /\ TasksIn(sub[u]) \subseteq TasksIn(sub'[u])
                      \/ \E g \in Refs' : TasksIn(sub[u]) \subseteq TasksIn(ref'[g])
  BY TasksFacts
<1>3. \A g \in Refs : \/ g \in Refs' /\ TasksIn(ref[g]) \subseteq TasksIn(ref'[g])
                      \/ TasksIn(ref[g]) \subseteq TasksIn(tip') \cup deleted'
  BY TasksFacts
<1>4. QED
  BY <1>1, <1>2, <1>3 DEF Reachable

LEMMA OwnStays ==
  ASSUME Own, tip \subseteq tip',
         \A f \in Refs' : \/ f \in Refs /\ TasksIn(ref'[f]) \subseteq TasksIn(ref[f])
                          \/ TasksIn(ref'[f]) \subseteq TasksIn(tip') \cup TasksOf(f),
         \A u \in Subs' : \/ u \in Subs /\ sub'[u] = sub[u]
                          \/ TasksIn(sub'[u]) \subseteq TasksIn(tip') \cup TasksOf(FeatureOf[u])
  PROVE  Own'
<1>1. TasksIn(tip) \subseteq TasksIn(tip')
  BY TasksFacts
<1>2. QED
  BY <1>1 DEF Own

\* CodeInv, step by step.
LEMMA EndKeepsCode ==
  ASSUME BaseInv, CodeInv, phase # "idle",
         NEW result \in {"completed", "failed", "cancelled"}, End(result),
         \/ shaAfter' = [shaAfter EXCEPT ![now] = tip']
         \/ shaAfter' = shaAfter /\ result = "cancelled",
         Own', Reported'
  PROVE  CodeInv'
<1> USE DEF BaseInv, CodeInv
<1>1. /\ now \in Executions /\ now' = now /\ phase' = "idle"
      /\ shaAfter[now] = Gone
      /\ shaAfter \in [Executions -> (SUBSET Made) \cup {Gone}]
      /\ status' = [status EXCEPT ![now] = result]
      /\ status \in [Executions -> {"none", "running", "completed", "failed",
                                    "cancelled", "past"}]
  BY DEF End, Recorded, Types, Executions
<1>2. /\ shaAfter'[now] \in {Gone, tip'}
      /\ result # "cancelled" => shaAfter'[now] = tip'
  BY <1>1
<1>3. \A e \in Executions : status'[e] = "completed" => e = now /\ result = "completed"
  BY <1>1 DEF Latest
<1>4. Latest'
  BY <1>1, <1>2, <1>3 DEF Latest
<1>5. Skipped'
  BY DEF End, Skipped
<1>6. QED
  BY <1>4, <1>5

LEMMA StartKeepsCode ==
  ASSUME ~OlderToo, BaseInv, CodeInv, NEW dirty, Start(now, dirty)
  PROVE  CodeInv'
<1> USE DEF BaseInv, CodeInv
<1>0. PlanHolds
  BY PlanFacts
<1>1. /\ now' = now + 1 /\ now' \in Executions /\ now \in Nat
      /\ phase' \in {"recover", "foundation"}
      /\ ref' = ref /\ sub' = sub /\ deleted' = deleted /\ outcome' = outcome
  BY DEF Start, Types, repo
<1>2. tip' = tip
  <2>1. shaAfter[0] = Gone \/ now # 0 \/ tip' = tip
    BY DEF Start
  <2>2. QED
    BY <2>1 DEF Start, Latest
<1>3. Latest'
  <2>1. \A e \in Executions : e < now' => status'[e] = "past"
    BY <1>0, <1>1 DEF Start, Past, Executions
  <2>2. \A e \in Executions : e > now' => status'[e] = "none"
    BY <1>0, <1>1 DEF Start, Past, Recorded, Executions, PlanHolds
  <2>3. status'[now'] = "running"
    BY <1>1 DEF Start
  <2>4. \A e \in Executions : status'[e] # "completed"
    BY <1>0, <1>1, <2>1, <2>2, <2>3 DEF Executions
  <2>5. QED
    BY <1>1, <2>4 DEF Latest
<1>4. Own'
  BY <1>1, <1>2 DEF Own, Refs, Subs
<1>6. done'[now'] = {}
  BY <1>1 DEF Start, Recorded, Past, Types
<1>7. Reported'
  BY <1>6 DEF Reported
<1>8. Skipped'
  <2>1. CASE skip' = {}
    BY <2>1 DEF Skipped
  <2>2. CASE skip' # {}
    <3>1. /\ phase' = "recover" /\ todo' = Refs \cup Subs /\ now # 0
          /\ skip' \subseteq done[now]
      BY <2>2 DEF Start, Completed
    <3>2. \A t \in skip' \cap Tasks : Reachable(t)
      BY <3>1 DEF Reported
    <3>3. \A u \in Subs : <<u, now'>> \notin sub[u]
      <4>1. \A u \in Subs : sub[u] \in SUBSET Made
        BY SetsOfCommits
      <4>2. QED
        BY <1>1, <4>1 DEF Made
    <3>4. KeptSubs' = Subs /\ KeptRefs' = Refs
      BY <1>1, <3>1, <3>3 DEF KeptSubs, KeptRefs, Refs, Subs
    <3>5. QED
      BY <1>1, <1>2, <3>2, <3>4 DEF Skipped, Reachable
  <2>3. QED
    BY <2>1, <2>2
<1>9. QED
  BY <1>3, <1>4, <1>7, <1>8

LEMMA RecoverKeepsCode ==
  ASSUME BaseInv, CodeInv, NEW x \in Features \cup FeatureTasks, Recover(x)
  PROVE  CodeInv'
<1> USE DEF BaseInv, CodeInv
<1>0. PlanHolds
  BY PlanFacts
<1>1. /\ now' = now /\ phase' = phase /\ phase = "recover" /\ x \in todo
      /\ todo' = todo \ {x}
      /\ ref' = ref /\ sub' = sub /\ deleted' = deleted /\ outcome' = outcome
      /\ UNCHANGED <<status, shaAfter, done>> /\ skip' \subseteq skip
  BY DEF Recover, First, record
<1>2. tip \subseteq tip' /\ Refs' = Refs /\ Subs' = Subs
  BY <1>1 DEF Recover, Refs, Subs
<1>3. Latest'
  BY <1>1 DEF Latest
<1>4. Own'
  BY <1>1, <1>2, OwnStays
<1>6. Reported'
  <2>1. done'[now'] = {}
    BY <1>1 DEF Recorded
  <2>2. QED
    BY <2>1 DEF Reported
<1>7. Skipped'
  <2>1. \A u \in KeptSubs : u \in KeptSubs' /\ sub'[u] = sub[u]
    BY <1>1, <1>2 DEF KeptSubs
  <2>2. \A g \in KeptRefs : g # x =>
          g \in KeptRefs' /\ ref[g] \subseteq ref'[g]
    BY <1>1, <1>2 DEF KeptRefs
  <2>3. ASSUME x \in Features
        PROVE  ref[x] \subseteq tip' \/ TasksIn(ref[x]) \cap skip' \subseteq TasksIn(tip)
    <3>1. CASE tip' = tip \cup ref[x]
      BY <3>1
    <3>2. CASE skip' = skip \ TasksOf(x)
      <4>1. x \in Refs
        BY <1>0, <1>1, <2>3 DEF AtHand, Subs, PlanHolds
      <4>2. QED
        BY <3>2, <4>1 DEF Own
    <3>3. QED
      BY <2>3, <3>1, <3>2 DEF Recover, Dropped
  <2>4. \A g \in KeptRefs : g \in Features
    BY DEF KeptRefs, Refs
  <2>5. \A g \in KeptRefs : \/ g \in KeptRefs' /\ ref[g] \subseteq ref'[g]
                            \/ ref[g] \subseteq tip'
                            \/ TasksIn(ref[g]) \cap skip' \subseteq TasksIn(tip)
    BY <2>2, <2>3, <2>4
  <2>6. QED
    BY <1>1, <1>2, <2>1, <2>5, SkippedStays
<1>9. QED
  BY <1>3, <1>4, <1>6, <1>7

LEMMA RecoveredKeepsCode ==
  ASSUME BaseInv, CodeInv, Recovered
  PROVE  CodeInv'
<1> USE DEF BaseInv, CodeInv
<1>0. PlanHolds
  BY PlanFacts
<1>1. UNCHANGED <<now, ref, sub, tip, deleted, outcome, status, shaAfter, done,
                  skip, isolated, conflicting, todo>>
      /\ phase = "recover" /\ phase' = "foundation" /\ todo = {}
  BY DEF Recovered, wave, record, repo
<1>3. Latest' /\ Own'
  BY <1>1 DEF Latest, Own, Refs, Subs, Recorded
<1>6. Reported'
  BY <1>1 DEF Reported, Reachable, Refs, Subs
<1>7. Skipped'
  BY <1>1 DEF Skipped, KeptSubs, KeptRefs, Refs, Subs
<1>9. QED
  BY <1>3, <1>6, <1>7

LEMMA CommitKeepsCode ==
  ASSUME BaseInv, CodeInv, NEW t \in Tasks, Commit(t)
  PROVE  CodeInv'
<1> USE DEF BaseInv, CodeInv
<1>0. PlanHolds
  BY PlanFacts
<1>1. /\ UNCHANGED <<now, phase, todo, status, shaAfter, done, skip, isolated,
                     conflicting, deleted>>
      /\ phase \notin {"idle", "recover"} /\ now \in Executions /\ now \in Nat
      /\ outcome' = [outcome EXCEPT ![t] = "committed"] /\ outcome[t] = "todo"
      /\ t \notin skip /\ phase = Section(t)
  BY <1>0 DEF Commit, Ready, run, record, Section, Recorded, Types, PlanHolds
<1>2. CASE t \notin FeatureTasks \/ FeatureOf[t] \notin isolated
  <2>1. tip' = tip \cup {<<t, now>>} /\ ref' = ref /\ sub' = sub
    BY <1>2 DEF Commit
  <2>3. Own' /\ Skipped' /\ Latest'
    BY <1>1, <2>1, OwnStays, SkippedStays DEF KeptSubs, KeptRefs, Refs, Subs,
       Latest
  <2>4. Reported'
    BY <1>1, <2>1, StaysReachable DEF Reported, Refs, Subs
  <2>5. QED
    BY <2>3, <2>4
<1>3. CASE t \in FeatureTasks /\ FeatureOf[t] \in isolated
  <2>1. /\ FeatureOf[t] \in Refs /\ FeatureOf[t] \in Features
        /\ t \in TasksOf(FeatureOf[t]) /\ phase = "features"
    BY <1>0, <1>1, <1>3 DEF AtHand, PlanHolds, Refs
  <2>2. CASE OnSub(t)
    <3>1. /\ tip' = tip /\ ref' = ref
          /\ sub' = [sub EXCEPT ![t] = ref[FeatureOf[t]] \cup {<<t, now>>}]
          /\ t \notin Subs
      BY <1>3, <2>2 DEF Commit, OnSub, Subs
    <3>2. ref[FeatureOf[t]] \cup {<<t, now>>} \in SUBSET Made
      BY <1>0, <1>1, <2>1, SetsOfCommits DEF Made, PlanHolds
    <3>3. /\ Refs' = Refs /\ Subs' = Subs \cup {t} /\ \A u \in Subs : u # t /\ sub'[u] = sub[u]
          /\ sub'[t] = ref[FeatureOf[t]] \cup {<<t, now>>}
      BY <1>3, <3>1, <3>2, NotMade DEF Refs, Subs, Types
    <3>4. Own'
      <4>1. TasksIn(ref[FeatureOf[t]]) \subseteq TasksIn(tip) \cup TasksOf(FeatureOf[t])
        BY <2>1 DEF Own
      <4>2. TasksIn(sub'[t]) \subseteq TasksIn(tip') \cup TasksOf(FeatureOf[t])
        <5>1. TasksIn(sub'[t]) = TasksIn(ref[FeatureOf[t]]) \cup TasksIn({<<t, now>>})
          BY <3>3, TasksFacts
        <5>2. TasksIn({<<t, now>>}) = {t}
          BY TasksFacts
        <5>3. QED
          BY <2>1, <3>1, <4>1, <5>1, <5>2
      <4>3. QED
        BY <3>1, <3>3, <4>2, OwnStays
    <3>5. Skipped'
      BY <1>1, <3>1, <3>3, SkippedStays DEF KeptSubs, KeptRefs
    <3>6. Reported'
      BY <1>1, <3>1, <3>3, StaysReachable DEF Reported
    <3>8. Latest'
      BY <1>1, <3>1 DEF Latest
    <3>9. QED
      BY <3>4, <3>5, <3>6, <3>8
  <2>3. CASE ~OnSub(t)
    <3>1. /\ tip' = tip /\ sub' = sub
          /\ ref' = [ref EXCEPT ![FeatureOf[t]] = @ \cup {<<t, now>>}]
      BY <1>3, <2>3 DEF Commit
    <3>2. ref[FeatureOf[t]] \cup {<<t, now>>} \in SUBSET Made
      BY <1>0, <1>1, <2>1, SetsOfCommits DEF Made, PlanHolds
    <3>3. /\ Refs' = Refs /\ Subs' = Subs
          /\ \A f \in Refs : f # FeatureOf[t] => ref'[f] = ref[f]
          /\ ref'[FeatureOf[t]] = ref[FeatureOf[t]] \cup {<<t, now>>}
      BY <2>1, <3>1, <3>2, NotMade DEF Refs, Subs, Types
    <3>4. Own'
      <4>1. TasksIn(ref[FeatureOf[t]]) \subseteq TasksIn(tip) \cup TasksOf(FeatureOf[t])
        BY <2>1 DEF Own
      <4>2. TasksIn(ref'[FeatureOf[t]]) \subseteq TasksIn(tip') \cup TasksOf(FeatureOf[t])
        <5>1. TasksIn(ref'[FeatureOf[t]]) =
                TasksIn(ref[FeatureOf[t]]) \cup TasksIn({<<t, now>>})
          BY <3>3, TasksFacts
        <5>2. TasksIn({<<t, now>>}) = {t}
          BY TasksFacts
        <5>3. QED
          BY <2>1, <3>1, <4>1, <5>1, <5>2
      <4>3. QED
        BY <3>1, <3>3, <4>2, OwnStays
    <3>5. \A f \in Refs : ref[f] \subseteq ref'[f]
      BY <3>3
    <3>6. Skipped'
      BY <1>1, <3>1, <3>3, <3>5, SkippedStays DEF KeptSubs, KeptRefs
    <3>7. Reported'
      BY <1>1, <3>1, <3>3, <3>5, StaysReachable DEF Reported
    <3>9. Latest'
      BY <1>1, <3>1 DEF Latest
    <3>10. QED
      BY <3>4, <3>6, <3>7, <3>9
  <2>4. QED
    BY <2>2, <2>3
<1>9. QED
  BY <1>2, <1>3

LEMMA ReportKeepsCode ==
  ASSUME BaseInv, Placed, CodeInv, NEW t \in Tasks, Report(t)
  PROVE  CodeInv'
<1>1. Counts(t) /\ Moves(t)
  BY ReportMoves
<1> USE <1>1 DEF BaseInv, CodeInv, Counts
<1>3. \A v : Reachable(v) => Reachable(v)'
  BY StaysReachable DEF Moves
<1>4. Reachable(t)
  <2>1. CASE outcome[t] = "committed" /\ t \notin skip
    <3>1. \A S : <<t, now>> \in S => t \in TasksIn(S)
      BY TasksFacts
    <3>2. QED
      BY <2>1, <3>1 DEF Placed, Reachable
  <2>2. CASE t \in skip
    BY <2>2 DEF Skipped, Reachable, KeptSubs, KeptRefs
  <2>3. QED
    BY <2>1, <2>2
<1>5. Reported'
  BY <1>3, <1>4 DEF Reported, Types
<1>6. Own'
  <2>1. \A f \in Refs : TasksIn(ref'[f]) \subseteq TasksIn(tip) \cup TasksOf(f)
    BY TasksFacts DEF Own, Moves
  <2>2. QED
    BY <2>1, OwnStays DEF Moves
<1>7. Skipped'
  BY SkippedStays DEF Moves, KeptSubs, KeptRefs
<1>8. Latest'
  BY DEF Latest
<1>10. QED
  BY <1>5, <1>6, <1>7, <1>8

LEMMA FailKeepsCode ==
  ASSUME BaseInv, CodeInv, NEW t \in Tasks, Fail(t)
  PROVE  CodeInv'
<1> USE DEF BaseInv, CodeInv
<1>1. /\ UNCHANGED <<now, phase, todo, status, shaAfter, done, skip, isolated,
                     conflicting, deleted, tip, ref, sub>>
      /\ outcome' = [outcome EXCEPT ![t] = "failed"]
  BY DEF Fail, run, record, repo
<1>2. Latest' /\ Own' /\ Reported' /\ Skipped'
  BY <1>1 DEF Latest, Own, Reported, Reachable, Skipped, KeptSubs, KeptRefs,
     Refs, Subs
<1>4. QED
  BY <1>2

LEMMA FoundedKeepsCode ==
  ASSUME BaseInv, CodeInv, Founded
  PROVE  CodeInv'
<1> USE DEF BaseInv, CodeInv
<1>1. UNCHANGED <<done, tip, ref, sub, deleted, now>> /\ phase = "foundation"
  BY DEF Founded, EndWave, End, repo
<1>2. Own' /\ Reported'
  BY <1>1 DEF Own, Reported, Reachable, Refs, Subs
<1>3. CASE All(Foundation, {"ok"})
  <2>1. /\ UNCHANGED <<status, shaAfter, isolated, outcome, conflicting, skip>>
        /\ phase' = "isolate"
    BY <1>3 DEF Founded, wave
  <2>2. Latest' /\ Skipped'
    BY <1>1, <2>1 DEF Latest, Skipped, KeptSubs, KeptRefs, Refs, Subs
  <2>4. QED
    BY <1>2, <2>2
<1>4. CASE ~All(Foundation, {"ok"})
  BY <1>1, <1>2, <1>4, EndKeepsCode DEF Founded, EndWave
<1>5. QED
  BY <1>3, <1>4

LEMMA IsolateKeepsCode ==
  ASSUME BaseInv, CodeInv, NEW f \in Features, Isolate(f)
  PROVE  CodeInv'
<1> USE DEF BaseInv, CodeInv
<1>1. /\ UNCHANGED <<now, phase, status, shaAfter, done, skip, outcome,
                     conflicting, deleted, tip, sub>>
      /\ phase = "isolate" /\ isolated \subseteq isolated'
  BY DEF Isolate, record
<1>2. /\ Refs' = Refs \cup {f} /\ \A g \in Refs : ref'[g] = ref[g]
      /\ f \notin Refs => ref'[f] = tip
      /\ Subs' = Subs
  BY NotMade DEF Isolate, Refs, Subs, Types
<1>3. Latest' /\ Skipped' /\ Reported'
  BY <1>1, <1>2, SkippedStays, StaysReachable DEF Latest, KeptSubs, KeptRefs,
     Reported
<1>4. Own'
  BY <1>1, <1>2, OwnStays
<1>6. QED
  BY <1>3, <1>4

LEMMA IsolatedKeepsCode ==
  ASSUME BaseInv, CodeInv, Isolated
  PROVE  CodeInv'
<1> USE DEF BaseInv, CodeInv
<1>1. /\ UNCHANGED <<now, todo, status, shaAfter, done, skip, isolated, outcome,
                     conflicting, deleted, tip, ref, sub>>
      /\ phase = "isolate" /\ phase' = "features"
  BY DEF Isolated, wave, record, repo
<1>2. Latest' /\ Own' /\ Skipped' /\ Reported'
  BY <1>1 DEF Latest, Own, Skipped, KeptSubs, KeptRefs, Reported, Reachable,
     Refs, Subs
<1>4. QED
  BY <1>2

LEMMA FeaturesEndKeepsCode ==
  ASSUME BaseInv, CodeInv, FeaturesEnd
  PROVE  CodeInv'
<1> USE DEF BaseInv, CodeInv
<1>1. /\ UNCHANGED <<now, status, shaAfter, done, skip, isolated, outcome,
                     conflicting, deleted, tip, ref, sub>>
      /\ phase = "features" /\ phase' = "merge" /\ todo' = isolated
  BY DEF FeaturesEnd, Branches, wave, record
<1>2. Latest' /\ Own' /\ Skipped' /\ Reported'
  BY <1>1 DEF Latest, Own, Skipped, KeptSubs, KeptRefs, Reported, Reachable,
     Refs, Subs
<1>4. QED
  BY <1>2

LEMMA MergedKeepsCode ==
  ASSUME BaseInv, CodeInv, Merged
  PROVE  CodeInv'
<1> USE DEF BaseInv, CodeInv
<1>1. /\ UNCHANGED <<now, todo, status, shaAfter, done, skip, isolated, outcome,
                     conflicting, deleted, tip, ref, sub>>
      /\ phase = "merge" /\ phase' = IF conflicting = {} THEN "verdict" ELSE "resolve"
  BY DEF Merged, wave, record, repo
<1>2. Latest' /\ Own' /\ Skipped' /\ Reported'
  BY <1>1 DEF Latest, Own, Skipped, KeptSubs, KeptRefs, Reported, Reachable,
     Refs, Subs
<1>4. QED
  BY <1>2

LEMMA IntegratedKeepsCode ==
  ASSUME BaseInv, CodeInv, Integrated
  PROVE  CodeInv'
<1> USE DEF BaseInv, CodeInv
<1>1. UNCHANGED <<done, tip, ref, sub, deleted, now>> /\ phase = "integration"
  BY DEF Integrated, EndWave, End, repo
<1>2. Own' /\ Reported'
  BY <1>1 DEF Own, Reported, Reachable, Refs, Subs
<1>3. QED
  BY <1>1, <1>2, EndKeepsCode DEF Integrated, EndWave

LEMMA InterruptKeepsCode ==
  ASSUME BaseInv, CodeInv, Interrupt
  PROVE  CodeInv'
<1> USE DEF BaseInv, CodeInv
<1>1. UNCHANGED <<done, shaAfter, tip, ref, deleted, now>> /\ phase # "idle"
  BY DEF Interrupt, End, record
<1>2. PICK T \in SUBSET AtWork :
        sub' = [t \in FeatureTasks |-> IF t \in T THEN ref[FeatureOf[t]] ELSE sub[t]]
  BY DEF Interrupt
<1>3. \A t \in T : t \in FeatureTasks /\ t \notin Subs /\ FeatureOf[t] \in Features
  BY PlanFacts DEF AtWork, OnSub, Subs, PlanHolds
<1>4. /\ \A u \in Subs : u \in Subs' /\ sub'[u] = sub[u]
      /\ \A u \in Subs' : \/ u \in Subs /\ sub'[u] = sub[u]
                          \/ FeatureOf[u] \in Refs /\ sub'[u] = ref[FeatureOf[u]]
  BY <1>2, <1>3 DEF Subs, Refs
<1>5. Own'
  <2>1. \A u \in Subs' : \/ u \in Subs /\ sub'[u] = sub[u]
                         \/ TasksIn(sub'[u]) \subseteq TasksIn(tip) \cup TasksOf(FeatureOf[u])
    BY <1>4 DEF Own
  <2>2. QED
    BY <1>1, <2>1, OwnStays DEF Refs
<1>6. Reported'
  BY <1>1, <1>4, StaysReachable DEF Reported, Refs
<1>7. QED
  BY <1>1, <1>5, <1>6, EndKeepsCode DEF Interrupt

LEMMA MergeBranchKeepsCode ==
  ASSUME BaseInv, CodeInv, NEW f \in Features, MergeBranch(f)
  PROVE  CodeInv'
<1> USE DEF BaseInv, CodeInv
<1>1. /\ UNCHANGED <<now, phase, status, shaAfter, done, skip, isolated,
                     outcome, deleted, sub>>
      /\ phase = "merge" /\ f \in todo /\ f \in isolated /\ f \in Refs
      /\ todo' = todo \ {f}
  BY DEF MergeBranch, First, AtHand, record
<1>2. CASE /\ tip' = tip /\ ref' = ref
           /\ \/ conflicting' = conflicting \cup {f}
              \/ ~Passed(f) /\ conflicting' = conflicting
  <2>1. Latest' /\ Own' /\ Reported'
    BY <1>1, <1>2 DEF Latest, Own, Reported, Reachable, Refs, Subs
  <2>2. Skipped'
    BY <1>1, <1>2 DEF Skipped, KeptSubs, KeptRefs, Refs, Subs
  <2>4. QED
    BY <2>1, <2>2
<1>3. CASE /\ Passed(f) /\ tip' = tip \cup ref[f]
           /\ ref' = [ref EXCEPT ![f] = Gone] /\ conflicting' = conflicting
  <2>1. /\ Refs' = Refs \ {f} /\ (\A g \in Refs' : ref'[g] = ref[g]) /\ Subs' = Subs
        /\ tip \subseteq tip'
    BY <1>1, <1>3 DEF Refs, Subs, Types
  <2>2. \A g \in Refs : (g \in Refs' /\ ref'[g] = ref[g]) \/ ref[g] \subseteq tip'
    BY <1>3, <2>1
  <2>3. Latest'
    BY <1>1 DEF Latest
  <2>4. Own'
    BY <1>1, <2>1, OwnStays
  <2>5. Skipped'
    <3>1. \A g \in KeptRefs : \/ g \in KeptRefs' /\ ref[g] \subseteq ref'[g]
                              \/ ref[g] \subseteq tip'
      BY <1>1, <2>2 DEF KeptRefs
    <3>2. \A u \in KeptSubs : u \in KeptSubs' /\ sub'[u] = sub[u]
      BY <1>1, <2>1 DEF KeptSubs
    <3>3. QED
      BY <1>1, <2>1, <3>1, <3>2, SkippedStays
  <2>6. Reported'
    <3>1. \A g \in Refs : \/ g \in Refs' /\ ref[g] \subseteq ref'[g]
                          \/ TasksIn(ref[g]) \subseteq TasksIn(tip') \cup deleted'
      BY <2>2, TasksFacts
    <3>2. \A t : Reachable(t) => Reachable(t)'
      BY <1>1, <2>1, <3>1, StaysReachable
    <3>3. QED
      BY <1>1, <3>2 DEF Reported
  <2>8. QED
    BY <2>3, <2>4, <2>5, <2>6
<1>4. QED
  <2>1. [ref EXCEPT ![f] = KeptRef(f)] = ref
    BY DEF KeptRef, Types
  <2>2. \/ ~Passed(f) /\ tip' = tip /\ ref' = ref /\ conflicting' = conflicting
        \/ /\ Passed(f) /\ tip' = tip \cup ref[f] /\ ref' = [ref EXCEPT ![f] = Gone]
           /\ conflicting' = conflicting
        \/ /\ conflicting' = conflicting \cup {f} /\ ref' = [ref EXCEPT ![f] = KeptRef(f)]
           /\ tip' = tip
    BY DEF MergeBranch
  <2>3. QED
    BY <1>2, <1>3, <2>1, <2>2

LEMMA ResolveKeepsCode ==
  ASSUME BaseInv, CodeInv, NEW exitCode \in {0, 1}, NEW M \in SUBSET conflicting,
         Resolve(exitCode, M)
  PROVE  CodeInv'
<1> USE DEF BaseInv, CodeInv
<1>1. UNCHANGED <<now, sub, deleted>> /\ phase = "resolve" /\ tip \subseteq tip'
  BY DEF Resolve, EndWave, End
<1>2. /\ Refs' \subseteq Refs /\ (\A g \in Refs' : ref'[g] = ref[g]) /\ Subs' = Subs
      /\ \A g \in Refs : g \in Refs' \/ ref[g] \subseteq tip'
  BY <1>1 DEF Resolve, Refs, Subs
<1>3. Own'
  BY <1>1, <1>2, OwnStays
<1>4. Reported'
  <2>1. \A g \in Refs : \/ g \in Refs' /\ ref[g] \subseteq ref'[g]
                        \/ TasksIn(ref[g]) \subseteq TasksIn(tip') \cup deleted'
    BY <1>2, TasksFacts
  <2>2. \A t : Reachable(t) => Reachable(t)'
    BY <1>1, <1>2, <2>1, StaysReachable
  <2>3. done'[now] \cap Tasks \subseteq done[now]
    BY PlanFacts DEF Resolve, PlanHolds, Types
  <2>4. QED
    BY <1>1, <2>2, <2>3 DEF Reported
<1>5. CASE exitCode = 0 /\ Verified(conflicting)
  <2>1. /\ UNCHANGED <<status, todo, shaAfter, isolated, outcome, conflicting,
                       skip>>
        /\ phase' = "verdict" /\ \A g \in conflicting : ref[g] \subseteq tip'
    BY <1>5 DEF Resolve, wave, Verified
  <2>2. Latest'
    BY <1>1, <2>1 DEF Latest
  <2>3. Skipped'
    <3>1. \A g \in KeptRefs : \/ g \in KeptRefs' /\ ref[g] \subseteq ref'[g]
                              \/ ref[g] \subseteq tip'
      BY <1>1, <1>2 DEF KeptRefs
    <3>2. \A u \in KeptSubs : u \in KeptSubs' /\ sub'[u] = sub[u]
      BY <1>1, <1>2 DEF KeptSubs
    <3>3. QED
      BY <1>1, <1>2, <2>1, <3>1, <3>2, SkippedStays
  <2>5. QED
    BY <1>3, <1>4, <2>2, <2>3
<1>6. CASE ~(exitCode = 0 /\ Verified(conflicting))
  BY <1>1, <1>3, <1>4, <1>6, EndKeepsCode DEF Resolve, EndWave
<1>7. QED
  BY <1>5, <1>6

LEMMA VerdictKeepsCode ==
  ASSUME BaseInv, CodeInv, Verdict
  PROVE  CodeInv'
<1> USE DEF BaseInv, CodeInv
<1>1. UNCHANGED <<now, done, tip, sub>> /\ phase = "verdict"
  BY DEF Verdict, EndWave, End
<1>2. CASE \A f \in Features : Passed(f)
  <2>1. /\ UNCHANGED <<todo, status, shaAfter, skip, isolated, outcome,
                       conflicting, deleted, ref>>
        /\ phase' = "integration"
    BY <1>2 DEF Verdict, wave
  <2>2. Latest' /\ Own' /\ Skipped' /\ Reported'
    BY <1>1, <2>1 DEF Latest, Own, Skipped, KeptSubs, KeptRefs, Reported,
       Reachable, Refs, Subs
  <2>4. QED
    BY <2>2
<1>3. CASE ~(\A f \in Features : Passed(f))
  <2>1. /\ ref' = [f \in Features |-> IF f \in isolated THEN Gone ELSE ref[f]]
        /\ deleted' =
             deleted \cup UNION {TasksIn(ref[f] \ tip) : f \in isolated \cap Refs}
        /\ EndWave("failed", tip)
    BY <1>3 DEF Verdict
  <2>2. /\ Refs' \subseteq Refs /\ (\A g \in Refs' : ref'[g] = ref[g]) /\ Subs' = Subs
        /\ \A g \in Refs : g \in Refs' \/ g \in isolated
    BY <1>1, <2>1 DEF Refs, Subs
  <2>3. Own'
    BY <1>1, <2>2, OwnStays
  <2>4. Reported'
    <3>1. ASSUME NEW g \in isolated \cap Refs
          PROVE  TasksIn(ref[g]) \subseteq TasksIn(tip) \cup deleted'
      <4>1. TasksIn(ref[g]) \subseteq TasksIn(tip) \cup TasksIn(ref[g] \ tip)
        BY DEF TasksIn
      <4>2. TasksIn(ref[g] \ tip) \subseteq deleted'
        BY <2>1
      <4>3. QED
        BY <4>1, <4>2
    <3>2. \A t : Reachable(t) => Reachable(t)'
      BY <1>1, <2>1, <2>2, <3>1, StaysReachable
    <3>3. QED
      BY <1>1, <3>2 DEF Reported
  <2>5. QED
    BY <1>1, <2>1, <2>3, <2>4, EndKeepsCode DEF EndWave
<1>4. QED
  BY <1>2, <1>3

-----------------------------------------------------------------------------
\* Only Integrated ends with "completed".
LEMMA WholeUntilCompleted ==
  ASSUME Latest', ~(phase' = "idle" /\ status'[now'] = "completed")
  PROVE  CompletedIsWhole'
BY DEF Latest, CompletedIsWhole

\* Every task has succeeded or is skipped: Placed and Skipped say where its code
\* is, and no branch of a feature that passed is left to merge.
LEMMA IntegratedIsWhole ==
  ASSUME BaseInv, Placed, CodeInv, BaseInv', CodeInv', Integrated
  PROVE  CompletedIsWhole'
<1> USE DEF BaseInv, CodeInv
<1>1. /\ UNCHANGED <<now, done, tip, ref, sub, deleted>>
      /\ phase = "integration"
      /\ Ended(Integration) /\ now \in Executions
  BY DEF Integrated, EndWave, End, repo, Recorded, Types, Executions
<1>2. CASE All(Integration, {"ok"})
  <2>1. SUFFICES ASSUME NEW t \in Tasks
                 PROVE  t \in TasksIn(tip \cup GivenUp) \cup deleted
    BY <1>1 DEF CompletedIsWhole, Latest, GivenUp, Refs, Subs
  <2>2. \A A, B : A \subseteq B => TasksIn(A) \subseteq TasksIn(B)
    BY TasksFacts
  <2>3. tip \subseteq tip \cup GivenUp /\ \A u \in Subs : sub[u] \subseteq tip \cup GivenUp
    BY DEF GivenUp
  <2>4. CASE t \in skip
    <3>1. \A g \in KeptRefs : ref[g] \subseteq tip \cup GivenUp
      BY <1>1 DEF KeptRefs, GivenUp
    <3>2. \A u \in KeptSubs : sub[u] \subseteq tip \cup GivenUp
      BY <2>3 DEF KeptSubs
    <3>3. QED
      BY <1>1, <2>2, <2>3, <2>4, <3>1, <3>2 DEF Skipped
  <2>5. CASE t \notin skip
    <3>1. outcome[t] = "ok"
      BY <1>1, <1>2 DEF Progress, All, Tasks
    <3>2. t \in FeatureTasks => ~Unmerged(FeatureOf[t])
      <4>1. t \in FeatureTasks =>
              FeatureOf[t] \in Features /\ TasksOf(FeatureOf[t]) \subseteq FeatureTasks
        BY PlanFacts DEF PlanHolds
      <4>2. QED
        BY <1>1, <4>1 DEF Unmerged, Passed, All, Progress, AtHand
    <3>3. <<t, now>> \in tip \/ (t \in Subs /\ <<t, now>> \in sub[t])
      BY <2>5, <3>1, <3>2 DEF Placed
    <3>4. QED
      BY <2>3, <3>3, TasksFacts
  <2>6. QED
    BY <2>4, <2>5
<1>3. CASE ~All(Integration, {"ok"})
  <2>1. status'[now'] = "failed"
    BY <1>1, <1>3 DEF Integrated, EndWave, End, Types
  <2>2. QED
    BY <2>1, WholeUntilCompleted
<1>4. QED
  BY <1>2, <1>3

-----------------------------------------------------------------------------
LEMMA InitEstablishes == Init => BaseInv /\ Placed /\ CodeInv /\ CompletedIsWhole
<1> SUFFICES ASSUME Init PROVE BaseInv /\ Placed /\ CodeInv /\ CompletedIsWhole
  OBVIOUS
<1> USE DEF Init
<1>1. Refs = {} /\ Subs = {}
  BY DEF Refs, Subs
<1>2. Types
  BY LayoutAssumption DEF Types, Phases, Executions
<1>3. AtHand /\ Progress /\ Forked
  BY <1>1 DEF AtHand, Progress, All, Forked
<1>4. Recorded
  BY DEF Recorded
<1>5. Placed /\ CodeInv
  BY <1>1, PlanFacts DEF CodeInv, Latest, Own, Placed, Skipped, Reported,
     PlanHolds
<1>6. CompletedIsWhole
  BY DEF CompletedIsWhole
<1>7. QED
  BY <1>2, <1>3, <1>4, <1>5, <1>6 DEF BaseInv

LEMMA BaseIsKept == BaseInv /\ [Next]_vars => BaseInv'
<1> SUFFICES ASSUME BaseInv, [Next]_vars PROVE BaseInv'
  OBVIOUS
<1>0. now \in Nat
  BY DEF BaseInv, Types
<1>1. CASE Create
  <2>1. now = 0 /\ 0 \in 0 .. now /\ Start(0, {})
    BY <1>0, <1>1 DEF Create
  <2>2. QED
    BY <2>1, StartKeepsBase
<1>2. ASSUME NEW p \in 1 .. now, Continue(p) \/ Rerun(p)
      PROVE  BaseInv'
  <2>1. \E dirty : Start(p, dirty)
    BY <1>2 DEF Continue, Rerun
  <2>2. p \in 0 .. now /\ p # 0
    BY <1>0
  <2>3. QED
    BY <2>1, <2>2, StartKeepsBase
<1>3. ASSUME NEW x \in Features \cup FeatureTasks, Recover(x)
      PROVE  BaseInv'
  BY <1>3, RecoverKeepsBase
<1>4. ASSUME NEW f \in Features, Isolate(f) \/ MergeBranch(f)
      PROVE  BaseInv'
  BY <1>4, IsolateKeepsBase, MergeBranchKeepsBase
<1>5. ASSUME NEW t \in Tasks, Commit(t) \/ Report(t) \/ Fail(t)
      PROVE  BaseInv'
  BY <1>5, CommitKeepsBase, ReportKeepsBase, FailKeepsBase
<1>6. ASSUME NEW exitCode \in {0, 1}, NEW M \in SUBSET conflicting,
             Resolve(exitCode, M)
      PROVE  BaseInv'
  BY <1>6, ResolveKeepsBase
<1>7. CASE Recovered \/ Founded \/ Isolated \/ FeaturesEnd \/ Merged
  BY <1>7, RecoveredKeepsBase, FoundedKeepsBase, IsolatedKeepsBase,
     FeaturesEndKeepsBase, MergedKeepsBase
<1>8. CASE Verdict \/ Integrated \/ Interrupt
  BY <1>8, VerdictKeepsBase, IntegratedKeepsBase, InterruptKeepsBase
<1>9. CASE UNCHANGED vars
  BY <1>9 DEF vars, run, wave, record, repo, BaseInv, Types, Made, AtHand,
     Recorded,
     Progress, All, Forked, Refs, Subs
<1>10. QED
  BY <1>1, <1>2, <1>3, <1>4, <1>5, <1>6, <1>7, <1>8, <1>9 DEF Next

LEMMA CodeIsKept ==
  ASSUME ~OlderToo, BaseInv, BaseInv', Placed, CodeInv, CompletedIsWhole, [Next]_vars
  PROVE  CodeInv' /\ CompletedIsWhole'
<1> DEFINE Uncompleted == ~(phase' = "idle" /\ status'[now'] = "completed")
<1>a. CodeInv' /\ Uncompleted => CodeInv' /\ CompletedIsWhole'
  BY WholeUntilCompleted DEF CodeInv
<1>b. /\ now \in 0 .. MaxExecutions
      /\ status \in [Executions -> {"none", "running", "completed", "failed",
                                "cancelled", "past"}]
      /\ Executions = 1 .. MaxExecutions /\ (phase # "idle" => now # 0)
  BY DEF BaseInv, Types, Executions, Recorded
<1>c. ASSUME phase # "idle", NEW result \in {"failed", "cancelled"}, End(result)
      PROVE  Uncompleted
  BY <1>b, <1>c DEF End
<1> HIDE DEF Uncompleted
<1>1. CASE Create \/ \E p \in 1 .. now : Continue(p) \/ Rerun(p)
  <2>1. \E dirty : Start(now, dirty)
    BY <1>1 DEF Create, Continue, Rerun, Resumable
  <2>2. Uncompleted
    BY <2>1 DEF Start, Uncompleted
  <2>3. QED
    BY <1>a, <2>1, <2>2, StartKeepsCode
<1>2. ASSUME NEW x \in Features \cup FeatureTasks, Recover(x)
      PROVE  CodeInv' /\ CompletedIsWhole'
  <2>1. Uncompleted
    BY <1>2 DEF Recover, Uncompleted
  <2>2. QED
    BY <1>a, <1>2, <2>1, RecoverKeepsCode
<1>3. ASSUME NEW f \in Features, Isolate(f) \/ MergeBranch(f)
      PROVE  CodeInv' /\ CompletedIsWhole'
  <2>1. Uncompleted
    BY <1>3 DEF Isolate, MergeBranch, Uncompleted
  <2>2. QED
    BY <1>a, <1>3, <2>1, IsolateKeepsCode, MergeBranchKeepsCode
<1>4. ASSUME NEW t \in Tasks, Commit(t) \/ Report(t) \/ Fail(t)
      PROVE  CodeInv' /\ CompletedIsWhole'
  <2>1. Uncompleted
    <3>1. phase' = phase /\ phase # "idle"
      BY <1>4, PlanFacts DEF Commit, Report, Fail, Ready, Section, run, BaseInv,
         Progress
    <3>2. QED
      BY <3>1 DEF Uncompleted
  <2>2. QED
    BY <1>a, <1>4, <2>1, CommitKeepsCode, ReportKeepsCode, FailKeepsCode
<1>5. ASSUME NEW exitCode \in {0, 1}, NEW M \in SUBSET conflicting,
             Resolve(exitCode, M)
      PROVE  CodeInv' /\ CompletedIsWhole'
  <2>1. CASE phase' = "verdict"
    BY <1>a, <1>5, <2>1, ResolveKeepsCode DEF Uncompleted
  <2>2. CASE EndWave("failed", tip')
    BY <1>a, <1>c, <1>5, <2>2, ResolveKeepsCode DEF Resolve, EndWave
  <2>3. QED
    BY <1>5, <2>1, <2>2 DEF Resolve
<1>6. CASE Recovered \/ Isolated \/ FeaturesEnd \/ Merged
  <2>1. Uncompleted
    BY <1>6 DEF Recovered, Isolated, FeaturesEnd, Merged, Uncompleted
  <2>2. QED
    BY <1>a, <1>6, <2>1, RecoveredKeepsCode, IsolatedKeepsCode,
       FeaturesEndKeepsCode, MergedKeepsCode
<1>7. CASE Founded
  <2>1. phase' = "isolate" \/ EndWave("failed", tip)
    BY <1>7 DEF Founded
  <2>2. Uncompleted
    BY <1>c, <1>7, <2>1 DEF Founded, EndWave, Uncompleted
  <2>3. QED
    BY <1>a, <1>7, <2>2, FoundedKeepsCode
<1>8. CASE Verdict
  <2>1. phase' = "integration" \/ EndWave("failed", tip)
    BY <1>8 DEF Verdict
  <2>2. Uncompleted
    BY <1>c, <1>8, <2>1 DEF Verdict, EndWave, Uncompleted
  <2>3. QED
    BY <1>a, <1>8, <2>2, VerdictKeepsCode
<1>9. CASE Integrated
  BY <1>9, IntegratedKeepsCode, IntegratedIsWhole
<1>10. CASE Interrupt
  <2>1. Uncompleted
    BY <1>c, <1>10 DEF Interrupt
  <2>2. QED
    BY <1>a, <1>10, <2>1, InterruptKeepsCode
<1>11. CASE UNCHANGED vars
  <2> USE <1>11 DEF vars, run, wave, record, repo
  <2>1. Latest' /\ Own' /\ CompletedIsWhole'
    BY DEF CodeInv, Latest, Own, Refs, Subs, CompletedIsWhole, GivenUp
  <2>3. Skipped' /\ Reported'
    BY DEF CodeInv, Skipped, KeptSubs, KeptRefs, Reported, Reachable, Refs, Subs
  <2>4. QED
    BY <2>1, <2>3 DEF CodeInv
<1>12. QED
  BY <1>1, <1>2, <1>3, <1>4, <1>5, <1>6, <1>7, <1>8, <1>9, <1>10, <1>11 DEF Next

LEMMA PlacedIsKept ==
  ASSUME BaseInv, Placed, [Next]_vars
  PROVE  Placed'
<1>1. CASE Create \/ \E p \in 1 .. now : Continue(p) \/ Rerun(p)
  <2>1. \E p, dirty : Start(p, dirty)
    BY <1>1 DEF Create, Continue, Rerun
  <2>2. QED
    BY <2>1, NothingPlaced DEF Start, BaseInv, Progress, All
<1>2. ASSUME NEW x \in Features \cup FeatureTasks, Recover(x)
      PROVE  Placed'
  BY <1>2, NothingPlaced DEF Recover, BaseInv, Progress, All
<1>3. ASSUME NEW f \in Features, Isolate(f) \/ MergeBranch(f)
      PROVE  Placed'
  BY <1>3, IsolateKeepsPlaced, MergeBranchKeepsPlaced
<1>4. ASSUME NEW t \in Tasks, Commit(t) \/ Report(t) \/ Fail(t)
      PROVE  Placed'
  BY <1>4, CommitKeepsPlaced, ReportKeepsPlaced, FailKeepsPlaced
<1>5. ASSUME NEW exitCode \in {0, 1}, NEW M \in SUBSET conflicting,
             Resolve(exitCode, M)
      PROVE  Placed'
  BY <1>5, ResolveKeepsPlaced
<1>6. CASE Recovered
  BY <1>6, NothingPlaced DEF Recovered, wave, BaseInv, Progress, All
<1>7. CASE Founded \/ Isolated \/ FeaturesEnd \/ Merged
  BY <1>7, PhaseKeepsPlaced
<1>8. CASE Verdict
  BY <1>8, VerdictKeepsPlaced
<1>9. CASE Integrated \/ Interrupt
  BY <1>9, EndKeepsPlaced DEF Integrated, EndWave, Interrupt
<1>10. CASE UNCHANGED vars
  BY <1>10 DEF vars, run, wave, record, repo, Placed, Unmerged, Passed, All,
     Refs, Subs
<1>11. QED
  BY <1>1, <1>2, <1>3, <1>4, <1>5, <1>6, <1>7, <1>8, <1>9, <1>10 DEF Next

LEMMA BaseInvariance == Spec => []BaseInv
BY InitEstablishes, BaseIsKept, PTL DEF Spec

LEMMA PlacedInvariance == Spec => []Placed
BY InitEstablishes, PlacedIsKept, BaseInvariance, PTL DEF Spec

CodeAndWhole == CodeInv /\ CompletedIsWhole

LEMMA CodeInvariance == ~OlderToo => (Spec => [](BaseInv /\ CodeAndWhole))
<1> SUFFICES ASSUME ~OlderToo PROVE Spec => [](BaseInv /\ CodeAndWhole)
  OBVIOUS
<1>1. Init => CodeAndWhole
  BY InitEstablishes DEF CodeAndWhole
<1>2. BaseInv /\ BaseInv' /\ Placed /\ CodeAndWhole /\ [Next]_vars => CodeAndWhole'
  BY CodeIsKept DEF CodeAndWhole
<1>3. QED
  BY <1>1, <1>2, BaseInvariance, PlacedInvariance, PTL DEF Spec

-----------------------------------------------------------------------------
\* Every variable stays in its range.
THEOREM TypeCorrect == Spec => []TypeOK
<1>1. BaseInv => TypeOK
  <2> SUFFICES ASSUME BaseInv PROVE TypeOK
    OBVIOUS
  <2>1. Made \subseteq Commits
    BY PlanFacts DEF Made, Commits, BaseInv, Types, PlanHolds
  <2>2. /\ \A e \in Executions : shaAfter[e] = Gone \/ shaAfter[e] \subseteq Made
        /\ \A f \in Features : ref[f] = Gone \/ ref[f] \subseteq Made
        /\ \A t \in FeatureTasks : sub[t] = Gone \/ sub[t] \subseteq Made
    BY DEF BaseInv, Types
  <2>3. /\ \A e \in Executions : shaAfter[e] = Gone \/ shaAfter[e] \subseteq Commits
        /\ \A f \in Features : ref[f] = Gone \/ ref[f] \subseteq Commits
        /\ \A t \in FeatureTasks : sub[t] = Gone \/ sub[t] \subseteq Commits
    BY <2>1, <2>2
  <2>4. QED
    BY <2>1, <2>3 DEF BaseInv, Types, TypeOK, Recorded
<1>2. QED
  BY <1>1, BaseInvariance, PTL

\* Once the branches left behind have been recovered, the code of a task that is
\* going to be skipped is on the work branch, with the exceptions of the property.
THEOREM SkippedHasCode == ~OlderToo => (Spec => []SkipHasCodeUnlessDeleted)
<1> SUFFICES ASSUME ~OlderToo PROVE Spec => []SkipHasCodeUnlessDeleted
  OBVIOUS
<1>1. BaseInv /\ CodeAndWhole => SkipHasCodeUnlessDeleted
  <2> SUFFICES ASSUME BaseInv, CodeInv, Underway, NEW t \in skip \cap Tasks
               PROVE  t \in TasksIn(tip \cup GivenUp) \cup deleted
    BY DEF CodeAndWhole, SkipHasCodeUnlessDeleted
  <2>1. /\ tip \subseteq tip \cup GivenUp
        /\ \A u \in KeptSubs : sub[u] \subseteq tip \cup GivenUp
        /\ \A g \in KeptRefs : ref[g] \subseteq tip \cup GivenUp
    BY DEF KeptSubs, KeptRefs, GivenUp, Underway
  <2>2. /\ TasksIn(tip) \subseteq TasksIn(tip \cup GivenUp)
        /\ \A u \in KeptSubs : TasksIn(sub[u]) \subseteq TasksIn(tip \cup GivenUp)
        /\ \A g \in KeptRefs : TasksIn(ref[g]) \subseteq TasksIn(tip \cup GivenUp)
    BY <2>1, TasksFacts
  <2>3. QED
    BY <2>2 DEF CodeInv, Skipped, Underway
<1>2. QED
  BY <1>1, CodeInvariance, PTL

\* Whatever happens to an execution and to its branches, the code of a task that
\* it has reported completed can still be reached, or cleanup_all has deleted it.
THEOREM ReportedStaysReachable == ~OlderToo => (Spec => []ReportedIsReachable)
<1> SUFFICES ASSUME ~OlderToo PROVE Spec => []ReportedIsReachable
  OBVIOUS
<1>1. BaseInv /\ CodeAndWhole => ReportedIsReachable
  <2> DEFINE Everything == tip \cup GivenUp \cup UNION {ref[f] : f \in Refs}
  <2> SUFFICES ASSUME CodeInv, now # 0, NEW t \in done[now] \cap Tasks
               PROVE  t \in TasksIn(Everything) \cup deleted
    BY DEF CodeAndWhole, ReportedIsReachable
  <2>1. /\ tip \subseteq Everything
        /\ \A u \in Subs : sub[u] \subseteq Everything
        /\ \A g \in Refs : ref[g] \subseteq Everything
    BY DEF GivenUp
  <2> HIDE DEF Everything
  <2>2. /\ TasksIn(tip) \subseteq TasksIn(Everything)
        /\ \A u \in Subs : TasksIn(sub[u]) \subseteq TasksIn(Everything)
        /\ \A g \in Refs : TasksIn(ref[g]) \subseteq TasksIn(Everything)
    BY <2>1, TasksFacts
  <2>3. QED
    BY <2>2 DEF CodeInv, Reported, Reachable
<1>2. QED
  BY <1>1, CodeInvariance, PTL

\* The tasks of the integration section find everything that the execution has
\* built on the work branch, except what is on a preserved branch of a task.
THEOREM IntegrationSeesItAll == Spec => []IntegrationSeesAll
<1>1. BaseInv /\ Placed => IntegrationSeesAll
  <2> SUFFICES ASSUME BaseInv, Placed, phase = "integration",
                      NEW t \in (Foundation \cup FeatureTasks) \ skip
               PROVE  <<t, now>> \in tip \cup GivenUp
    BY DEF IntegrationSeesAll
  <2> USE DEF BaseInv
  <2>1. outcome[t] = "ok" /\ t \in Tasks
    BY DEF Progress, All, Tasks
  <2>2. t \in FeatureTasks => ~Unmerged(FeatureOf[t])
    <3>1. t \in FeatureTasks =>
            FeatureOf[t] \in Features /\ TasksOf(FeatureOf[t]) \subseteq FeatureTasks
      BY PlanFacts DEF PlanHolds
    <3>2. QED
      BY <3>1 DEF Unmerged, Passed, All, Progress, AtHand
  <2>3. <<t, now>> \in tip \/ (t \in Subs /\ <<t, now>> \in sub[t])
    BY <2>1, <2>2 DEF Placed
  <2>4. QED
    BY <2>3 DEF GivenUp
<1>2. QED
  BY <1>1, BaseInvariance, PlacedInvariance, PTL

\* The SHA of a completed execution contains the output of every task of the
\* plan, of this execution or an earlier one, with the exceptions of the property.
THEOREM CompletionIsWhole == ~OlderToo => (Spec => []CompletedIsWhole)
<1> SUFFICES ASSUME ~OlderToo PROVE Spec => []CompletedIsWhole
  OBVIOUS
<1>1. BaseInv /\ CodeAndWhole => CompletedIsWhole
  BY DEF CodeAndWhole
<1>2. QED
  BY <1>1, CodeInvariance, PTL
=============================================================================
