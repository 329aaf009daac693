------------------------- MODULE FeaturePhase_proofs -------------------------
(***************************************************************************)
(* Theorems about FeaturePhase for any tasks, features, graphs, layouts    *)
(* and any value of the semaphore.                                         *)
(*                                                                         *)
(* One inductive invariant, IndInv.  Ends and Supplied carry the work of   *)
(* a task to the tasks after it: whoever reports a success has Landed, in  *)
(* the directory of the feature or on a branch that was preserved, and     *)
(* stays there; a task that runs has only dependencies that succeeded, so  *)
(* their work was in the directory when it looked.                         *)
(*                                                                         *)
(* Locks says what dir_lock and git_lock keep apart within a feature,      *)
(* SubsApart that the first is not needed where the second is used.        *)
(* Across features it is OwnHomes that separates the directories, or, in   *)
(* a directory that is not under git, Turns.  What fails when the creation *)
(* of a sub-worktree fails is in Undisturbed, the one part that excludes   *)
(* it.                                                                     *)
(***************************************************************************)
EXTENDS FeaturePhase, FiniteSetTheorems, TLAPS

\* TypeOK in two parts.
Types ==
  /\ depends \in Graphs
  /\ layout \in Layouts
  /\ call \in [Features -> {"idle", "open", "returned", "raised"}]
  /\ wave \in {"open", "returned", "raised"}
  /\ pc \in [Tasks -> InGate \cup {"idle", "launched", "gate", "slot", "note",
                                   "abort", "done"}]
  /\ view \in [Tasks -> SUBSET Tasks]
  /\ sub \in [Tasks -> {"none", "worktree", "kept", "gone"}]
  /\ exit \in [Tasks -> {"none", "ok", "failed"}]
  /\ code \in [Homes -> SUBSET Tasks]
  /\ tainted \subseteq Homes
  /\ dropped \subseteq Tasks
  /\ result \in [Tasks -> {"none", "ok", "failed", "skipped"}]
  /\ failed \subseteq Tasks
  /\ fatal \subseteq Features
  /\ reports \in [Tasks -> 0 .. 1]
GateBound == Cardinality(In(InGate)) <= MaxConcurrency

Landed(t) == t \in code[Home(F(t))] \/ sub[t] = "kept" \/ t \in dropped
Busy == InGate \cup {"slot"}

\* Only tasks of features that use sub-worktrees get one, or wait to merge one.
SubsApart ==
  \A t \in Tasks :
    /\ pc[t] \in {"fork", "join", "resolving"} => UseSubWorktrees(F(t))
    /\ sub[t] # "none" => UseSubWorktrees(F(t))

\* What the two locks of a feature keep apart.
Locks ==
  \A t, u \in Tasks : t # u /\ F(t) = F(u) =>
    /\ ~(pc[t] = "resolving" /\ pc[u] = "resolving")
    /\ ~UseSubWorktrees(F(t)) => ~(pc[t] \in Busy /\ pc[u] \in Busy)

\* What is known of a task that is on its way to its end, or there.
Ends ==
  /\ \A h \in Homes : layout.resumed \subseteq code[h]
  /\ \A t \in Tasks :
       /\ reports[t] = 1 => pc[t] = "done"
       /\ result[t] = "ok" => pc[t] = "done" /\ Landed(t)
       /\ result[t] \in {"failed", "skipped"} \/ exit[t] = "failed" =>
            t \in failed
       /\ t \in failed =>
            pc[t] \notin {"idle", "launched", "gate", "slot", "fork", "running"}
       /\ pc[t] = "note" =>
            IF t \in failed THEN result[t] = "skipped" ELSE t \in layout.resumed
       /\ pc[t] \in {"join", "resolving", "report"} => exit[t] # "none"
       /\ pc[t] = "report" /\ exit[t] = "ok" => Landed(t)
       /\ pc[t] = "done" => result[t] # "none" \/ F(t) \in fatal

\* What a task that has been launched can rely on.
Supplied ==
  \A t \in Tasks : pc[t] # "idle" =>
    /\ call[F(t)] # "idle"
    /\ \A d \in depends[t] :
         /\ pc[d] = "done" /\ result[d] # "none"
         /\ pc[t] \in {"gate", "slot", "fork", "running"} => result[d] = "ok"
         /\ pc[t] = "running" =>
              d \in view[t] \/ sub[d] = "kept" \/ d \in dropped

\* Features in turn, if they share the directory of the execution.
Turns ==
  /\ ~layout.useGit =>
       \A f, g \in Features : g < f /\ call[f] # "idle" => call[g] = "returned"
  /\ \A t \in Tasks : call[F(t)] = "returned" => pc[t] = "done"

Undisturbed ==
  ~MayFallBack =>
    /\ tainted = {}
    /\ \A t \in Tasks :
         pc[t] = "running" /\ UseSubWorktrees(F(t)) => sub[t] = "worktree"

IndInv ==
  /\ Types /\ GateBound /\ SubsApart /\ Locks /\ Ends /\ Supplied /\ Turns
  /\ Undisturbed

\* Of the features that run at once two are never in the directory of the
\* execution: what create_feature_worktree ensures as long as it fails for one
\* feature at most.
ApartLayouts ==
  \A l \in Layouts : l.useGit => \A f, g \in Features \ l.isolated : f = g
-----------------------------------------------------------------------------
\* A step that leaves plan and layout alone leaves alone what follows from them.
LEMMA SameSubs ==
  ASSUME NEW f, UNCHANGED plan
  PROVE  UseSubWorktrees(f)' <=> UseSubWorktrees(f)
<1>1. Reaches(f)' = Reaches(f)
  BY DEF Reaches, plan
<1>2. QED
  BY <1>1 DEF UseSubWorktrees, HasParallelism, plan

Ranges ==
  /\ layout \in Layout
  /\ \A t \in Tasks :
       /\ F(t) \in Features /\ Home(F(t)) \in Homes
       /\ depends[t] \subseteq Tasks
       /\ \A d \in depends[t] : F(d) = F(t)

LEMMA InRange == Types => Ranges
BY PlanAssumption, LayoutAssumption
   DEF Types, Ranges, Layout, Features, Homes, Home, F

\* A merge with conflicts is in the worktree of its feature, where no other
\* feature is.
HomesApart ==
  \A t, u \in Tasks :
    pc[u] = "resolving" /\ Home(F(u)) = Home(F(t)) => F(u) = F(t)

LEMMA OwnHomes == Ranges /\ SubsApart => HomesApart
BY DEF HomesApart, Ranges, SubsApart, UseSubWorktrees, Home, Features

\* Only one task enters the gate at a time, and only when a slot is free.
LEMMA GateCount ==
  ASSUME Types, GateBound, NEW S, In(InGate)' \subseteq In(InGate) \cup S,
         S = {} \/ (SlotFree /\ \E t \in Tasks : S = {t})
  PROVE  GateBound'
<1>1. /\ IsFiniteSet(In(InGate)) /\ Cardinality(In(InGate)) \in Nat
      /\ MaxConcurrency \in Nat
  BY PlanAssumption, RunAssumption, FS_Subset, FS_CardinalityType DEF In
<1>2. CASE S = {}
  <2>1. In(InGate)' \subseteq In(InGate)
    BY <1>2
  <2>2. /\ Cardinality(In(InGate)') <= Cardinality(In(InGate))
        /\ IsFiniteSet(In(InGate)')
    BY <1>1, <2>1, FS_Subset
  <2>3. Cardinality(In(InGate)') \in Nat
    BY <2>2, FS_CardinalityType
  <2>4. QED
    BY <1>1, <2>2, <2>3 DEF GateBound
<1>3. ASSUME NEW t \in Tasks, S = {t}, SlotFree
      PROVE  GateBound'
  <2>1. /\ IsFiniteSet(In(InGate) \cup {t})
        /\ Cardinality(In(InGate) \cup {t}) <= Cardinality(In(InGate)) + 1
    <3>1. IsFiniteSet(In(InGate) \cup {t})
      BY <1>1, FS_AddElement
    <3>2. Cardinality(In(InGate) \cup {t}) =
            IF t \in In(InGate) THEN Cardinality(In(InGate))
                                ELSE Cardinality(In(InGate)) + 1
      BY <1>1, FS_AddElement
    <3>3. QED
      BY <1>1, <3>1, <3>2
  <2>2. /\ Cardinality(In(InGate)') <= Cardinality(In(InGate) \cup {t})
        /\ IsFiniteSet(In(InGate)')
    BY <1>3, <2>1, FS_Subset
  <2>3. /\ Cardinality(In(InGate)') \in Nat
        /\ Cardinality(In(InGate) \cup {t}) \in Nat
    BY <2>1, <2>2, FS_CardinalityType
  <2>4. QED
    BY <1>1, <1>3, <2>1, <2>2, <2>3 DEF SlotFree, GateBound
<1>4. QED
  BY <1>2, <1>3
-----------------------------------------------------------------------------
LEMMA InitHolds == Init => IndInv
<1> SUFFICES ASSUME Init PROVE IndInv
  OBVIOUS
<1> USE PlanAssumption DEF Init
<1>1. Types
  <2>1. layout.resumed \subseteq Tasks
    BY LayoutAssumption DEF Layout
  <2>2. QED
    BY <2>1 DEF Types
<1>2. GateBound
  <2>1. In(InGate) = {}
    BY DEF In, InGate
  <2>2. QED
    BY <2>1, FS_EmptySet, RunAssumption DEF GateBound
<1>3. SubsApart /\ Locks /\ Ends /\ Undisturbed
  BY DEF SubsApart, Locks, Ends, Undisturbed, Busy, InGate
<1>4. Supplied /\ Turns
  BY <1>1, InRange DEF Supplied, Turns, Ranges
<1>5. QED
  BY <1>1, <1>2, <1>3, <1>4 DEF IndInv
-----------------------------------------------------------------------------
\* One lemma for each action.  Each says first that UseSubWorktrees and the
\* ranges of features and homes stay what they are.
LEMMA StartFeaturePreserves ==
  ASSUME IndInv, NEW f \in Features, StartFeature(f)
  PROVE  IndInv'
<1> USE PlanAssumption, LayoutAssumption DEF IndInv, plan, git, Ranges, HomesApart
<1>a. \A g : UseSubWorktrees(g)' <=> UseSubWorktrees(g)
  BY SameSubs DEF StartFeature
<1>b. Ranges
  BY InRange
<1>1. Types'
  BY DEF StartFeature, Types, InGate
<1>2. GateBound'
  <2>1. In(InGate)' \subseteq In(InGate) \cup {}
    BY DEF StartFeature, Types, InGate, In
  <2>2. QED
    BY <2>1, GateCount DEF IndInv
<1>3. SubsApart'
  BY <1>a DEF StartFeature, SubsApart, Types
<1>4. Locks'
  BY <1>a DEF StartFeature, Locks, Busy, InGate, Types
<1>5. Ends'
  <2>1. \A u \in Tasks : F(u) = f => pc[u] = "idle"
    BY DEF StartFeature, Supplied, Types
  <2>2. \A u \in Tasks : pc'[u] = pc[u] \/ (pc[u] = "idle" /\ pc'[u] = "launched")
    BY <2>1 DEF StartFeature
  <2>3. \A u \in Tasks : Landed(u)' <=> Landed(u)
    BY DEF StartFeature, Landed, Home
  <2>4. QED
    BY <2>2, <2>3 DEF StartFeature, Ends, Types, InGate
<1>6. Supplied'
  BY DEF StartFeature, Supplied, Types, InGate, F
<1>7. Turns'
  <2>1. ASSUME ~layout.useGit, NEW g \in Features, NEW h \in Features,
               g < h, call'[h] # "idle"
        PROVE  call'[g] = "returned"
    BY <2>1 DEF StartFeature, MayStart, Turns, Types, Features
  <2>2. ASSUME NEW u \in Tasks, call'[F(u)] = "returned" PROVE pc'[u] = "done"
    BY <1>b, <2>2 DEF StartFeature, Turns, Types
  <2>3. QED
    BY <2>1, <2>2 DEF StartFeature, Turns
<1>8. Undisturbed'
  BY <1>a DEF StartFeature, Undisturbed, Types, InGate
<1>9. QED
  BY <1>1, <1>2, <1>3, <1>4, <1>5, <1>6, <1>7, <1>8 DEF IndInv

LEMMA SkipFailedPreserves ==
  ASSUME IndInv, NEW t \in Tasks, SkipFailed(t)
  PROVE  IndInv'
<1> USE PlanAssumption, LayoutAssumption DEF IndInv, plan, git, Ranges, HomesApart
<1>a. \A f : UseSubWorktrees(f)' <=> UseSubWorktrees(f)
  BY SameSubs DEF SkipFailed
<1>b. Ranges
  BY InRange
<1>1. Types'
  BY DEF SkipFailed, Goto, Types, InGate
<1>2. GateBound'
  <2>1. In(InGate)' \subseteq In(InGate) \cup {}
    BY DEF SkipFailed, Goto, Types, InGate, In
  <2>2. QED
    BY <2>1, GateCount DEF IndInv
<1>3. SubsApart'
  BY <1>a DEF SkipFailed, Goto, SubsApart, Types
<1>4. Locks'
  BY <1>a DEF SkipFailed, Goto, Locks, Busy, InGate, Types
<1>5. Ends'
  BY DEF SkipFailed, Goto, Ends, Landed, Types, Home, F, InGate
<1>6. Supplied'
  BY DEF SkipFailed, Goto, Supplied, Types, InGate, F
<1>7. Turns'
  BY DEF SkipFailed, Goto, Turns, Types, InGate
<1>8. Undisturbed'
  BY <1>a DEF SkipFailed, Goto, Undisturbed, Types, InGate
<1>9. QED
  BY <1>1, <1>2, <1>3, <1>4, <1>5, <1>6, <1>7, <1>8 DEF IndInv

LEMMA SkipResumedPreserves ==
  ASSUME IndInv, NEW t \in Tasks, SkipResumed(t)
  PROVE  IndInv'
<1> USE PlanAssumption, LayoutAssumption DEF IndInv, plan, git, Ranges, HomesApart
<1>a. \A f : UseSubWorktrees(f)' <=> UseSubWorktrees(f)
  BY SameSubs DEF SkipResumed
<1>b. Ranges
  BY InRange
<1>1. Types'
  BY DEF SkipResumed, Goto, Types, InGate
<1>2. GateBound'
  <2>1. In(InGate)' \subseteq In(InGate) \cup {}
    BY DEF SkipResumed, Goto, Types, InGate, In
  <2>2. QED
    BY <2>1, GateCount DEF IndInv
<1>3. SubsApart'
  BY <1>a DEF SkipResumed, Goto, SubsApart, Types
<1>4. Locks'
  BY <1>a DEF SkipResumed, Goto, Locks, Busy, InGate, Types
<1>5. Ends'
  BY DEF SkipResumed, Goto, Ends, Landed, Types, Home, F, InGate
<1>6. Supplied'
  BY DEF SkipResumed, Goto, Supplied, Types, InGate, F
<1>7. Turns'
  BY DEF SkipResumed, Goto, Turns, Types, InGate
<1>8. Undisturbed'
  BY <1>a DEF SkipResumed, Goto, Undisturbed, Types, InGate
<1>9. QED
  BY <1>1, <1>2, <1>3, <1>4, <1>5, <1>6, <1>7, <1>8 DEF IndInv

LEMMA NotedPreserves ==
  ASSUME IndInv, NEW t \in Tasks, Noted(t)
  PROVE  IndInv'
<1> USE PlanAssumption, LayoutAssumption DEF IndInv, plan, git, Ranges, HomesApart
<1>a. \A f : UseSubWorktrees(f)' <=> UseSubWorktrees(f)
  BY SameSubs DEF Noted
<1>b. Ranges
  BY InRange
<1>1. Types'
  <2>1. reports' \in [Tasks -> 0 .. 1]
    BY DEF Noted, Types, Ends
  <2>2. pc' \in [Tasks -> InGate \cup {"idle", "launched", "gate", "slot", "note",
                                      "abort", "done"}]
    BY DEF Noted, Complete, Types
  <2>3. result' \in [Tasks -> {"none", "ok", "failed", "skipped"}]
    BY DEF Noted, Types
  <2>4. QED
    BY <2>1, <2>2, <2>3 DEF Noted, Types
<1>2. GateBound'
  <2>1. In(InGate)' \subseteq In(InGate) \cup {}
    BY DEF Noted, Complete, In, Types, InGate, In
  <2>2. QED
    BY <2>1, GateCount DEF IndInv
<1>3. SubsApart'
  BY <1>a DEF Noted, Complete, SubsApart, Types
<1>4. Locks'
  BY <1>a DEF Noted, Complete, Locks, Busy, InGate, Types
<1>5. Ends'
  BY <1>b DEF Noted, Complete, Ready, Completed, In, Ends, Landed, Types, Home,
     F, InGate
<1>6. Supplied'
  <2>1. result'[t] # "none" /\ \A u \in Tasks : u # t => result'[u] = result[u]
    BY DEF Noted, Types, Ends
  <2>2. ASSUME NEW u \in Tasks, NEW d \in depends[u], pc[u] # "idle"
        PROVE  d # t /\ pc'[d] = "done" /\ result'[d] = result[d]
    BY <1>b, <2>1, <2>2 DEF Noted, Complete, Ready, Supplied, Types
  <2>3. ASSUME NEW u \in Tasks, u \in Ready(t), F(t) \notin fatal', NEW d \in depends[u]
        PROVE  pc'[d] = "done" /\ result'[d] # "none"
    <3>1. d \in Tasks /\ F(d) = F(t) /\ (d = t \/ pc[d] = "done")
      BY <1>b, <2>3 DEF Ready, Completed, In
    <3>2. pc'[d] = "done"
      BY <3>1 DEF Noted, Complete, Ready, In
    <3>3. d = t \/ result[d] # "none"
      BY <2>3, <3>1 DEF Noted, Ends
    <3>4. QED
      BY <2>1, <3>1, <3>2, <3>3
  <2>4. \A u \in Tasks : u \in Ready(t) /\ F(t) \notin fatal' => call[F(u)] # "idle"
    <3>1. call[F(t)] # "idle"
      BY DEF Noted, Supplied
    <3>2. QED
      BY <1>b, <3>1 DEF Ready
  <2>5. \A u \in Tasks :
          pc'[u] = IF u = t THEN "done"
                   ELSE IF u \in Ready(t) /\ F(t) \notin fatal' THEN "launched"
                   ELSE pc[u]
    BY DEF Noted, Complete
  <2>6. ASSUME NEW u \in Tasks, pc'[u] # "idle"
        PROVE  /\ call[F(u)] # "idle"
               /\ \A d \in depends[u] :
                    /\ pc'[d] = "done" /\ result'[d] # "none"
                    /\ pc'[u] \in {"gate", "slot", "fork", "running"} => result'[d] = "ok"
                    /\ pc'[u] = "running" =>
                         d \in view[u] \/ sub[d] = "kept" \/ d \in dropped
    <3>1. CASE pc[u] # "idle"
      <4>1. pc'[u] = pc[u] \/ pc'[u] = "done"
        BY <2>5, <3>1 DEF Ready, In
      <4>2. QED
        BY <2>2, <3>1, <4>1 DEF Supplied
    <3>2. CASE pc[u] = "idle"
      <4>1. u # t
        BY <3>2 DEF Noted
      <4>2. u \in Ready(t) /\ F(t) \notin fatal' /\ pc'[u] = "launched"
        BY <2>5, <2>6, <3>2, <4>1
      <4>3. QED
        BY <2>3, <2>4, <4>2
    <3>3. QED
      BY <3>1, <3>2
  <2>7. QED
    BY <2>6 DEF Noted, Supplied, git, plan, F
<1>7. Turns'
  BY DEF Noted, Complete, Ready, Completed, In, Turns, Types, InGate
<1>8. Undisturbed'
  BY <1>a DEF Noted, Complete, Undisturbed, Types, InGate
<1>9. QED
  BY <1>1, <1>2, <1>3, <1>4, <1>5, <1>6, <1>7, <1>8 DEF IndInv

LEMMA AskPreserves ==
  ASSUME IndInv, NEW t \in Tasks, Ask(t)
  PROVE  IndInv'
<1> USE PlanAssumption, LayoutAssumption DEF IndInv, plan, git, Ranges, HomesApart
<1>a. \A f : UseSubWorktrees(f)' <=> UseSubWorktrees(f)
  BY SameSubs DEF Ask
<1>b. Ranges
  BY InRange
<1>1. Types'
  BY DEF Ask, Goto, Types, InGate
<1>2. GateBound'
  <2>1. In(InGate)' \subseteq In(InGate) \cup {}
    BY DEF Ask, Goto, Types, InGate, In
  <2>2. QED
    BY <2>1, GateCount DEF IndInv
<1>3. SubsApart'
  BY <1>a DEF Ask, Goto, SubsApart, Types
<1>4. Locks'
  BY <1>a DEF Ask, Goto, Locks, Busy, InGate, Types
<1>5. Ends'
  BY DEF Ask, Goto, Ends, Landed, Types, Home, F, InGate
<1>6. Supplied'
  <2>1. \A d \in depends[t] : result[d] = "ok"
    BY <1>b DEF Ask, DepFailed, Supplied, Ends, Types
  <2>2. QED
    BY <1>b, <2>1 DEF Ask, Goto, Supplied, Types, F
<1>7. Turns'
  BY DEF Ask, Goto, Turns, Types, InGate
<1>8. Undisturbed'
  BY <1>a DEF Ask, Goto, Undisturbed, Types, InGate
<1>9. QED
  BY <1>1, <1>2, <1>3, <1>4, <1>5, <1>6, <1>7, <1>8 DEF IndInv

LEMMA TakeDirPreserves ==
  ASSUME IndInv, NEW t \in Tasks, TakeDir(t)
  PROVE  IndInv'
<1> USE PlanAssumption, LayoutAssumption DEF IndInv, plan, git, Ranges, HomesApart
<1>a. \A f : UseSubWorktrees(f)' <=> UseSubWorktrees(f)
  BY SameSubs DEF TakeDir
<1>b. Ranges
  BY InRange
<1>1. Types'
  BY DEF TakeDir, Goto, Types, InGate
<1>2. GateBound'
  <2>1. In(InGate)' \subseteq In(InGate) \cup {}
    BY DEF TakeDir, Goto, DirFree, In, TasksOf, Types, InGate, In
  <2>2. QED
    BY <2>1, GateCount DEF IndInv
<1>3. SubsApart'
  BY <1>a DEF TakeDir, Goto, SubsApart, Types
<1>4. Locks'
  <2>1. \A u \in Tasks : u # t /\ F(u) = F(t) /\ ~UseSubWorktrees(F(t)) => pc[u] \notin Busy
    BY DEF TakeDir, DirFree, In, TasksOf, F, Busy
  <2>2. \A u \in Tasks : pc'[u] = IF u = t THEN "slot" ELSE pc[u]
    BY DEF TakeDir, Goto, Types
  <2>3. QED
    BY <1>a, <2>1, <2>2 DEF TakeDir, Locks, F
<1>5. Ends'
  BY DEF TakeDir, Goto, Ends, Landed, Types, Home, F, InGate
<1>6. Supplied'
  BY DEF TakeDir, Goto, Supplied, Types, InGate, F
<1>7. Turns'
  BY DEF TakeDir, Goto, Turns, Types, InGate
<1>8. Undisturbed'
  BY <1>a DEF TakeDir, Goto, Undisturbed, Types, InGate
<1>9. QED
  BY <1>1, <1>2, <1>3, <1>4, <1>5, <1>6, <1>7, <1>8 DEF IndInv

LEMMA TakeSlotPreserves ==
  ASSUME IndInv, NEW t \in Tasks, TakeSlot(t)
  PROVE  IndInv'
<1> USE PlanAssumption, LayoutAssumption DEF IndInv, plan, git, Ranges, HomesApart
<1>a. \A f : UseSubWorktrees(f)' <=> UseSubWorktrees(f)
  BY SameSubs DEF TakeSlot
<1>b. Ranges
  BY InRange
<1>1. Types'
  BY <1>b DEF TakeSlot, Goto, Types, InGate
<1>2. GateBound'
  <2>1. In(InGate)' \subseteq In(InGate) \cup {t}
    BY DEF TakeSlot, Goto, Types, InGate, In
  <2>2. QED
    BY <2>1, GateCount DEF IndInv, TakeSlot
<1>3. SubsApart'
  BY <1>a DEF TakeSlot, Goto, SubsApart, Types
<1>4. Locks'
  BY <1>a DEF TakeSlot, Goto, Locks, Busy, InGate, Types
<1>5. Ends'
  BY DEF TakeSlot, Goto, Ends, Landed, Types, Home, F, InGate
<1>6. Supplied'
  <2>1. \A d \in depends[t] : result[d] = "ok" /\ pc[d] = "done"
    BY DEF TakeSlot, Supplied
  <2>2. ASSUME ~UseSubWorktrees(F(t)), NEW d \in depends[t]
        PROVE  d \in code[Home(F(t))] \/ sub[d] = "kept" \/ d \in dropped
    BY <1>b, <2>1 DEF Ends, Landed
  <2>3. ASSUME ~UseSubWorktrees(F(t)) PROVE view'[t] = code[Home(F(t))]
    BY <2>3 DEF TakeSlot, Types
  <2>4. \A u \in Tasks : u # t => pc'[u] = pc[u] /\ view'[u] = view[u]
    BY DEF TakeSlot, Goto, Types
  <2>5. pc'[t] = IF UseSubWorktrees(F(t)) THEN "fork" ELSE "running"
    BY DEF TakeSlot, Goto, Types
  <2>6. \A d \in Tasks : pc[d] = "done" => pc'[d] = "done"
    BY <2>4 DEF TakeSlot
  <2>7. ASSUME NEW u \in Tasks, pc'[u] # "idle", NEW d \in depends[u]
        PROVE  /\ pc'[d] = "done" /\ result[d] # "none"
               /\ pc'[u] \in {"gate", "slot", "fork", "running"} => result[d] = "ok"
               /\ pc'[u] = "running" =>
                    d \in view'[u] \/ sub[d] = "kept" \/ d \in dropped
    BY <1>b, <2>1, <2>2, <2>3, <2>4, <2>5, <2>6, <2>7 DEF TakeSlot, Supplied
  <2>8. \A u \in Tasks : pc'[u] # "idle" => call[F(u)] # "idle"
    BY <2>4 DEF TakeSlot, Supplied
  <2>9. QED
    BY <2>7, <2>8 DEF TakeSlot, Supplied, F
<1>7. Turns'
  BY DEF TakeSlot, Goto, Turns, Types, InGate
<1>8. Undisturbed'
  BY <1>a DEF TakeSlot, Goto, Undisturbed, Types, InGate
<1>9. QED
  BY <1>1, <1>2, <1>3, <1>4, <1>5, <1>6, <1>7, <1>8 DEF IndInv

LEMMA ForkPreserves ==
  ASSUME IndInv, NEW t \in Tasks, Fork(t)
  PROVE  IndInv'
<1> USE PlanAssumption, LayoutAssumption DEF IndInv, plan, git, Ranges, HomesApart
<1>a. \A f : UseSubWorktrees(f)' <=> UseSubWorktrees(f)
  BY SameSubs DEF Fork
<1>b. Ranges
  BY InRange
<1>c. HomesApart
  BY <1>b, OwnHomes
<1>1. Types'
  BY <1>b DEF Fork, Goto, Taint, Types, InGate
<1>2. GateBound'
  <2>1. In(InGate)' \subseteq In(InGate) \cup {}
    BY DEF Fork, Goto, GitFree, Taint, In, TasksOf, Types, InGate, In
  <2>2. QED
    BY <2>1, GateCount DEF IndInv
<1>3. SubsApart'
  BY <1>a DEF Fork, Goto, SubsApart, Types
<1>4. Locks'
  BY <1>a DEF Fork, Goto, Locks, Busy, InGate, Types
<1>5. Ends'
  BY DEF Fork, Goto, Ends, Landed, Types, Home, F, InGate
<1>6. Supplied'
  <2>1. \A d \in depends[t] : result[d] = "ok" /\ pc[d] = "done" /\ d # t
    BY DEF Fork, Supplied
  <2>2. \A d \in depends[t] :
          d \in code[Home(F(t))] \/ sub[d] = "kept" \/ d \in dropped
    BY <1>b, <2>1 DEF Ends, Landed
  <2>3. /\ code[Home(F(t))] \ dropped \subseteq view'[t]
        /\ pc'[t] = "running" /\ dropped' = dropped
    BY DEF Fork, Goto, Types
  <2>4. \A u \in Tasks : u # t => pc'[u] = pc[u] /\ view'[u] = view[u] /\ sub'[u] = sub[u]
    BY DEF Fork, Goto, Types
  <2>6. \A d \in Tasks : pc[d] = "done" => pc'[d] = "done" /\ sub'[d] = sub[d]
    BY <2>4 DEF Fork
  <2>7. ASSUME NEW u \in Tasks, pc'[u] # "idle", NEW d \in depends[u]
        PROVE  /\ pc'[d] = "done" /\ result[d] # "none"
               /\ pc'[u] \in {"gate", "slot", "fork", "running"} => result[d] = "ok"
               /\ pc'[u] = "running" =>
                    d \in view'[u] \/ sub'[d] = "kept" \/ d \in dropped'
    <3>1. d \in Tasks
      BY <1>b
    <3>2. CASE u = t
      BY <2>1, <2>2, <2>3, <2>6, <3>1, <3>2
    <3>3. CASE u # t
      BY <2>3, <2>4, <2>6, <2>7, <3>1, <3>3 DEF Supplied
    <3>4. QED
      BY <3>2, <3>3
  <2>8. \A u \in Tasks : pc'[u] # "idle" => call[F(u)] # "idle"
    BY <2>4 DEF Fork, Supplied
  <2>9. QED
    BY <2>7, <2>8 DEF Fork, Supplied, F
<1>7. Turns'
  BY DEF Fork, Goto, Turns, Types, InGate
<1>8. Undisturbed'
  <2>1. ASSUME ~MayFallBack PROVE tainted' = {}
    <3>1. \A u \in Tasks : pc[u] = "resolving" => Home(F(u)) # Home(F(t))
      BY <1>c DEF Fork, GitFree, In, TasksOf, F
    <3>2. QED
      BY <2>1, <3>1 DEF Fork, Taint, In, Undisturbed
  <2>2. ASSUME ~MayFallBack PROVE sub' = [sub EXCEPT ![t] = "worktree"]
    BY <2>2 DEF Fork
  <2>3. QED
    BY <1>a, <2>1, <2>2 DEF Fork, Goto, Undisturbed, Types, F
<1>9. QED
  BY <1>1, <1>2, <1>3, <1>4, <1>5, <1>6, <1>7, <1>8 DEF IndInv

LEMMA AgentEndsPreserves ==
  ASSUME IndInv, NEW t \in Tasks, NEW s \in {"ok", "failed"}, AgentEnds(t, s)
  PROVE  IndInv'
<1> USE PlanAssumption, LayoutAssumption DEF IndInv, plan, git, Ranges, HomesApart
<1>a. \A f : UseSubWorktrees(f)' <=> UseSubWorktrees(f)
  BY SameSubs DEF AgentEnds
<1>b. Ranges
  BY InRange
<1>c. HomesApart
  BY <1>b, OwnHomes
<1>1. Types'
  BY <1>b DEF AgentEnds, Goto, Taint, Types, InGate
<1>2. GateBound'
  <2>1. In(InGate)' \subseteq In(InGate) \cup {}
    BY DEF AgentEnds, Goto, Taint, In, Types, InGate, In
  <2>2. QED
    BY <2>1, GateCount DEF IndInv
<1>3. SubsApart'
  BY <1>a DEF AgentEnds, Goto, SubsApart, Types
<1>4. Locks'
  BY <1>a DEF AgentEnds, Goto, Locks, Busy, InGate, Types
<1>5. Ends'
  <2>1. \A h \in Homes : code[h] \subseteq code'[h]
    BY DEF AgentEnds, Types
  <2>2. \A u \in Tasks : Landed(u) => Landed(u)'
    BY <1>b, <2>1 DEF AgentEnds, Landed, Home, F
  <2>3. sub[t] # "worktree" /\ s = "ok" => Landed(t)'
    BY <1>b DEF AgentEnds, Landed, Home, F, Types
  <2>4. \A u \in Tasks : u # t =>
          /\ pc'[u] = pc[u] /\ exit'[u] = exit[u]
          /\ u \in failed' <=> u \in failed
    BY DEF AgentEnds, Goto, Types
  <2>5. /\ pc'[t] = IF sub[t] = "worktree" THEN "join" ELSE "report"
        /\ exit'[t] = s
        /\ s = "failed" => t \in failed'
        /\ s = "ok" => t \notin failed'
    BY DEF AgentEnds, Goto, Types, Ends
  <2>6. result' = result /\ reports' = reports /\ fatal' = fatal /\ layout' = layout
    BY DEF AgentEnds
  <2>7. result[t] \notin {"ok", "failed", "skipped"} /\ reports[t] # 1 /\ pc[t] = "running"
    BY DEF AgentEnds, Ends
  <2>9. QED
    BY <2>1, <2>2, <2>3, <2>4, <2>5, <2>6, <2>7 DEF Ends, F
<1>6. Supplied'
  BY DEF AgentEnds, Goto, Supplied, Types, InGate, F
<1>7. Turns'
  BY DEF AgentEnds, Goto, Turns, Types, InGate
<1>8. Undisturbed'
  <2>1. ASSUME ~MayFallBack PROVE tainted' = {}
    <3>1. ~UseSubWorktrees(F(t)) \/ sub[t] = "worktree"
      BY <2>1 DEF AgentEnds, Undisturbed
    <3>2. sub[t] # "worktree" =>
            \A u \in Tasks : pc[u] = "resolving" => Home(F(u)) # Home(F(t))
      BY <3>1, <1>c DEF SubsApart
    <3>3. QED
      BY <2>1, <3>2 DEF AgentEnds, Taint, In, Undisturbed
  <2>3. QED
    BY <1>a, <2>1 DEF AgentEnds, Goto, Undisturbed, Types, F
<1>9. QED
  BY <1>1, <1>2, <1>3, <1>4, <1>5, <1>6, <1>7, <1>8 DEF IndInv

LEMMA JoinPreserves ==
  ASSUME IndInv, NEW t \in Tasks, Join(t)
  PROVE  IndInv'
<1> USE PlanAssumption, LayoutAssumption DEF IndInv, plan, git, Ranges,
   HomesApart
<1>a. \A f : UseSubWorktrees(f)' <=> UseSubWorktrees(f)
  BY SameSubs DEF Join
<1>b. Ranges
  BY InRange
<1>1. Types'
  BY DEF Join, MergeClean, MergeConflict, CommitRefused, DropSub, Goto, Types,
     InGate
<1>2. GateBound'
  <2>1. In(InGate)' \subseteq In(InGate) \cup {}
    BY DEF Join, MergeClean, MergeConflict, CommitRefused, DropSub, Goto,
       GitFree, In,
       TasksOf, Types, InGate, In
  <2>2. QED
    BY <2>1, GateCount DEF IndInv
<1>3. SubsApart'
  BY <1>a DEF Join, MergeClean, MergeConflict, CommitRefused, DropSub, Goto,
     SubsApart, Types
<1>4. Locks'
  <2>1. \A u \in Tasks : F(u) = F(t) => pc[u] # "resolving"
    BY DEF Join, GitFree, In, TasksOf, F
  <2>2. pc'[t] \in {"resolving", "report"} /\ \A u \in Tasks : u # t => pc'[u] = pc[u]
    BY DEF Join, MergeClean, MergeConflict, CommitRefused, DropSub, Goto, Types
  <2>4. pc[t] = "join" /\ depends' = depends /\ layout' = layout
    BY DEF Join
  <2>5. \A u \in Tasks : pc'[u] \in Busy => pc[u] \in Busy
    BY <2>2, <2>4 DEF Busy, InGate
  <2>3. QED
    BY <1>a, <2>1, <2>2, <2>4, <2>5 DEF Locks, F, plan
<1>5. Ends'
  <2>1. \A h \in Homes : code[h] \subseteq code'[h]
    BY DEF Join, MergeClean, MergeConflict, CommitRefused, DropSub, Types
  <2>2. \A u \in Tasks : u # t /\ Landed(u) => Landed(u)'
    BY <1>b, <2>1 DEF Join, MergeClean, MergeConflict, CommitRefused, DropSub,
       Landed, Home, F, Types
  <2>3. exit[t] = "ok" => Landed(t)'
    BY <1>b DEF Join, MergeClean, MergeConflict, CommitRefused, Landed, Home, F,
       Types
  <2>4. \A u \in Tasks : u # t => pc'[u] = pc[u]
    BY DEF Join, MergeClean, MergeConflict, CommitRefused, DropSub, Goto, Types
  <2>5. pc'[t] \in {"resolving", "report"} /\ pc[t] = "join"
    BY DEF Join, MergeClean, MergeConflict, CommitRefused, DropSub, Goto, Types
  <2>6. /\ result' = result /\ reports' = reports /\ fatal' = fatal
        /\ layout' = layout /\ failed' = failed /\ exit' = exit
    BY DEF Join
  <2>7. QED
    BY <2>1, <2>2, <2>3, <2>4, <2>5, <2>6 DEF Ends, F
<1>6. Supplied'
  BY DEF Join, MergeClean, MergeConflict, CommitRefused, DropSub, Goto,
     Supplied, Types,
     InGate, F
<1>7. Turns'
  BY DEF Join, MergeClean, MergeConflict, CommitRefused, DropSub, Goto, Turns,
     Types, InGate
<1>8. Undisturbed'
  BY <1>a DEF Join, MergeClean, MergeConflict, CommitRefused, DropSub, Goto,
     Undisturbed,
     Types, InGate
<1>9. QED
  BY <1>1, <1>2, <1>3, <1>4, <1>5, <1>6, <1>7, <1>8 DEF IndInv

LEMMA ResolvePreserves ==
  ASSUME IndInv, NEW t \in Tasks, NEW r \in BOOLEAN, NEW m \in BOOLEAN,
         Resolve(t, r, m)
  PROVE  IndInv'
<1> USE PlanAssumption, LayoutAssumption DEF IndInv, plan, git, Ranges, HomesApart
<1>a. \A f : UseSubWorktrees(f)' <=> UseSubWorktrees(f)
  BY SameSubs DEF Resolve
<1>b. Ranges
  BY InRange
<1>1. Types'
  BY DEF Resolve, Goto, GivenUp, Types, InGate
<1>2. GateBound'
  <2>1. In(InGate)' \subseteq In(InGate) \cup {}
    BY DEF Resolve, Goto, GivenUp, Types, InGate, In
  <2>2. QED
    BY <2>1, GateCount DEF IndInv
<1>3. SubsApart'
  BY <1>a DEF Resolve, Goto, SubsApart, Types
<1>4. Locks'
  BY <1>a DEF Resolve, Goto, Locks, Busy, InGate, Types
<1>5. Ends'
  <2>1. \A h \in Homes : code[h] \subseteq code'[h]
    BY DEF Resolve, Types
  <2>2. \A u \in Tasks : u # t /\ Landed(u) => Landed(u)'
    BY <1>b, <2>1 DEF Resolve, Landed, Home, F, Types
  <2>3. Landed(t)'
    <3>1. CASE m
      BY <1>b, <3>1 DEF Resolve, Landed, Home, F, Types
    <3>2. CASE ~m /\ r
      BY <3>2 DEF Resolve, Landed
    <3>3. CASE ~m /\ ~r
      BY <3>3 DEF Resolve, Landed, Types, GivenUp
    <3>4. QED
      BY <3>1, <3>2, <3>3
  <2>4. \A u \in Tasks : u # t => pc'[u] = pc[u]
    BY DEF Resolve, Goto, Types
  <2>5. pc'[t] = "report" /\ pc[t] = "resolving"
    BY DEF Resolve, Goto, Types
  <2>6. /\ result' = result /\ reports' = reports /\ fatal' = fatal
        /\ layout' = layout /\ failed' = failed /\ exit' = exit
    BY DEF Resolve
  <2>9. QED
    BY <2>1, <2>2, <2>3, <2>4, <2>5, <2>6 DEF Ends, F
<1>6. Supplied'
  BY DEF Resolve, Goto, Supplied, Types, InGate, F
<1>7. Turns'
  BY DEF Resolve, Goto, Turns, Types, InGate
<1>8. Undisturbed'
  BY <1>a DEF Resolve, Goto, Undisturbed, Types, InGate
<1>9. QED
  BY <1>1, <1>2, <1>3, <1>4, <1>5, <1>6, <1>7, <1>8 DEF IndInv

LEMMA ReportPreserves ==
  ASSUME IndInv, NEW t \in Tasks, Report(t)
  PROVE  IndInv'
<1> USE PlanAssumption, LayoutAssumption DEF IndInv, plan, git, Ranges, HomesApart
<1>a. \A f : UseSubWorktrees(f)' <=> UseSubWorktrees(f)
  BY SameSubs DEF Report
<1>b. Ranges
  BY InRange
<1>1. Types'
  <2>1. reports' \in [Tasks -> 0 .. 1]
    BY DEF Report, Types, Ends
  <2>2. pc' \in [Tasks -> InGate \cup {"idle", "launched", "gate", "slot", "note",
                                      "abort", "done"}]
    BY DEF Report, Complete, Types
  <2>3. result' \in [Tasks -> {"none", "ok", "failed", "skipped"}]
    BY DEF Report, Types
  <2>4. QED
    BY <2>1, <2>2, <2>3 DEF Report, Types
<1>2. GateBound'
  <2>1. In(InGate)' \subseteq In(InGate) \cup {}
    BY DEF Report, Complete, In, Types, InGate, In
  <2>2. QED
    BY <2>1, GateCount DEF IndInv
<1>3. SubsApart'
  BY <1>a DEF Report, Complete, SubsApart, Types
<1>4. Locks'
  BY <1>a DEF Report, Complete, Locks, Busy, InGate, Types
<1>5. Ends'
  BY DEF Report, Complete, Ready, Completed, In, Ends, Landed, Types, Home, F,
     InGate
<1>6. Supplied'
  <2>1. result'[t] # "none" /\ \A u \in Tasks : u # t => result'[u] = result[u]
    BY DEF Report, Types, Ends
  <2>2. ASSUME NEW u \in Tasks, NEW d \in depends[u], pc[u] # "idle"
        PROVE  d # t /\ pc'[d] = "done" /\ result'[d] = result[d]
    BY <1>b, <2>1, <2>2 DEF Report, Complete, Ready, Supplied, Types
  <2>3. ASSUME NEW u \in Tasks, u \in Ready(t), F(t) \notin fatal', NEW d \in depends[u]
        PROVE  pc'[d] = "done" /\ result'[d] # "none"
    <3>1. d \in Tasks /\ F(d) = F(t) /\ (d = t \/ pc[d] = "done")
      BY <1>b, <2>3 DEF Ready, Completed, In
    <3>2. pc'[d] = "done"
      BY <3>1 DEF Report, Complete, Ready, In
    <3>3. d = t \/ result[d] # "none"
      BY <2>3, <3>1 DEF Report, Ends
    <3>4. QED
      BY <2>1, <3>1, <3>2, <3>3
  <2>4. \A u \in Tasks : u \in Ready(t) /\ F(t) \notin fatal' => call[F(u)] # "idle"
    <3>1. call[F(t)] # "idle"
      BY DEF Report, Supplied
    <3>2. QED
      BY <1>b, <3>1 DEF Ready
  <2>5. \A u \in Tasks :
          pc'[u] = IF u = t THEN "done"
                   ELSE IF u \in Ready(t) /\ F(t) \notin fatal' THEN "launched"
                   ELSE pc[u]
    BY DEF Report, Complete
  <2>6. ASSUME NEW u \in Tasks, pc'[u] # "idle"
        PROVE  /\ call[F(u)] # "idle"
               /\ \A d \in depends[u] :
                    /\ pc'[d] = "done" /\ result'[d] # "none"
                    /\ pc'[u] \in {"gate", "slot", "fork", "running"} => result'[d] = "ok"
                    /\ pc'[u] = "running" =>
                         d \in view[u] \/ sub[d] = "kept" \/ d \in dropped
    <3>1. CASE pc[u] # "idle"
      <4>1. pc'[u] = pc[u] \/ pc'[u] = "done"
        BY <2>5, <3>1 DEF Ready, In
      <4>2. QED
        BY <2>2, <3>1, <4>1 DEF Supplied
    <3>2. CASE pc[u] = "idle"
      <4>1. u # t
        BY <3>2 DEF Report
      <4>2. u \in Ready(t) /\ F(t) \notin fatal' /\ pc'[u] = "launched"
        BY <2>5, <2>6, <3>2, <4>1
      <4>3. QED
        BY <2>3, <2>4, <4>2
    <3>3. QED
      BY <3>1, <3>2
  <2>7. QED
    BY <2>6 DEF Report, Supplied, git, plan, F
<1>7. Turns'
  BY DEF Report, Complete, Ready, Completed, In, Turns, Types, InGate
<1>8. Undisturbed'
  BY <1>a DEF Report, Complete, Undisturbed, Types, InGate
<1>9. QED
  BY <1>1, <1>2, <1>3, <1>4, <1>5, <1>6, <1>7, <1>8 DEF IndInv

LEMMA RaisePreserves ==
  ASSUME IndInv, NEW t \in Tasks, Raise(t)
  PROVE  IndInv'
<1> USE PlanAssumption, LayoutAssumption DEF IndInv, plan, git, Ranges, HomesApart
<1>a. \A f : UseSubWorktrees(f)' <=> UseSubWorktrees(f)
  BY SameSubs DEF Raise
<1>b. Ranges
  BY InRange
<1>1. Types'
  BY DEF Raise, Goto, Types, InGate
<1>2. GateBound'
  <2>1. In(InGate)' \subseteq In(InGate) \cup {}
    BY DEF Raise, Goto, Types, InGate, In
  <2>2. QED
    BY <2>1, GateCount DEF IndInv
<1>3. SubsApart'
  BY <1>a DEF Raise, Goto, SubsApart, Types
<1>4. Locks'
  BY <1>a DEF Raise, Goto, Locks, Busy, InGate, Types
<1>5. Ends'
  BY DEF Raise, Goto, Ends, Landed, Types, Home, F, InGate
<1>6. Supplied'
  BY DEF Raise, Goto, Supplied, Types, InGate, F
<1>7. Turns'
  BY DEF Raise, Goto, Turns, Types, InGate
<1>8. Undisturbed'
  BY <1>a DEF Raise, Goto, Undisturbed, Types, InGate
<1>9. QED
  BY <1>1, <1>2, <1>3, <1>4, <1>5, <1>6, <1>7, <1>8 DEF IndInv

LEMMA AbortPreserves ==
  ASSUME IndInv, NEW t \in Tasks, Abort(t)
  PROVE  IndInv'
<1> USE PlanAssumption, LayoutAssumption DEF IndInv, plan, git, Ranges, HomesApart
<1>a. \A f : UseSubWorktrees(f)' <=> UseSubWorktrees(f)
  BY SameSubs DEF Abort
<1>b. Ranges
  BY InRange
<1>1. Types'
  BY <1>b DEF Abort, Complete, Types, InGate
<1>2. GateBound'
  <2>1. In(InGate)' \subseteq In(InGate) \cup {}
    BY DEF Abort, Complete, In, Types, InGate, In
  <2>2. QED
    BY <2>1, GateCount DEF IndInv
<1>3. SubsApart'
  BY <1>a DEF Abort, Complete, SubsApart, Types
<1>4. Locks'
  BY <1>a DEF Abort, Complete, Locks, Busy, InGate, Types
<1>5. Ends'
  BY DEF Abort, Complete, Ends, Landed, Types, Home, F, InGate
<1>6. Supplied'
  BY DEF Abort, Complete, Supplied, Types, InGate, F
<1>7. Turns'
  BY DEF Abort, Complete, Turns, Types, InGate
<1>8. Undisturbed'
  BY <1>a DEF Abort, Complete, Undisturbed, Types, InGate
<1>9. QED
  BY <1>1, <1>2, <1>3, <1>4, <1>5, <1>6, <1>7, <1>8 DEF IndInv

LEMMA CollectPreserves ==
  ASSUME IndInv, Collect
  PROVE  IndInv'
<1> USE PlanAssumption, LayoutAssumption DEF IndInv, plan, git, Ranges, HomesApart
<1>a. \A f : UseSubWorktrees(f)' <=> UseSubWorktrees(f)
  BY SameSubs DEF Collect, FeatureEnds, WaveReturns, WaveRaises
<1>b. Ranges
  BY InRange
<1>1. Types'
  BY DEF Collect, FeatureEnds, WaveReturns, WaveRaises, Types, InGate
<1>2. GateBound'
  <2>1. In(InGate)' \subseteq In(InGate) \cup {}
    BY DEF Collect, FeatureEnds, WaveReturns, WaveRaises, TasksOf, In, Types,
       InGate, In
  <2>2. QED
    BY <2>1, GateCount DEF IndInv
<1>3. SubsApart'
  BY <1>a DEF Collect, FeatureEnds, WaveReturns, WaveRaises, SubsApart, Types
<1>4. Locks'
  BY <1>a DEF Collect, FeatureEnds, WaveReturns, WaveRaises, Locks, Busy,
     InGate, Types
<1>5. Ends'
  BY DEF Collect, FeatureEnds, WaveReturns, WaveRaises, Ends, Landed, Types,
     Home, F, InGate
<1>6. Supplied'
  BY DEF Collect, FeatureEnds, WaveReturns, WaveRaises, Supplied, Types, InGate,
     F
<1>7. Turns'
  <2>1. ASSUME NEW f \in Features, FeatureEnds(f) PROVE Turns'
    <3>1. \A u \in Tasks : F(u) = f /\ call'[f] = "returned" => pc[u] = "done"
      BY <2>1 DEF FeatureEnds, TasksOf, Completed, In, F, Types
    <3>2. \A g \in Features : g # f => call'[g] = call[g]
      BY <2>1 DEF FeatureEnds, Types
    <3>3. call[f] = "open" /\ pc' = pc /\ layout' = layout
      BY <2>1 DEF FeatureEnds
    <3>4. \A u \in Tasks : call'[F(u)] = "returned" => pc'[u] = "done"
      BY <1>b, <3>1, <3>2, <3>3 DEF Turns
    <3>5. ASSUME ~layout.useGit, NEW g \in Features, NEW h \in Features,
                 g < h, call'[h] # "idle"
          PROVE  call'[g] = "returned"
      <4>1. call[h] # "idle"
        BY <3>2, <3>3, <3>5
      <4>2. call[g] = "returned"
        BY <3>5, <4>1 DEF Turns
      <4>3. QED
        BY <3>2, <3>3, <4>2
    <3>6. QED
      BY <3>3, <3>4, <3>5 DEF Turns, F
  <2>2. CASE WaveReturns \/ WaveRaises
    BY <2>2 DEF WaveReturns, WaveRaises, Turns, F
  <2>3. QED
    BY <2>1, <2>2 DEF Collect
<1>8. Undisturbed'
  BY <1>a DEF Collect, FeatureEnds, WaveReturns, WaveRaises, Undisturbed, Types,
     InGate
<1>9. QED
  BY <1>1, <1>2, <1>3, <1>4, <1>5, <1>6, <1>7, <1>8 DEF IndInv

-----------------------------------------------------------------------------
LEMMA StepPreserves == IndInv /\ [Next]_vars => IndInv'
<1> SUFFICES ASSUME IndInv, [Next]_vars PROVE IndInv'
  OBVIOUS
<1>1. ASSUME NEW t \in Tasks, Proceed(t) PROVE IndInv'
  BY <1>1, SkipFailedPreserves, SkipResumedPreserves, NotedPreserves,
     AskPreserves, TakeDirPreserves, TakeSlotPreserves, ForkPreserves,
     AgentEndsPreserves, JoinPreserves, ResolvePreserves, ReportPreserves,
     AbortPreserves
     DEF Proceed
<1>2. CASE UNCHANGED vars
  <2>1. \A f : UseSubWorktrees(f)' <=> UseSubWorktrees(f)
    BY <1>2, SameSubs DEF vars
  <2>2. Types' /\ GateBound'
    BY <1>2 DEF IndInv, Types, GateBound, In, vars, plan, git
  <2>3. SubsApart' /\ Locks' /\ Undisturbed'
    BY <1>2, <2>1 DEF IndInv, SubsApart, Locks, Undisturbed, vars, plan, git
  <2>4. Ends' /\ Supplied' /\ Turns'
    BY <1>2 DEF IndInv, Ends, Landed, Home, Supplied, Turns, vars, plan, git
  <2>5. QED
    BY <2>2, <2>3, <2>4 DEF IndInv
<1>3. QED
  BY <1>1, <1>2, StartFeaturePreserves, RaisePreserves, CollectPreserves
     DEF Next

LEMMA Invariance == Spec => []IndInv
BY InitHolds, StepPreserves, PTL DEF Spec

\* TypeOK, with the bound of the semaphore that execute_wave shares between the
\* features.
THEOREM TypeCorrect == Spec => []TypeOK
<1>1. IndInv => TypeOK
  BY DEF IndInv, Types, GateBound, TypeOK
<1>2. QED
  BY <1>1, Invariance, PTL

\* The agent of a task starts in a directory that has the work of all its
\* dependencies, or the branch of the one that is missing is still there, or
\* its work was dropped by a commit that git refused or by an agent that gave
\* up a merge and reported success: whatever else fails or raises, with and without sub-worktrees, and also when
\* their creation fails.
THEOREM DependenciesAreSeen == Spec => []SeesDependencies
<1>1. IndInv => SeesDependencies
  BY DEF IndInv, Supplied, SeesDependencies, In
<1>2. QED
  BY <1>1, Invariance, PTL

\* What on_task_end was told is completed is in the directory of the feature or
\* on the branch of the task, but for what merge_single_sub_worktree drops
\* without noticing: a commit that git refused, a merge that the resolving
\* agent gave up while it reported success.
THEOREM NoWorkIsLost == Spec => []WorkKept
<1>1. IndInv => WorkKept
  BY DEF IndInv, Ends, Landed, WorkKept
<1>2. QED
  BY <1>1, Invariance, PTL

\* As long as sub-worktrees can be created nothing is committed while an agent
\* resolves the conflicts of a merge in the same directory.
THEOREM MergesAreClean == ~MayFallBack => (Spec => []CleanMerges)
<1> SUFFICES ASSUME ~MayFallBack PROVE Spec => []CleanMerges
  OBVIOUS
<1>1. IndInv => CleanMerges
  BY DEF IndInv, Undisturbed, CleanMerges
<1>2. QED
  BY <1>1, Invariance, PTL

\* Two agents in one directory would be in one feature, where dir_lock or the
\* sub-worktrees separate them, or in two that share the directory of the
\* execution.
LEMMA AgentsApart == ~MayFallBack /\ ApartLayouts /\ IndInv => DirectoryExclusive
<1> SUFFICES ASSUME ~MayFallBack, ApartLayouts, IndInv,
                    NEW t \in Tasks, NEW u \in Tasks, t # u,
                    pc[t] \in {"running", "resolving"},
                    pc[u] \in {"running", "resolving"},
                    Cwd(t) = Cwd(u)
             PROVE  FALSE
  BY DEF DirectoryExclusive, In
<1> USE DEF IndInv
<1>0. Ranges
  BY InRange
<1>1. /\ Home(F(t)) = Home(F(u))
      /\ \A v \in {t, u} : ~(pc[v] = "running" /\ sub[v] = "worktree")
  BY DEF Cwd
<1>2. \A v \in {t, u} : pc[v] = IF UseSubWorktrees(F(v)) THEN "resolving" ELSE "running"
  BY <1>1 DEF Undisturbed, SubsApart
<1>3. CASE F(t) = F(u)
  BY <1>2, <1>3 DEF Locks, Busy, InGate
<1>4. CASE F(t) # F(u)
  <2>1. F(t) \notin layout.isolated /\ F(u) \notin layout.isolated
    BY <1>0, <1>1, <1>4 DEF Home, Ranges, Features
  <2>2. ~layout.useGit
    BY <1>0, <1>4, <2>1 DEF ApartLayouts, Ranges, Types
  <2>3. /\ call[F(t)] \notin {"idle", "returned"}
        /\ call[F(u)] \notin {"idle", "returned"}
    BY DEF Supplied, Turns
  <2>4. F(t) < F(u) \/ F(u) < F(t)
    BY <1>0, <1>4 DEF Ranges, Features
  <2>5. QED
    BY <1>0, <2>2, <2>3, <2>4 DEF Turns, Ranges
<1>5. QED
  BY <1>3, <1>4

\* As long as sub-worktrees can be created, and all feature worktrees but one, no
\* two agents work in one directory, those that resolve conflicts included.
THEOREM AgentsWorkApart ==
  ~MayFallBack /\ ApartLayouts => (Spec => []DirectoryExclusive)
<1> SUFFICES ASSUME ~MayFallBack, ApartLayouts
             PROVE  Spec => []DirectoryExclusive
  OBVIOUS
<1>1. IndInv => DirectoryExclusive
  BY AgentsApart
<1>2. QED
  BY <1>1, Invariance, PTL
=============================================================================
