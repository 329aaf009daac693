-------------------------- MODULE Repository_proofs --------------------------
(***************************************************************************)
(* Theorems about the two components that share a repository with others   *)
(* outside of the executions: RepoCache, the clone that executions start   *)
(* from, and QuickFix, the requests that deliver to a branch.              *)
(***************************************************************************)
EXTENDS RepoCache, QuickFix, TLAPS

(***************************************************************************)
(* RepoCache, for any callers, pushes and crashes.                         *)
(*                                                                         *)
(* As long as no command has been interrupted, whoever has the asyncio     *)
(* lock is the only one with a git command (Serial).  Then the reference   *)
(* that fetch has read is still there when it writes (Commands), the clone *)
(* is complete unless somebody is cloning (Whole), and nobody has a path   *)
(* in hand while somebody is cloning (Handed): nothing can fail that the   *)
(* remote does not refuse.                                                 *)
(*                                                                         *)
(* The second half is about what an execution starts from, as long as      *)
(* nothing but fetches has been interrupted.                               *)
(***************************************************************************)

Serial ==
  \A c \in Callers :
    /\ proc[c] # "none" => pc[c] = "git"
    /\ pc[c] = "git" => lock = c /\ proc[c] # "none"

Commands ==
  \A c \in Callers :
    /\ proc[c] \in {"clone", "fetch"} => got[c] # 0
    /\ proc[c] \in {"checkout", "reset"} => got[c] # 0 /\ exists
    /\ proc[c] = "fetch" => exists /\ base[c] = tracking
    /\ proc[c] = "clone" => tracking = 0

Whole ==
  /\ exists /\ (\A c \in Callers : proc[c] # "clone") => tracking # 0 /\ head # 0
  /\ ~exists => tracking = 0 /\ head = 0

Handed ==
  \A c \in Callers :
    pc[c] = "ready" => exists /\ \A d \in Callers : proc[d] # "clone"

Undisturbed == torn = {} => Serial /\ Commands /\ Whole /\ Handed

IndInv == TypeOK /\ remote # 0 /\ Undisturbed /\ NoRaces

LEMMA InitEstablishes == Init => IndInv
<1> SUFFICES ASSUME Init PROVE IndInv
  OBVIOUS
<1> USE BoundsAssumption DEF Init
<1>1. TypeOK
  <2>1. 0 \in Versions /\ 1 \in Versions
    BY DEF Versions
  <2>2. base \in [Callers -> Versions] /\ got = base /\ asked = base /\ start = base
    BY <2>1
  <2>3. pc \in [Callers -> {"idle"}] /\ proc \in [Callers -> {"none"}]
    OBVIOUS
  <2>4. crashes \in 0 .. MaxCrashes /\ offline \subseteq Callers /\ torn \subseteq Kinds
    OBVIOUS
  <2>5. QED
    BY <2>1, <2>2, <2>3, <2>4 DEF TypeOK
<1>2. Undisturbed /\ NoRaces /\ remote # 0
  BY DEF Undisturbed, Serial, Commands, Whole, Handed, NoRaces
<1>3. QED
  BY <1>1, <1>2 DEF IndInv

LEMMA TypesPreserved == TypeOK /\ [Next]_vars => TypeOK'
<1> SUFFICES ASSUME TypeOK, [Next]_vars PROVE TypeOK'
  OBVIOUS
<1> USE BoundsAssumption DEF TypeOK, Versions, Kinds, Live, clone
<1>1. ASSUME NEW c \in Callers, CloneEnds(c) PROVE TypeOK'
  <2>1. got[c] \in Versions /\ 0 \in Versions
    BY <1>1 DEF Versions
  <2>2. exists' \in BOOLEAN /\ originHead' \in BOOLEAN /\ tracking' \in Versions /\ head' \in Versions
    BY <1>1, <2>1 DEF CloneEnds
  <2>3. (Leave(c, "ready") \/ Leave(c, "failed") \/ Orphan(c)) /\ offline' \subseteq Callers
    BY <1>1 DEF CloneEnds
  <2>4. QED
    BY <1>1, <2>2, <2>3 DEF CloneEnds, Leave, Orphan
<1>2. ASSUME NEW c \in Callers, FetchEnds(c) PROVE TypeOK'
  BY <1>2 DEF FetchEnds, Fetched, AfterFetch, Overtaken, Continues, Leave, Orphan, Spawn
<1>3. ASSUME NEW c \in Callers, CheckoutEnds(c) PROVE TypeOK'
  BY <1>3 DEF CheckoutEnds, Continues, Orphan
<1>4. ASSUME NEW c \in Callers, ResetEnds(c) PROVE TypeOK'
  BY <1>4 DEF ResetEnds, Continues, Leave, Orphan
<1>5. ASSUME NEW c \in Callers, Call(c) PROVE TypeOK'
  BY <1>5 DEF Call
<1>6. ASSUME NEW c \in Callers, Enter(c) PROVE TypeOK'
  BY <1>6 DEF Enter, LockFree, Spawn
<1>7. ASSUME NEW c \in Callers, SetUp(c) PROVE TypeOK'
  BY <1>7 DEF SetUp
<1>8. ASSUME NEW c \in Callers, Cancel(c) PROVE TypeOK'
  BY <1>8 DEF Cancel, Unlocked
<1>9. ASSUME Crash PROVE TypeOK'
  <2>1. pc' \in [Callers -> Live \cup {"idle", "started", "failed", "cancelled", "lost"}]
    BY <1>9 DEF Crash
  <2>2. exists' \in BOOLEAN /\ originHead' \in BOOLEAN /\ tracking' \in Versions /\ head' \in Versions
    <3>1. CASE UNCHANGED clone
      BY <3>1
    <3>2. CASE \E c \in Callers : tracking' = got[c] /\ head' = got[c] /\ originHead' = TRUE
                                  /\ UNCHANGED exists
      BY <3>2
    <3>3. QED
      BY <1>9, <3>1, <3>2 DEF Crash
  <2>3. torn' \subseteq Kinds
    <3>1. \A c \in Callers : proc[c] \in Kinds \cup {"none"}
      OBVIOUS
    <3> HIDE DEF Kinds
    <3>2. {proc[c] : c \in Callers} \ {"none"} \subseteq Kinds
      BY <3>1, Zenon
    <3>3. QED
      BY <1>9, <3>2 DEF Crash
  <2>4. QED
    BY <1>9, <2>1, <2>2, <2>3 DEF Crash
<1>10. ASSUME Push PROVE TypeOK'
  BY <1>10 DEF Push
<1>11. CASE UNCHANGED vars
  BY <1>11 DEF vars
<1>12. QED
  BY <1>1, <1>2, <1>3, <1>4, <1>5, <1>6, <1>7, <1>8, <1>9, <1>10, <1>11 DEF Next, CallStep, GitEnds

LEMMA StepPreserves == IndInv /\ [Next]_vars => IndInv'
<1> SUFFICES ASSUME IndInv, [Next]_vars PROVE IndInv'
  OBVIOUS
<1>0. TypeOK'
  BY TypesPreserved DEF IndInv
<1> USE BoundsAssumption, HoldersAssumption
<1> USE DEF IndInv, TypeOK, Undisturbed, Serial, Commands, Whole, Handed, NoRaces, clone, Live, Kinds, Versions
<1>1. ASSUME NEW c \in Callers, CloneEnds(c) PROVE IndInv'
  BY <1>1, <1>0 DEF CloneEnds, Continues, Leave, Orphan
<1>2. ASSUME NEW c \in Callers, FetchEnds(c) PROVE IndInv'
  BY <1>2, <1>0 DEF FetchEnds, Fetched, AfterFetch, Overtaken, Continues, Leave, Orphan, Spawn
<1>3. ASSUME NEW c \in Callers, CheckoutEnds(c) PROVE IndInv'
  BY <1>3, <1>0 DEF CheckoutEnds, Continues, Orphan
<1>4. ASSUME NEW c \in Callers, ResetEnds(c) PROVE IndInv'
  BY <1>4, <1>0 DEF ResetEnds, Continues, Leave, Orphan
<1>5. ASSUME NEW c \in Callers, Call(c) PROVE IndInv'
  BY <1>5, <1>0 DEF Call
<1>6. ASSUME NEW c \in Callers, Enter(c) PROVE IndInv'
  BY <1>6, <1>0 DEF Enter, LockFree, Spawn
<1>7. ASSUME NEW c \in Callers, SetUp(c) PROVE IndInv'
  BY <1>7, <1>0 DEF SetUp
<1>8. ASSUME NEW c \in Callers, Cancel(c) PROVE IndInv'
  BY <1>8, <1>0 DEF Cancel, Unlocked
<1>9. ASSUME Crash PROVE IndInv'
  <2>1. CASE \A c \in Callers : proc[c] = "none"
    <3>1. UNCHANGED clone
      BY <1>9, <2>1 DEF Crash
    <3>2. torn' = torn
      BY <1>9, <2>1 DEF Crash
    <3>3. QED
      BY <1>9, <1>0, <2>1, <3>1, <3>2 DEF Crash
  <2>2. CASE \E c \in Callers : proc[c] # "none"
    <3>1. torn' # {}
      BY <1>9, <2>2 DEF Crash
    <3>2. QED
      BY <1>9, <1>0, <3>1 DEF Crash
  <2>3. QED
    BY <2>1, <2>2
<1>10. ASSUME Push PROVE IndInv'
  BY <1>10, <1>0 DEF Push
<1>11. CASE UNCHANGED vars
  BY <1>11, <1>0 DEF vars
<1>12. QED
  BY <1>1, <1>2, <1>3, <1>4, <1>5, <1>6, <1>7, <1>8, <1>9, <1>10, <1>11 DEF Next, CallStep, GitEnds

\* The variables keep their types, whatever is cancelled or killed.
THEOREM CacheTypes == Spec => []TypeOK
<1>1. Init => IndInv
  BY InitEstablishes
<1>2. IndInv /\ [Next]_vars => IndInv'
  BY StepPreserves
<1>3. IndInv => TypeOK
  BY DEF IndInv
<1>4. QED
  BY <1>1, <1>2, <1>3, PTL DEF Spec

\* A call fails only if the remote was out of its reach, or after a command
\* was interrupted: calls do not make each other fail.
THEOREM CallsDoNotRace == Spec => []NoRaces
<1>1. Init => IndInv
  BY InitEstablishes
<1>2. IndInv /\ [Next]_vars => IndInv'
  BY StepPreserves
<1>3. IndInv => NoRaces
  BY DEF IndInv
<1>4. QED
  BY <1>1, <1>2, <1>3, PTL DEF Spec
-----------------------------------------------------------------------------
(* Why an execution starts fresh: a cancelled call leaves at most a fetch  *)
(* behind (Orphans), so checkout and reset always get index.lock (Locks);  *)
(* nothing makes the fetched reference older (Fetches, Tracked), and the   *)
(* local branch is brought up to it before the path is handed out.         *)

Orphans ==
  \A c \in Callers :
    /\ proc[c] \in {"clone", "checkout", "reset"} => pc[c] = "git"
    /\ pc[c] = "git" => lock = c /\ proc[c] # "none"
    /\ proc[c] # "none" => pc[c] \in {"git", "cancelled"}

Locks ==
  \A c \in Callers : proc[c] \in {"checkout", "reset"} <=> indexLock = c

Tracked ==
  /\ indexLock # Stale /\ remote # 0
  /\ exists /\ (\A c \in Callers : proc[c] # "clone") => head # 0 /\ originHead
  /\ head <= tracking /\ tracking <= remote
  /\ (\E c \in Callers : proc[c] = "clone") \/ ~exists => tracking = 0

Fetches ==
  \A c \in Callers :
    /\ proc[c] \in {"clone", "fetch"} =>
         got[c] # 0 /\ asked[c] <= got[c] /\ got[c] <= remote
    /\ proc[c] = "fetch" =>
         /\ exists /\ \A d \in Callers : proc[d] # "clone"
         /\ base[c] <= got[c] /\ base[c] <= tracking
    /\ proc[c] \in {"checkout", "reset"} =>
         /\ exists /\ \A d \in Callers : proc[d] # "clone"
         /\ asked[c] <= tracking
    /\ proc[c] = "reset" => asked[c] <= got[c] /\ head <= got[c] /\ got[c] <= tracking

Served ==
  \A c \in Callers :
    /\ asked[c] <= remote
    /\ pc[c] = "ready" =>
         /\ exists /\ \A d \in Callers : proc[d] # "clone"
         /\ asked[c] <= head
    /\ pc[c] = "started" => asked[c] <= start[c]

OnlyFetchesTorn ==
  torn \subseteq {"fetch"} => Orphans /\ Locks /\ Tracked /\ Fetches /\ Served

FreshInv == TypeOK /\ OnlyFetchesTorn

LEMMA FreshInit == Init => FreshInv
<1> SUFFICES ASSUME Init PROVE FreshInv
  OBVIOUS
<1>1. TypeOK
  BY InitEstablishes DEF IndInv
<1>2. OnlyFetchesTorn
  BY HoldersAssumption DEF Init, OnlyFetchesTorn, Orphans, Locks, Tracked, Fetches, Served
<1>3. QED
  BY <1>1, <1>2 DEF FreshInv

LEMMA FreshStep == FreshInv /\ [Next]_vars => FreshInv'
<1> SUFFICES ASSUME FreshInv, [Next]_vars PROVE FreshInv'
  OBVIOUS
<1>0. TypeOK'
  BY TypesPreserved DEF FreshInv
<1> USE HoldersAssumption
<1> USE DEF FreshInv, TypeOK, OnlyFetchesTorn, Orphans, Locks, Tracked, Fetches, Served, clone, Live, Kinds, Versions
<1>1. ASSUME NEW c \in Callers, CloneEnds(c) PROVE FreshInv'
  <2> SUFFICES ASSUME torn \subseteq {"fetch"}
               PROVE  (Orphans /\ Locks /\ Tracked /\ Fetches /\ Served)'
    BY <1>1, <1>0 DEF CloneEnds
  <2>1. /\ proc[c] = "clone" /\ pc[c] = "git" /\ lock = c /\ indexLock' = indexLock
        /\ \A d \in Callers \ {c} : proc[d] = "none" /\ pc[d] # "ready"
    BY <1>1 DEF CloneEnds
  <2>2. /\ proc' = [proc EXCEPT ![c] = "none"] /\ UNCHANGED <<got, base, asked, start, remote>>
        /\ pc' = [pc EXCEPT ![c] = pc'[c]] /\ pc'[c] \in {"ready", "failed"}
    BY <1>1, <2>1 DEF CloneEnds, Continues, Leave, Orphan
  <2>3. \/ exists' /\ originHead' /\ tracking' = got[c] /\ head' = got[c]
        \/ pc'[c] = "failed" /\ ~exists' /\ tracking' = 0 /\ head' = 0
    BY <1>1, <2>1 DEF CloneEnds, Continues, Leave, Orphan
  <2>4. (Orphans /\ Locks /\ Fetches)'
    BY <2>1, <2>2, <2>3
  <2>5. got[c] # 0
    BY <2>1
  <2>6. (Tracked /\ Served)'
    BY <1>0, <2>1, <2>2, <2>3, <2>5
  <2>7. QED
    BY <2>4, <2>6
<1>2. ASSUME NEW c \in Callers, FetchEnds(c) PROVE FreshInv'
  BY <1>2, <1>0 DEF FetchEnds, Fetched, AfterFetch, Overtaken, Continues, Leave, Orphan, Spawn
<1>3. ASSUME NEW c \in Callers, CheckoutEnds(c) PROVE FreshInv'
  BY <1>3, <1>0 DEF CheckoutEnds, Continues, Orphan
<1>4. ASSUME NEW c \in Callers, ResetEnds(c) PROVE FreshInv'
  BY <1>4, <1>0 DEF ResetEnds, Continues, Leave, Orphan
<1>5. ASSUME NEW c \in Callers, Call(c) PROVE FreshInv'
  BY <1>5, <1>0 DEF Call
<1>6. ASSUME NEW c \in Callers, Enter(c) PROVE FreshInv'
  BY <1>6, <1>0 DEF Enter, LockFree, Spawn
<1>7. ASSUME NEW c \in Callers, SetUp(c) PROVE FreshInv'
  BY <1>7, <1>0 DEF SetUp
<1>8. ASSUME NEW c \in Callers, Cancel(c) PROVE FreshInv'
  BY <1>8, <1>0 DEF Cancel, Unlocked
<1>9. ASSUME Crash PROVE FreshInv'
  <2> SUFFICES ASSUME torn' \subseteq {"fetch"}
               PROVE  (Orphans /\ Locks /\ Tracked /\ Fetches /\ Served)'
    BY <1>0
  <2>1. torn \subseteq {"fetch"} /\ \A c \in Callers : proc[c] \in {"fetch", "none"}
    BY <1>9 DEF Crash
  <2>2. UNCHANGED clone /\ indexLock' = indexLock
    BY <1>9, <2>1 DEF Crash
  <2>3. QED
    BY <1>9, <1>0, <2>1, <2>2 DEF Crash
<1>10. ASSUME Push PROVE FreshInv'
  BY <1>10, <1>0 DEF Push
<1>11. CASE UNCHANGED vars
  BY <1>11, <1>0 DEF vars
<1>12. QED
  BY <1>1, <1>2, <1>3, <1>4, <1>5, <1>6, <1>7, <1>8, <1>9, <1>10, <1>11 DEF Next, CallStep, GitEnds

\* An execution starts from a commit at least as new as the remote was when it
\* asked, unless a clone, a checkout or a reset was interrupted: that the exit
\* codes of the last two are ignored does no harm before.
THEOREM StartsAreFresh == Spec => []StartsFresh
<1>1. Init => FreshInv
  BY FreshInit
<1>2. FreshInv /\ [Next]_vars => FreshInv'
  BY FreshStep
<1>3. FreshInv => StartsFresh
  BY DEF FreshInv, TypeOK, Versions, OnlyFetchesTorn, Served, StartsFresh
<1>4. QED
  BY <1>1, <1>2, <1>3, PTL DEF Spec
-----------------------------------------------------------------------------
(***************************************************************************)
(* QuickFix, for any requests, promotions and branch names.                *)
(*                                                                         *)
(* The invariant relates four parts.   Branches: what GitHub has of a      *)
(* branch is in the local branch too, so that a push loses nothing.        *)
(* Merging: a fix delivered with its push stays in the pushed branch, and  *)
(* its pull request is opened after that push, so the merge, whoever makes *)
(* it, brings the fix to the target; promote_pr reaches its last step only *)
(* behind a merge.  Trees: a worktree that lies at the path has a request  *)
(* that is going to remove it.  Fixing: as long as nobody has removed the  *)
(* worktree of a request, the branch it has checked out is the request's,  *)
(* and the change of its agent is in the worktree or committed there.      *)
(***************************************************************************)
\* Nothing is committed that no agent has written.
Written == tree.dirt \subseteq wrote /\ \A b \in Branches : local[b] \subseteq wrote

PushedIsLocal == \A b \in Branches : pushed[b] \subseteq local[b]

\* Before its push has ended a request has no pull request.
BeforePr == {"asked", "clear", "branch", "attach", "create", "working",
             "commit", "push", "open"}

Merging ==
  /\ \A q \in Fixes : stage[q] \in BeforePr => pr[q] = "none"
  /\ \A q \in Fixes : q \in delivered => q \in pushed[branch[q]]
  /\ \A q \in Fixes : pr[q] = "merged" /\ q \in delivered => q \in target
  /\ \A c \in Promoters :
       step[c] = "promote" \/ c \in promoted => pr[Subject(c)] = "merged"

TreeIsHeld == tree # NoTree => \E q \in Fixes : stage[q] \in InTree

Untouched(q) == q \in wrote \ (unsaved \cup disturbed)

Fixing ==
  /\ \A q \in Fixes : stage[q] \in {"asked", "clear", "branch", "attach", "create"}
                       => q \notin wrote
  /\ \A q \in prUrl : q \in Fixes /\ pr[q] # "none"
  /\ \A q \in Fixes \ disturbed :
       stage[q] \in InTree => tree # NoTree /\ tree.head = branch[q]
  /\ \A q \in Fixes : stage[q] \in {"working", "commit"} /\ q \in wrote \ disturbed
                       => q \in tree.dirt \cup local[branch[q]]
  /\ \A q \in Fixes : stage[q] = "push" /\ Untouched(q) => q \in local[branch[q]]
  /\ \A q \in Fixes : (stage[q] = "open" \/ q \in prUrl) /\ Untouched(q)
                       => q \in delivered

Promoting == \A q \in Fixes : step[q] \notin {"idle", "over"} => stage[q] = "promoting"

QFInv == QFTypeOK /\ Written /\ PushedIsLocal /\ Merging /\ TreeIsHeld /\ Fixing
          /\ Promoting

LEMMA QFInitEstablishes == QFInit => QFInv
<1> SUFFICES ASSUME QFInit PROVE QFInv
  OBVIOUS
<1> USE DEF QFInit, NoTree, InTree, Promoters
<1>1. QFTypeOK
  BY DEF QFTypeOK
<1>2. Written /\ PushedIsLocal /\ Merging
  BY DEF Written, PushedIsLocal, Merging, BeforePr
<1>3. TreeIsHeld /\ Fixing /\ Promoting
  BY DEF TreeIsHeld, Fixing, Promoting, Untouched
<1>4. QED
  BY <1>1, <1>2, <1>3 DEF QFInv

LEMMA QFStepPreserves == QFInv /\ [QFNext]_QFvars => QFInv'
<1> SUFFICES ASSUME QFInv, [QFNext]_QFvars PROVE QFInv'
  OBVIOUS
<1> USE BranchesAssumption, CallersAssumption
<1> USE DEF QFInv, QFTypeOK, Written, PushedIsLocal, Merging, TreeIsHeld, Fixing, Promoting, Untouched
<1> USE DEF InTree, BeforePr, Promoters, Subject, request, git, github, calls, history
<1>1. ASSUME NEW q \in Fixes, Look(q) PROVE QFInv'
  BY <1>1 DEF Look, Move
<1>2. ASSUME NEW q \in Fixes, Clear(q) PROVE QFInv'
  BY <1>2 DEF Clear, Move, Remove, NoTree
<1>3. ASSUME NEW q \in Fixes, FindBranch(q) PROVE QFInv'
  BY <1>3 DEF FindBranch, Move
<1>4. ASSUME NEW q \in Fixes, AddTree(q) PROVE QFInv'
  BY <1>4 DEF AddTree, Made, Attached, NoTree
<1>5. ASSUME NEW q \in Fixes, AddTreeFails(q) PROVE QFInv'
  BY <1>5 DEF AddTreeFails
<1>6. ASSUME NEW q \in Fixes, WorkerWrites(q) PROVE QFInv'
  BY <1>6 DEF WorkerWrites, NoTree
<1>7. ASSUME NEW q \in Fixes, WorkerSucceeds(q) PROVE QFInv'
  BY <1>7 DEF WorkerSucceeds, Move
<1>8. ASSUME NEW q \in Fixes, WorkerFails(q) PROVE QFInv'
  BY <1>8 DEF WorkerFails, Answer
<1>9. ASSUME NEW q \in Fixes, Commit(q) PROVE QFInv'
  BY <1>9 DEF Commit, Move, NoTree
<1>10. ASSUME NEW q \in Fixes, PushBranch(q) PROVE QFInv'
  BY <1>10 DEF PushBranch, Move, Pushed
<1>11. ASSUME NEW q \in Fixes, NoPush(q) PROVE QFInv'
  BY <1>11 DEF NoPush, Answer
<1>12. ASSUME NEW q \in Fixes, Raise(q) PROVE QFInv'
  BY <1>12 DEF Raise, Answer
<1>13. ASSUME NEW q \in Fixes, OpenPr(q) PROVE QFInv'
  BY <1>13 DEF OpenPr, Move, Answer, Accepted
<1>14. ASSUME NEW q \in Fixes, OpenPrUnheard(q) PROVE QFInv'
  BY <1>14 DEF OpenPrUnheard, Answer, Accepted
<1>15. ASSUME NEW q \in Fixes, OpenPrRefused(q) PROVE QFInv'
  BY <1>15 DEF OpenPrRefused, Answer
<1>16. ASSUME NEW q \in Fixes, Cleanup(q) PROVE QFInv'
  BY <1>16 DEF Cleanup, Move, TreeAfter, NoTree
<1>17. ASSUME NEW q \in Fixes, PersonCloses(q) PROVE QFInv'
  BY <1>17 DEF PersonCloses
<1>18. ASSUME NEW q \in Fixes, PersonMerges(q) PROVE QFInv'
  BY <1>18 DEF PersonMerges, Merges
<1>19. ASSUME NEW p \in Promotions, AskPromotion(p) PROVE QFInv'
  BY <1>19 DEF AskPromotion
<1>20. ASSUME NEW c \in Promoters, GetPr(c) PROVE QFInv'
  BY <1>20 DEF GetPr, IsMerged, Proceed
<1>21. ASSUME NEW c \in Promoters, Approve(c) PROVE QFInv'
  BY <1>21 DEF Approve, Proceed
<1>22. ASSUME NEW c \in Promoters, MergePr(c) PROVE QFInv'
  <2>1. CASE Proceed(c, "merge", "promote")
    BY <1>22, <2>1 DEF MergePr, Merges, Proceed
  <2>2. CASE Return(c, FALSE)
    BY <1>22, <2>2 DEF MergePr, Merges, Return, Answer
  <2>3. QED
    BY <1>22, <2>1, <2>2 DEF MergePr
<1>23. ASSUME NEW c \in Promoters, GiveUp(c) PROVE QFInv'
  BY <1>23 DEF GiveUp, Return, Answer
<1>24. ASSUME NEW c \in Promoters, CreatePromotion(c) PROVE QFInv'
  <2>1. PICK heard \in BOOLEAN : Return(c, heard)
    BY <1>24 DEF CreatePromotion
  <2>2. step[c] = "promote" /\ promotion' \in BOOLEAN
        /\ UNCHANGED <<git, pushed, pr, target, main, history>>
    BY <1>24 DEF CreatePromotion, QFTypeOK
  <2>3. QED
    BY <2>1, <2>2 DEF Return, Answer
<1>25. CASE PersonPromotes
  BY <1>25 DEF PersonPromotes
<1>26. CASE UNCHANGED QFvars
  BY <1>26 DEF QFvars, NoTree
<1>27. QED
  BY <1>1, <1>2, <1>3, <1>4, <1>5, <1>6, <1>7, <1>8, <1>9, <1>10, <1>11, <1>12, <1>13, <1>14, <1>15, <1>16, <1>17, <1>18, <1>19, <1>20, <1>21, <1>22, <1>23, <1>24, <1>25, <1>26 DEF QFNext, Handler, Promotion, QFvars

LEMMA QFInvariance == QFSpec => []QFInv
<1>1. QED
  BY QFInitEstablishes, QFStepPreserves, PTL DEF QFSpec

\* QFTypeOK, with no pull request that is promised and not opened.
THEOREM QuickFixTypes == QFSpec => []QFTypeOK
<1>1. QFInv => QFTypeOK
  BY DEF QFInv
<1>2. QED
  BY <1>1, QFInvariance, PTL

\* NoTreeLeft: the finally clause of some request is still to come as long as
\* a worktree lies at the path.
THEOREM TreesAreRemoved == QFSpec => []NoTreeLeft
<1>1. QFInv => NoTreeLeft
  BY DEF QFInv, TreeIsHeld, NoTreeLeft, InTree
<1>2. QED
  BY <1>1, QFInvariance, PTL

\* PromotedIsOnTarget: a fix delivered under a promoted pull request is on the
\* target branch.
THEOREM PromotionMeansMerged == QFSpec => []PromotedIsOnTarget
<1>1. QFInv => PromotedIsOnTarget
  BY DEF QFInv, QFTypeOK, Written, Merging, PromotedIsOnTarget, Subject, Promoters
<1>2. QED
  BY <1>1, QFInvariance, PTL

\* UndisturbedIsDelivered: what is answered with a pull request was pushed.
THEOREM AnswersDeliver == QFSpec => []UndisturbedIsDelivered
<1>1. QFInv => UndisturbedIsDelivered
  BY DEF QFInv, Fixing, Untouched, UndisturbedIsDelivered
<1>2. QED
  BY <1>1, QFInvariance, PTL

\* CommitsStay: no step takes a commit off a branch, here or at GitHub.
THEOREM NothingIsUndone == QFSpec => CommitsStay
<1>1. QFInv /\ [QFNext]_QFvars => [KeepsCommits]_QFvars
  <2> SUFFICES ASSUME QFInv, [QFNext]_QFvars PROVE KeepsCommits \/ UNCHANGED QFvars
    OBVIOUS
  <2> USE DEF QFInv, QFTypeOK, Written, PushedIsLocal, KeepsCommits, request, git, github
  <2>1. ASSUME NEW q \in Fixes, AddTree(q) PROVE KeepsCommits
    BY <2>1 DEF AddTree, Attached
  <2>2. ASSUME NEW q \in Fixes, Commit(q) PROVE KeepsCommits
    BY <2>2 DEF Commit
  <2>3. ASSUME NEW q \in Fixes, PushBranch(q) PROVE KeepsCommits
    BY <2>3 DEF PushBranch, Pushed
  <2>4. CASE UNCHANGED <<local, pushed>>
    BY <2>4
  <2>5. QED
    BY <2>1, <2>2, <2>3, <2>4 DEF QFNext, Handler, Promotion, Look, Clear,
       FindBranch, AddTreeFails, WorkerWrites, WorkerSucceeds, WorkerFails,
       NoPush, Raise, OpenPr, OpenPrUnheard, OpenPrRefused, Cleanup,
       PersonCloses, PersonMerges, Merges, PersonPromotes, AskPromotion, GetPr,
       Approve, MergePr, GiveUp, CreatePromotion
<1>2. QED
  BY <1>1, QFInvariance, PTL DEF QFSpec, CommitsStay
=============================================================================
