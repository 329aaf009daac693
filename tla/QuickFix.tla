------------------------------ MODULE QuickFix ------------------------------
(***************************************************************************)
(* From a quick fix to the target branch: the endpoint that runs one agent *)
(* in a worktree, commits, pushes and opens a pull request                 *)
(* (wave_server/routes/quick_fix.py), and the promotion that approves and  *)
(* merges a pull request and opens the one that carries the target branch  *)
(* on to main (promote_pr in wave_server/engine/github_pr.py), called by a *)
(* quick fix or by the promote endpoints of                                *)
(* wave_server/routes/executions.py.                                       *)
(*                                                                         *)
(* One git repository.  A worktree lies at a path made from the slug of    *)
(* its branch: the names in Branches all have the same slug, so there is   *)
(* one path (requests at other paths meet these only on GitHub).  A branch *)
(* is the set of fixes it has beyond its start.  GitHub, the people who    *)
(* use it and the agents are external: they answer as they like.           *)
(*                                                                         *)
(* The prefix QF tells the specification from RepoCache's, where theorems  *)
(* about both are proved in one module.                                    *)
(***************************************************************************)

CONSTANTS
  Fixes,       \* the quick-fix requests; each opens one pull request at most
  Promotions,  \* the requests to the promote endpoints
  Branches     \* the branch names that requests give

ASSUME CallersAssumption == Fixes \cap Promotions = {}
ASSUME BranchesAssumption == "none" \notin Branches

VARIABLES
  branch,     \* QuickFixRequest.branch of each request
  stage,      \* where the handler of each request is
  answer,     \* QuickFixResponse.success of each request
  prUrl,      \* requests whose response has a pr_url
  made,       \* branches that exist in the repository
  local,      \* the fixes committed to each branch
  tree,       \* the worktree at the path
  pushed,     \* the fixes pushed to each branch
  pr,         \* the pull request that each request has opened
  target,     \* fixes on the target branch at GitHub
  main,       \* fixes on main at GitHub
  promotion,  \* a pull request from the target branch to main is open
  about,      \* whose pull request each promotion is about
  step,       \* where each call of promote_pr is
  promoted,   \* calls of promote_pr that returned success
  wrote,      \* requests whose agent has changed a file
  unsaved,    \* requests whose commit failed
  disturbed,  \* requests whose worktree was removed by another request
  delivered   \* requests whose fix was in the branch when it was pushed

request == <<branch, stage, answer, prUrl>>
git == <<made, local, tree>>
github == <<pushed, pr, target, main, promotion>>
calls == <<about, step, promoted>>
history == <<wrote, unsaved, disturbed, delivered>>
QFvars == <<request, git, github, calls, history>>

Promoters == Fixes \cup Promotions
NoTree == [head |-> "none", dirt |-> {}]
InTree == {"working", "commit", "push", "open", "promoting", "cleanup"}

QFTypeOK ==
  /\ branch \in [Fixes -> Branches]
  /\ stage \in [Fixes -> {"asked", "clear", "branch", "attach", "create", "over"}
                         \cup InTree]
  /\ answer \in [Fixes -> {"none", "failed", "success"}]
  /\ prUrl \subseteq {q \in Fixes : pr[q] # "none"}
  /\ made \subseteq Branches
  /\ local \in [Branches -> SUBSET Fixes]
  /\ tree \in {NoTree} \cup [head : made, dirt : SUBSET Fixes]
  /\ pushed \in [Branches -> SUBSET Fixes]
  /\ pr \in [Fixes -> {"none", "open", "merged", "closed"}]
  /\ target \subseteq Fixes /\ main \subseteq target
  /\ promotion \in BOOLEAN
  /\ about \in [Promotions -> Fixes]
  /\ step \in [Promoters -> {"idle", "get", "approve", "merge", "promote",
                              "over"}]
  /\ promoted \subseteq {c \in Promoters : step[c] = "over"}
  /\ wrote \subseteq Fixes
  /\ unsaved \subseteq Fixes
  /\ disturbed \subseteq Fixes
  /\ delivered \subseteq wrote

QFInit ==
  /\ branch \in [Fixes -> Branches]
  /\ stage = [q \in Fixes |-> "asked"]
  /\ answer = [q \in Fixes |-> "none"]
  /\ prUrl = {}
  /\ made = {}
  /\ local = [b \in Branches |-> {}]
  /\ tree = NoTree
  /\ pushed = [b \in Branches |-> {}]
  /\ pr = [q \in Fixes |-> "none"]
  /\ target = {} /\ main = {}
  /\ promotion = FALSE
  /\ about \in [Promotions -> Fixes]
  /\ step = [c \in Promoters |-> "idle"]
  /\ promoted = {}
  /\ wrote = {} /\ unsaved = {} /\ disturbed = {} /\ delivered = {}
-----------------------------------------------------------------------------
\* create_execution_worktree, with an await between any two of its questions
\* and commands: a directory at the path is removed, whoever uses it; then the
\* branch is looked up; then the worktree is added.
Move(q, from, to) == stage[q] = from /\ stage' = [stage EXCEPT ![q] = to]

Remove(q) ==
  /\ tree' = NoTree
  /\ disturbed' = disturbed \cup {r \in Fixes \ {q} : stage[r] \in InTree}

Look(q) ==
  /\ Move(q, "asked", IF tree = NoTree THEN "branch" ELSE "clear")
  /\ UNCHANGED <<branch, answer, prUrl, git, github, calls, history>>

Clear(q) ==
  /\ Move(q, "clear", "branch")
  /\ Remove(q)
  /\ UNCHANGED <<branch, answer, prUrl, made, local, github, calls, wrote,
                 unsaved, delivered>>

FindBranch(q) ==
  /\ Move(q, "branch", IF branch[q] \in made THEN "attach" ELSE "create")
  /\ UNCHANGED <<branch, answer, prUrl, git, github, calls, history>>

Made(q) == made \cup {branch[q]}

Attached(q) == local

\* git refuses a path that is in use, and to create a branch that exists.
AddTree(q) ==
  /\ stage[q] \in {"attach", "create"}
  /\ tree = NoTree
  /\ stage[q] = "create" => branch[q] \notin made
  /\ stage' = [stage EXCEPT ![q] = "working"]
  /\ made' = Made(q)
  /\ local' = Attached(q)
  /\ tree' = [head |-> branch[q], dirt |-> {}]
  /\ UNCHANGED <<branch, answer, prUrl, github, calls, history>>

\* The answer is given at once: there is no worktree to clean up.
AddTreeFails(q) ==
  /\ stage[q] \in {"attach", "create"}
  /\ stage' = [stage EXCEPT ![q] = "over"]
  /\ answer' = [answer EXCEPT ![q] = "failed"]
  /\ UNCHANGED <<branch, prUrl, git, github, calls, history>>
-----------------------------------------------------------------------------
Answer(q, a) ==
  /\ stage' = [stage EXCEPT ![q] = "cleanup"]
  /\ answer' = [answer EXCEPT ![q] = a]

\* External: the agent writes to whatever worktree lies at the path.
WorkerWrites(q) ==
  /\ stage[q] = "working" /\ tree # NoTree
  /\ tree' = [tree EXCEPT !.dirt = @ \cup {q}]
  /\ wrote' = wrote \cup {q}
  /\ UNCHANGED <<request, made, local, github, calls, unsaved, disturbed,
                 delivered>>

WorkerSucceeds(q) ==
  /\ Move(q, "working", "commit")
  /\ UNCHANGED <<branch, answer, prUrl, git, github, calls, history>>

\* The agent failed or timed out, or something raised.
WorkerFails(q) ==
  /\ stage[q] = "working" /\ Answer(q, "failed")
  /\ UNCHANGED <<branch, prUrl, git, github, calls, history>>

\* commit_task_output commits all that lies in the worktree to the branch it
\* has checked out.  It never raises, and its result is not looked at.
Commit(q) ==
  /\ Move(q, "commit", "push")
  /\ \/ /\ tree # NoTree
        /\ local' = [local EXCEPT ![tree.head] = @ \cup tree.dirt]
        /\ tree' = [tree EXCEPT !.dirt = {}]
        /\ UNCHANGED unsaved
     \/ unsaved' = unsaved \cup {q} /\ UNCHANGED <<local, tree>>
  /\ UNCHANGED <<branch, answer, prUrl, made, github, calls, wrote, disturbed,
                 delivered>>

\* The branch is pushed by name.
\* Fault: a branch that GitHub has already is left as it is.
Pushed_Once(b) == IF pushed[b] = {} THEN local[b] ELSE pushed[b]

Pushed(b) == local[b]

PushBranch(q) ==
  /\ tree # NoTree
  /\ Move(q, "push", "open")
  /\ pushed' = [pushed EXCEPT ![branch[q]] = Pushed(branch[q])]
  /\ delivered' = delivered \cup ({q} \cap Pushed(branch[q]))
  /\ UNCHANGED <<branch, answer, prUrl, git, pr, target, main, promotion,
                 calls, wrote, unsaved, disturbed>>

\* Without a token, or when the push fails, the fix counts as a success.
NoPush(q) ==
  /\ stage[q] = "push" /\ Answer(q, "success")
  /\ UNCHANGED <<branch, prUrl, git, github, calls, history>>

\* git cannot be started in a directory that is gone, a connection fails.
Raise(q) ==
  /\ stage[q] \in {"push", "open"} /\ Answer(q, "failed")
  /\ UNCHANGED <<branch, prUrl, git, github, calls, history>>

\* External: GitHub accepts one open pull request per branch, if the branch
\* has commits.
Accepted(q) ==
  /\ pushed[branch[q]] # {}
  /\ \A r \in Fixes : branch[r] = branch[q] => pr[r] # "open"

OpenPr(q) ==
  /\ stage[q] = "open" /\ Accepted(q)
  /\ pr' = [pr EXCEPT ![q] = "open"]
  /\ prUrl' = prUrl \cup {q}
  /\ \/ /\ Move(q, "open", "promoting")
        /\ step' = [step EXCEPT ![q] = "get"]
        /\ UNCHANGED answer
     \/ Answer(q, "success") /\ UNCHANGED step
  /\ UNCHANGED <<branch, git, pushed, target, main, promotion, about, promoted,
                 history>>

\* The pull request is opened, but the response does not arrive.
OpenPrUnheard(q) ==
  /\ stage[q] = "open" /\ Accepted(q)
  /\ pr' = [pr EXCEPT ![q] = "open"]
  /\ Answer(q, "failed")
  /\ UNCHANGED <<branch, prUrl, git, pushed, target, main, promotion, calls,
                 history>>

OpenPrRefused(q) ==
  /\ stage[q] = "open" /\ Answer(q, "success")
  /\ UNCHANGED <<branch, prUrl, git, github, calls, history>>

\* Fault: the worktree is removed after a success only.
TreeAfter_Success(q) == IF answer[q] = "success" THEN NoTree ELSE tree

TreeAfter(q) == NoTree

\* The finally clause.
Cleanup(q) ==
  /\ Move(q, "cleanup", "over")
  /\ tree' = TreeAfter(q)
  /\ disturbed' = disturbed \cup {r \in Fixes \ {q} : stage[r] \in InTree}
  /\ UNCHANGED <<branch, answer, prUrl, made, local, github, calls, wrote,
                 unsaved, delivered>>
-----------------------------------------------------------------------------
\* promote_pr, with a call of GitHub in each step.
Subject(c) == IF c \in Fixes THEN c ELSE about[c]

AskPromotion(p) ==
  /\ step[p] = "idle" /\ pr[about[p]] # "none"
  /\ step' = [step EXCEPT ![p] = "get"]
  /\ UNCHANGED <<request, git, github, about, promoted, history>>

Proceed(c, from, to) ==
  /\ step[c] = from
  /\ step' = [step EXCEPT ![c] = to]
  /\ UNCHANGED <<request, about, promoted>>

\* The call returns; a quick fix swallows its exceptions and has succeeded.
Return(c, success) ==
  /\ step' = [step EXCEPT ![c] = "over"]
  /\ promoted' = IF success THEN promoted \cup {c} ELSE promoted
  /\ IF c \in Fixes THEN Answer(c, "success") ELSE UNCHANGED <<stage, answer>>
  /\ UNCHANGED <<branch, prUrl, about>>

\* Fault: a pull request that was closed counts as merged.
IsMerged_IfClosed(q) == pr[q] \in {"merged", "closed"}

IsMerged(q) == pr[q] = "merged"

GetPr(c) ==
  /\ \/ IsMerged(Subject(c)) /\ Proceed(c, "get", "promote")
     \/ pr[Subject(c)] = "open" /\ Proceed(c, "get", "approve")
  /\ UNCHANGED <<git, github, history>>

Approve(c) ==
  /\ Proceed(c, "approve", "merge")
  /\ UNCHANGED <<git, github, history>>

\* External: the head of the pull request's branch comes onto the target.
Merges(q) ==
  /\ pr[q] = "open"
  /\ pr' = [pr EXCEPT ![q] = "merged"]
  /\ target' = target \cup pushed[branch[q]]
  /\ UNCHANGED <<pushed, main, promotion>>

MergePr(c) ==
  /\ step[c] = "merge" /\ Merges(Subject(c))
  /\ \/ Proceed(c, "merge", "promote")
     \/ Return(c, FALSE)
  /\ UNCHANGED <<git, history>>

\* A refusal, an error or an exception of any call, closed or not found.
GiveUp(c) ==
  /\ step[c] \in {"get", "approve", "merge"}
  /\ Return(c, FALSE)
  /\ UNCHANGED <<git, github, history>>

\* The result is a success even if the pull request to main is refused.
CreatePromotion(c) ==
  /\ step[c] = "promote"
  /\ \/ /\ ~promotion /\ target # main
        /\ promotion' = TRUE
        /\ \E heard \in BOOLEAN : Return(c, heard)
     \/ /\ UNCHANGED promotion
        /\ \E heard \in BOOLEAN : Return(c, heard)
  /\ UNCHANGED <<git, pushed, pr, target, main, history>>

\* External: people close, merge and promote.
PersonCloses(q) ==
  /\ pr[q] = "open" /\ pr' = [pr EXCEPT ![q] = "closed"]
  /\ UNCHANGED <<request, git, pushed, target, main, promotion, calls, history>>

PersonMerges(q) == Merges(q) /\ UNCHANGED <<request, git, calls, history>>

PersonPromotes ==
  /\ promotion /\ promotion' = FALSE /\ main' = target
  /\ UNCHANGED <<request, git, pushed, pr, target, calls, history>>
-----------------------------------------------------------------------------
Handler(q) ==
  \/ Look(q) \/ Clear(q) \/ FindBranch(q) \/ AddTree(q) \/ AddTreeFails(q)
  \/ WorkerWrites(q) \/ WorkerSucceeds(q) \/ WorkerFails(q)
  \/ Commit(q) \/ PushBranch(q) \/ NoPush(q) \/ Raise(q)
  \/ OpenPr(q) \/ OpenPrUnheard(q) \/ OpenPrRefused(q) \/ Cleanup(q)

Promotion(c) ==
  GetPr(c) \/ Approve(c) \/ MergePr(c) \/ GiveUp(c) \/ CreatePromotion(c)

QFNext ==
  \/ \E q \in Fixes : Handler(q) \/ PersonCloses(q) \/ PersonMerges(q)
  \/ \E p \in Promotions : AskPromotion(p)
  \/ \E c \in Promoters : Promotion(c)
  \/ PersonPromotes

QFSpec == QFInit /\ [][QFNext]_QFvars
-----------------------------------------------------------------------------
\* A request that answers with a pull request has its agent's change in the
\* pushed branch, if its commit did not fail and no other request removed the
\* worktree meanwhile (wave_server/routes/quick_fix.py, steps 10a to 10d).
UndisturbedIsDelivered ==
  \A q \in prUrl :
    answer[q] = "success" /\ q \in wrote \ (unsaved \cup disturbed)
      => q \in delivered

\* A promotion that reports success is about a pull request that is merged,
\* and a fix that was pushed under it is on the target branch, whoever else
\* promotes, merges or closes it meanwhile (promote_pr).
PromotedIsOnTarget ==
  \A c \in promoted :
    /\ pr[Subject(c)] = "merged"
    /\ Subject(c) \in delivered => Subject(c) \in target

\* However requests of one path overlap and fail, no worktree is left when all
\* have been answered (the finally clause of quick_fix).
NoTreeLeft ==
  (\A q \in Fixes : stage[q] \in {"asked", "over"}) => tree = NoTree

\* A branch that several requests use never loses a commit, here or on GitHub
\* (create_execution_worktree attaches to a branch that exists).
KeepsCommits ==
  \A b \in Branches :
    local[b] \subseteq local'[b] /\ pushed[b] \subseteq pushed'[b]
CommitsStay == [][KeepsCommits]_QFvars
=============================================================================
