------------------------------ MODULE RepoCache ------------------------------
(***************************************************************************)
(* The local clone of a remote repository that all executions of it share: *)
(* ensure_repo and _ensure_repo_locked (wave_server/engine/repo_cache.py), *)
(* and what _run_execution (execution_manager.py) makes of the path it     *)
(* gets.                                                                   *)
(*                                                                         *)
(* An asyncio lock per repository serializes the calls.  It is held by a   *)
(* coroutine, and what works on the clone is a process: a cancelled call   *)
(* gives the lock back while its git command runs on.  A crash kills the   *)
(* commands and leaves what they leave: a clone without references, an     *)
(* index.lock without an owner.                                            *)
(*                                                                         *)
(* The clone has one branch that matters, the default branch of the        *)
(* remote.  Its states are numbered, 0 is none.  git is older than 2.48:   *)
(* fetch does not create the reference origin/HEAD that clone creates.     *)
(***************************************************************************)
EXTENDS Naturals, FiniteSets

CONSTANTS
  Callers,      \* executions that ask for the clone, once each
  MaxVersion,   \* bound on the pushes to the remote
  MaxCrashes,   \* bound on the crashes
  Nobody, Stale \* no holder of a lock; the holder that has died

ASSUME HoldersAssumption == Nobody \notin Callers /\ Stale \notin Callers /\ Nobody # Stale
ASSUME BoundsAssumption == MaxVersion \in Nat \ {0} /\ MaxCrashes \in Nat

VARIABLES
  remote,     \* the default branch at GitHub
  exists,     \* whether the clone has a .git directory
  tracking,   \* refs/remotes/origin/<branch>
  originHead, \* whether refs/remotes/origin/HEAD exists
  head,       \* the local branch, which is checked out
  indexLock,  \* who has index.lock
  lock,       \* who has _repo_locks[cache_key]
  pc,         \* where the call of each execution is
  proc,       \* the git command of each call, which may outlive the call
  base,       \* what its fetch is going to replace
  got,        \* what its command is going to install
  asked,      \* the remote when the call was made
  start,      \* the commit its work branch starts from
  crashes,
  offline,    \* calls one of whose commands could not reach the remote
  torn        \* what cancellations and crashes have interrupted

clone == <<exists, tracking, originHead, head>>
vars == <<remote, clone, indexLock, lock, pc, proc, base, got, asked, start,
          crashes, offline, torn>>

Versions == 0 .. MaxVersion
Kinds == {"clone", "fetch", "checkout", "reset"}
Live == {"waiting", "git", "ready"}

TypeOK ==
  /\ remote \in Versions /\ tracking \in Versions /\ head \in Versions
  /\ exists \in BOOLEAN /\ originHead \in BOOLEAN
  /\ indexLock \in Callers \cup {Nobody, Stale}
  /\ lock \in Callers \cup {Nobody}
  /\ pc \in [Callers -> Live \cup {"idle", "started", "failed", "cancelled", "lost"}]
  /\ proc \in [Callers -> Kinds \cup {"none"}]
  /\ base \in [Callers -> Versions] /\ got \in [Callers -> Versions]
  /\ asked \in [Callers -> Versions] /\ start \in [Callers -> Versions]
  /\ crashes \in 0 .. MaxCrashes
  /\ offline \subseteq Callers
  /\ torn \subseteq Kinds

Init ==
  /\ remote = 1
  /\ exists = FALSE /\ originHead = FALSE /\ tracking = 0 /\ head = 0
  /\ indexLock = Nobody /\ lock = Nobody
  /\ pc = [c \in Callers |-> "idle"]
  /\ proc = [c \in Callers |-> "none"]
  /\ base = [c \in Callers |-> 0] /\ got = base /\ asked = base /\ start = base
  /\ crashes = 0 /\ offline = {} /\ torn = {}

----------------------------------------------------------------------------
(* Git commands. *)

\* Fault: the call does not wait for its turn.
LockFree_Always == TRUE

LockFree == lock = Nobody

\* The command kind starts in the clone; checkout and reset take index.lock
\* if they can.
Spawn(c, kind) ==
  /\ pc' = [pc EXCEPT ![c] = "git"]
  /\ proc' = [proc EXCEPT ![c] = kind]
  /\ base' = [base EXCEPT ![c] = tracking]
  /\ got' = [got EXCEPT ![c] = IF kind \in {"clone", "fetch"} THEN remote ELSE @]
  /\ indexLock' = IF kind \in {"checkout", "reset"} /\ indexLock = Nobody THEN c ELSE indexLock

\* The call returns, with a path or with an error; the lock is free.
Leave(c, place) ==
  /\ pc' = [pc EXCEPT ![c] = place]
  /\ proc' = [proc EXCEPT ![c] = "none"]
  /\ lock' = IF lock = c THEN Nobody ELSE lock
  /\ UNCHANGED <<base, got>>

\* The command of a call that is not cancelled is followed by the next one.
Continues(c) == pc[c] = "git"

\* The command of a cancelled call just ends.
Orphan(c) ==
  /\ ~Continues(c)
  /\ proc' = [proc EXCEPT ![c] = "none"]
  /\ UNCHANGED <<lock, pc, base, got>>

\* Fault: an error of fetch is not looked at.
AfterFetch_Unchecked(ok) == IF originHead THEN "checkout" ELSE "ready"

\* What follows a fetch: the reset to the default branch, if it is known.
AfterFetch(ok) == IF ~ok THEN "failed" ELSE IF originHead THEN "checkout" ELSE "ready"

CloneEnds(c) ==
  /\ proc[c] = "clone"
  /\ \/ /\ tracking = 0
        /\ exists' = TRUE /\ originHead' = TRUE
        /\ tracking' = got[c] /\ head' = got[c]
        /\ UNCHANGED offline
        /\ (Continues(c) /\ Leave(c, "ready")) \/ Orphan(c)
     \/ \* git removes what it has made
        /\ exists' = FALSE /\ originHead' = FALSE /\ tracking' = 0 /\ head' = 0
        /\ offline' = offline \cup {c}
        /\ (Continues(c) /\ Leave(c, "failed")) \/ Orphan(c)
  /\ UNCHANGED <<remote, indexLock, asked, start, crashes, torn>>

\* A reference that was changed since fetch has read it is not updated, and
\* fetch fails; so it does when the clone is removed under it.
Overtaken(c) == ~exists \/ (got[c] # base[c] /\ tracking # base[c])

Fetched(c, ok) ==
  \/ Orphan(c) /\ UNCHANGED indexLock
  \/ /\ Continues(c)
     /\ IF AfterFetch(ok) \in Kinds THEN Spawn(c, AfterFetch(ok)) /\ UNCHANGED lock
                                    ELSE Leave(c, AfterFetch(ok)) /\ UNCHANGED indexLock

FetchEnds(c) ==
  /\ proc[c] = "fetch"
  /\ \/ /\ ~Overtaken(c)
        /\ tracking' = IF got[c] # base[c] THEN got[c] ELSE tracking
        /\ Fetched(c, TRUE)
        /\ UNCHANGED offline
     \/ /\ Overtaken(c) /\ Fetched(c, FALSE) /\ UNCHANGED <<tracking, offline>>
     \/ /\ Fetched(c, FALSE)
        /\ offline' = offline \cup {c}
        /\ UNCHANGED tracking
  /\ UNCHANGED <<remote, exists, originHead, head, asked, start, crashes, torn>>

\* The exit codes of checkout and reset are not looked at: without index.lock
\* they do nothing and the call goes on.
CheckoutEnds(c) ==
  /\ proc[c] = "checkout"
  /\ head' = IF indexLock = c /\ head = 0 THEN tracking ELSE head
  /\ LET freed == IF indexLock = c THEN Nobody ELSE indexLock
     IN \/ Orphan(c) /\ indexLock' = freed
        \/ /\ Continues(c)
           /\ pc' = pc
           /\ proc' = [proc EXCEPT ![c] = "reset"]
           /\ got' = [got EXCEPT ![c] = tracking]
           /\ indexLock' = IF freed = Nobody THEN c ELSE freed
           /\ UNCHANGED <<lock, base>>
  /\ UNCHANGED <<remote, exists, originHead, tracking, asked, start, crashes, offline, torn>>

ResetEnds(c) ==
  /\ proc[c] = "reset"
  /\ head' = IF indexLock = c THEN got[c] ELSE head
  /\ indexLock' = IF indexLock = c THEN Nobody ELSE indexLock
  /\ (Continues(c) /\ Leave(c, "ready")) \/ Orphan(c)
  /\ UNCHANGED <<remote, exists, originHead, tracking, asked, start, crashes, offline, torn>>

GitEnds(c) == CloneEnds(c) \/ FetchEnds(c) \/ CheckoutEnds(c) \/ ResetEnds(c)

----------------------------------------------------------------------------
(* Calls. *)

Call(c) ==
  /\ pc[c] = "idle"
  /\ pc' = [pc EXCEPT ![c] = "waiting"]
  /\ asked' = [asked EXCEPT ![c] = remote]
  /\ UNCHANGED <<remote, clone, indexLock, lock, proc, base, got, start, crashes, offline, torn>>

\* A .git directory decides between clone and fetch, whatever is in it.
Enter(c) ==
  /\ pc[c] = "waiting"
  /\ LockFree
  /\ lock' = c
  /\ Spawn(c, IF exists THEN "fetch" ELSE "clone")
  /\ exists' = TRUE
  /\ UNCHANGED <<remote, tracking, originHead, head, asked, start, crashes, offline, torn>>

\* The execution reads HEAD of the clone and forks its work branch there.
SetUp(c) ==
  /\ pc[c] = "ready"
  /\ start' = [start EXCEPT ![c] = head]
  /\ pc' = [pc EXCEPT ![c] = IF exists /\ head # 0 THEN "started" ELSE "failed"]
  /\ UNCHANGED <<remote, clone, indexLock, lock, proc, base, got, asked, crashes, offline, torn>>

\* Fault: the lock of a cancelled call stays taken.
Unlocked_Kept(c) == lock

Unlocked(c) == IF lock = c THEN Nobody ELSE lock

Cancel(c) ==
  /\ pc[c] \in Live
  /\ pc' = [pc EXCEPT ![c] = "cancelled"]
  /\ lock' = Unlocked(c)
  /\ torn' = torn \cup ({proc[c]} \ {"none"})
  /\ UNCHANGED <<remote, clone, indexLock, proc, base, got, asked, start, crashes, offline>>

\* The server and its git commands are killed: a reference is there or not, a
\* clone may have got as far as it can or not, index.lock may stay.
Crash ==
  /\ crashes < MaxCrashes
  /\ crashes' = crashes + 1
  /\ pc' = [c \in Callers |-> IF pc[c] \in Live THEN "lost" ELSE pc[c]]
  /\ proc' = [c \in Callers |-> "none"]
  /\ lock' = Nobody
  /\ torn' = torn \cup ({proc[c] : c \in Callers} \ {"none"})
  /\ indexLock' \in IF indexLock \in Callers THEN {Nobody, Stale} ELSE {indexLock}
  /\ \/ UNCHANGED clone
     \/ \E c \in Callers :
          /\ proc[c] = "clone"
          /\ tracking' = got[c] /\ head' = got[c] /\ originHead' = TRUE
          /\ UNCHANGED exists
  /\ UNCHANGED <<remote, base, got, asked, start, offline>>

Push ==
  /\ remote < MaxVersion
  /\ remote' = remote + 1
  /\ UNCHANGED <<clone, indexLock, lock, pc, proc, base, got, asked, start, crashes, offline, torn>>

CallStep(c) == Enter(c) \/ GitEnds(c) \/ SetUp(c)

Next == (\E c \in Callers : Call(c) \/ CallStep(c) \/ Cancel(c)) \/ Crash \/ Push

Spec == Init /\ [][Next]_vars

\* Git commands end, and the event loop runs what can go on; the lock is first
\* in, first out.
FairSpec == Spec /\ \A c \in Callers : WF_vars(CallStep(c))

----------------------------------------------------------------------------
(* Properties *)

\* An execution starts from a commit that is at least as new as the remote was
\* when it asked, although the codes of checkout and reset are ignored: only a
\* clone, checkout or reset that a cancellation or a crash has interrupted can
\* make a later execution start from an older one.
StartsFresh ==
  \A c \in Callers :
    pc[c] = "started" /\ torn \subseteq {"fetch"} => start[c] >= asked[c]

\* Calls do not disturb each other: one that fails could not reach the remote,
\* or a command was interrupted before and has left something or runs on.
NoRaces ==
  \A c \in Callers : pc[c] = "failed" => c \in offline \/ torn # {}

\* Every call comes back, also when others are cancelled while they have the
\* lock.
CallsEnd == \A c \in Callers : pc[c] = "waiting" ~> pc[c] \notin Live
=============================================================================
