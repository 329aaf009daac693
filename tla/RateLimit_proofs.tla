--------------------------- MODULE RateLimit_proofs ---------------------------
(***************************************************************************)
(* Theorems about RateLimit for any calls and any number of retries.       *)
(*                                                                         *)
(* One inductive invariant, IndInv, carries them all.  A pause has an owner*)
(* that moves: the call that announces it, whose on_pause is in the queue  *)
(* of db_lock, then the background task, in its Live places.  OneOwner and *)
(* Owned say that there is never a second one and that the gate is closed  *)
(* exactly as long as there is one; Entries ties every entry of the queue  *)
(* to whoever waits for it.                                                *)
(*                                                                         *)
(* What the status shows depends on the order of the queue (Ordered): an   *)
(* on_pause comes after the on_resume of the window before, because the    *)
(* gate opens in the step that queues the on_resume.  And the execution    *)
(* does not complete under a queued on_pause or on_resume (PauserAwaits),  *)
(* because the call that announced the pause is still on its way: it       *)
(* sleeps through the window, and its own last write is queued behind the  *)
(* on_resume (BehindResume).  Spaced, on top of these, follows each call to *)
(* the end of the window that it has reported to.                          *)
(***************************************************************************)
EXTENDS RateLimit, FiniteSetTheorems, SequenceTheorems, TLAPS

Announcing == {a \in Agents : pc[a] = "announcing"}

\* A call that may still start an agent process has one left.
AttemptsLeft ==
  \A a \in Agents :
    pc[a] \in {"start", "waiting", "announcing", "blocked"} => attempt[a] <= MaxRetries

\* The gate and the flag are one; who is woken has not gone on yet, and nobody
\* else waits at an open gate.
NoLostWakeup ==
  gate => \A a \in Agents : pc[a] \in AtGate => a \in woken

GateKept ==
  /\ gate = ~paused
  /\ \A a \in woken : pc[a] \in AtGate
  /\ NoLostWakeup

\* Who waits for db_lock, entry by entry, ...
Entries ==
  /\ \A i \in DOMAIN dbQueue :
       /\ dbQueue[i].op = "pause" => pc[dbQueue[i].by] = "announcing"
       /\ dbQueue[i].op = "end" => pc[dbQueue[i].by] = "ending"
       /\ dbQueue[i].op = "resume" => waitTask = "resuming"
  /\ \A a \in Announcing : \E i \in DOMAIN dbQueue : dbQueue[i] = Write("pause", a)
  /\ waitTask = "resuming" => \E i \in DOMAIN dbQueue : dbQueue[i].op = "resume"

\* ... and in which order: no write twice, and an on_resume before the on_pause
\* that follows it.
Ordered ==
  \A i, j \in DOMAIN dbQueue :
    /\ dbQueue[i] = dbQueue[j] => i = j
    /\ dbQueue[i].op = "resume" /\ dbQueue[j].op = "pause" => i < j

\* A pause has one owner at most, and while it has one the gate is closed.
OneOwner ==
  /\ \A a, b \in Announcing : a = b
  /\ Announcing # {} => paused /\ waitTask \notin Live
  /\ waitTask \in Live => paused

\* ... and an owner as long as nobody is cancelled and no on_pause has failed.
Owned ==
  /\ exec = "running" /\ NoneRaised /\ paused => Announcing # {} \/ waitTask \in Live
  /\ waitTask = "cancelling" => exec \notin {"running", "cancelling"}

\* The call that announced a pause sleeps until the window is over; what it
\* writes after that is queued behind the on_resume.
Sleeper(a) == pc[a] = "blocked" /\ a \notin woken
BehindResume(a) ==
  /\ pc[a] \notin Ended
  /\ \A i, j \in DOMAIN dbQueue :
       dbQueue[i].op = "resume" /\ dbQueue[j].op # "resume" /\ dbQueue[j].by = a => i < j
PauserAwaits ==
  /\ waitTask \in Live => \E a \in Agents : Sleeper(a)
  /\ waitTask = "resuming" => \E a \in Agents : BehindResume(a)

\* When neither an on_pause nor an on_resume is outstanding.
Settled == \A i \in DOMAIN dbQueue : dbQueue[i].op = "end"
StatusSettled ==
  exec = "running" /\ NoneRaised /\ waitTask # "failed" /\ Settled =>
    status = IF paused THEN "paused" ELSE "running"

CompletedAllEnded ==
  status = "completed" => exec \in {"notifying", "over"} /\ \A a \in Agents : pc[a] = "ended"

IndInv ==
  /\ TypeOK /\ AttemptsLeft /\ GateKept /\ Entries /\ Ordered /\ OneOwner /\ Owned
  /\ PauserAwaits /\ StatusSettled /\ CompletedAllEnded

-----------------------------------------------------------------------------
(* The queue of db_lock. *)

LEMMA QueueIndices ==
  ASSUME TypeOK
  PROVE  /\ dbQueue \in Seq(Writes) /\ Len(dbQueue) \in Nat
         /\ DOMAIN dbQueue = 1 .. Len(dbQueue)
         /\ \A i \in DOMAIN dbQueue : dbQueue[i] \in Writes
BY DEF TypeOK

LEMMA WriteIsWrite ==
  /\ \A a \in Agents : \A op \in {"pause", "end"} : Write(op, a) \in Writes
  /\ Write("resume", "window") \in Writes
BY DEF Write, Writes

LEMMA WhenEnqueued ==
  ASSUME TypeOK, NEW w \in Writes, Enqueue(w)
  PROVE  /\ dbQueue' \in Seq(Writes)
         /\ DOMAIN dbQueue' = DOMAIN dbQueue \cup {Len(dbQueue) + 1}
         /\ \A i \in DOMAIN dbQueue : dbQueue'[i] = dbQueue[i] /\ i < Len(dbQueue) + 1
         /\ dbQueue'[Len(dbQueue) + 1] = w
BY QueueIndices, AppendProperties DEF Enqueue

LEMMA WhenServed ==
  ASSUME TypeOK, dbQueue # <<>>, dbQueue' = Tail(dbQueue)
  PROVE  /\ dbQueue' \in Seq(Writes)
         /\ 1 \in DOMAIN dbQueue /\ Head(dbQueue) = dbQueue[1] /\ Head(dbQueue) \in Writes
         /\ DOMAIN dbQueue' = 1 .. Len(dbQueue) - 1
         /\ \A i \in DOMAIN dbQueue' :
              i + 1 \in DOMAIN dbQueue /\ dbQueue'[i] = dbQueue[i + 1] /\ i + 1 # 1
         /\ \A i \in DOMAIN dbQueue : i = 1 \/ (i - 1 \in DOMAIN dbQueue' /\ dbQueue'[i - 1] = dbQueue[i])
<1>1. dbQueue \in Seq(Writes) /\ Len(dbQueue) \in Nat /\ Len(dbQueue) # 0 /\ DOMAIN dbQueue = 1 .. Len(dbQueue)
  BY QueueIndices, EmptySeq
<1>2. /\ dbQueue' \in Seq(Writes) /\ Len(dbQueue') = Len(dbQueue) - 1
      /\ \A i \in 1 .. Len(dbQueue') : dbQueue'[i] = dbQueue[i + 1]
  BY <1>1, HeadTailProperties
<1>3. DOMAIN dbQueue' = 1 .. Len(dbQueue) - 1
  BY <1>2
<1>4. Head(dbQueue) = dbQueue[1] /\ Head(dbQueue) \in Writes
  BY <1>1, HeadTailProperties
<1>5. QED
  BY <1>1, <1>2, <1>3, <1>4

LEMMA WhenGivenUp ==
  ASSUME TypeOK, NEW op, GiveUp(op)
  PROVE  /\ dbQueue' \in Seq(Writes)
         /\ \E d \in DOMAIN dbQueue :
              /\ dbQueue[d].op = op
              /\ DOMAIN dbQueue' = 1 .. Len(dbQueue) - 1
              /\ \A i \in DOMAIN dbQueue' : dbQueue'[i] = dbQueue[IF i < d THEN i ELSE i + 1]
<1>1. dbQueue \in Seq(Writes) /\ Len(dbQueue) \in Nat /\ DOMAIN dbQueue = 1 .. Len(dbQueue)
  BY QueueIndices
<1>2. PICK d \in DOMAIN dbQueue :
        /\ dbQueue[d].op = op
        /\ dbQueue' = [j \in 1 .. Len(dbQueue) - 1 |-> IF j < d THEN dbQueue[j] ELSE dbQueue[j + 1]]
  BY DEF GiveUp
<1>3. \A j \in 1 .. Len(dbQueue) - 1 : (IF j < d THEN dbQueue[j] ELSE dbQueue[j + 1]) \in Writes
  BY <1>1, QueueIndices
<1>4. dbQueue' \in [1 .. Len(dbQueue) - 1 -> Writes] /\ Len(dbQueue) - 1 \in Nat
  BY <1>1, <1>2, <1>3
<1>5. dbQueue' \in Seq(Writes)
  BY <1>4, IsASeq
<1>6. QED
  BY <1>1, <1>2, <1>5

\* A write is told by its operation and by whom it is for.
LEMMA WriteFields ==
  /\ \A w \in Writes : w = Write(w.op, w.by)
  /\ \A w \in Writes : \/ w.op \in {"pause", "end"} /\ w.by \in Agents
                       \/ w = Write("resume", "window")
  /\ \A op, a : Write(op, a).op = op /\ Write(op, a).by = a
BY DEF Write, Writes

LEMMA OrderWhenEnqueued ==
  ASSUME TypeOK, Ordered, NEW w \in Writes, Enqueue(w),
         \A i \in DOMAIN dbQueue : dbQueue[i] # w,
         w.op = "resume" => \A i \in DOMAIN dbQueue : dbQueue[i].op # "pause"
  PROVE  Ordered'
BY WhenEnqueued, QueueIndices DEF Ordered

LEMMA OrderWhenServed ==
  ASSUME TypeOK, Ordered, dbQueue # <<>>, dbQueue' = Tail(dbQueue)
  PROVE  /\ Ordered'
         /\ \A i \in DOMAIN dbQueue' : dbQueue'[i] # Head(dbQueue)
         /\ Head(dbQueue).op = "pause" => \A i \in DOMAIN dbQueue' : dbQueue'[i].op # "resume"
<1>1. Ordered'
  BY WhenServed, QueueIndices DEF Ordered
<1>2. \A i \in DOMAIN dbQueue' : dbQueue'[i] # Head(dbQueue)
  BY WhenServed, QueueIndices DEF Ordered
<1>3. ASSUME Head(dbQueue).op = "pause", NEW i \in DOMAIN dbQueue', dbQueue'[i].op = "resume"
      PROVE  FALSE
  <2>1. 1 \in DOMAIN dbQueue /\ i + 1 \in DOMAIN dbQueue /\ i \in Nat \ {0}
    BY WhenServed, QueueIndices
  <2>2. dbQueue[i + 1].op = "resume" /\ dbQueue[1].op = "pause"
    BY <1>3, WhenServed
  <2>3. QED
    BY <2>1, <2>2 DEF Ordered
<1>4. QED
  BY <1>1, <1>2, <1>3

LEMMA OrderWhenGivenUp ==
  ASSUME TypeOK, Ordered, GiveUp("resume")
  PROVE  /\ Ordered'
         /\ \A i \in DOMAIN dbQueue' : dbQueue'[i].op # "resume"
         /\ \A i \in DOMAIN dbQueue' : \E j \in DOMAIN dbQueue : dbQueue'[i] = dbQueue[j]
         /\ \A j \in DOMAIN dbQueue :
              dbQueue[j].op # "resume" => \E i \in DOMAIN dbQueue' : dbQueue'[i] = dbQueue[j]
<1>1. PICK d \in DOMAIN dbQueue :
        /\ dbQueue[d].op = "resume"
        /\ DOMAIN dbQueue' = 1 .. Len(dbQueue) - 1
        /\ \A i \in DOMAIN dbQueue' : dbQueue'[i] = dbQueue[IF i < d THEN i ELSE i + 1]
  BY WhenGivenUp
<1> DEFINE old(i) == IF i < d THEN i ELSE i + 1
<1>2. \A i \in DOMAIN dbQueue' : old(i) \in DOMAIN dbQueue \ {d} /\ dbQueue'[i] = dbQueue[old(i)]
  BY <1>1, QueueIndices
<1>3. \A i, j \in DOMAIN dbQueue' : (old(i) = old(j) <=> i = j) /\ (old(i) < old(j) <=> i < j)
  BY <1>1, QueueIndices
<1>4. \A j \in DOMAIN dbQueue \ {d} : \E i \in DOMAIN dbQueue' : old(i) = j
  <2> SUFFICES ASSUME NEW j \in DOMAIN dbQueue \ {d} PROVE \E i \in DOMAIN dbQueue' : old(i) = j
    OBVIOUS
  <2>1. CASE j < d
    BY <1>1, <2>1, QueueIndices
  <2>2. CASE j > d
    <3>1. j - 1 \in DOMAIN dbQueue' /\ old(j - 1) = j
      BY <1>1, <2>2, QueueIndices
    <3>2. QED
      BY <3>1
  <2>3. QED
    BY <1>1, <2>1, <2>2, QueueIndices
<1>5. \A i \in DOMAIN dbQueue : dbQueue[i].op = "resume" => i = d
  <2> SUFFICES ASSUME NEW i \in DOMAIN dbQueue, dbQueue[i].op = "resume" PROVE i = d
    OBVIOUS
  <2>1. dbQueue[i] = Write("resume", "window") /\ dbQueue[d] = Write("resume", "window")
    BY <1>1, WriteFields, QueueIndices
  <2>2. QED
    BY <2>1 DEF Ordered
<1> HIDE DEF old
<1>6. Ordered'
  BY <1>2, <1>3 DEF Ordered
<1>7. QED
  BY <1>1, <1>2, <1>4, <1>5, <1>6

LEMMA QueuedCalls ==
  ASSUME TypeOK, Entries
  PROVE  \A i \in DOMAIN dbQueue :
           /\ dbQueue[i].op \in {"pause", "end", "resume"}
           /\ dbQueue[i].op # "resume" => dbQueue[i].by \in Agents
           /\ dbQueue[i].op = "pause" => pc[dbQueue[i].by] = "announcing"
           /\ dbQueue[i].op = "end" => pc[dbQueue[i].by] = "ending"
           /\ dbQueue[i].op = "resume" => waitTask = "resuming"
           /\ dbQueue[i].op = "resume" => dbQueue[i] = Write("resume", "window")
BY QueueIndices, WriteFields DEF Entries

\* No call has two writes in the queue.
LEMMA WhatIsServed ==
  ASSUME TypeOK, Entries, Ordered, dbQueue # <<>>, dbQueue' = Tail(dbQueue)
  PROVE  LET w == Head(dbQueue) IN
         /\ w.op = "pause" => w.by \in Agents /\ pc[w.by] = "announcing"
         /\ w.op = "end" => w.by \in Agents /\ pc[w.by] = "ending"
         /\ w.op = "resume" => waitTask = "resuming"
         /\ \A i \in DOMAIN dbQueue' :
              /\ \E j \in DOMAIN dbQueue : dbQueue'[i] = dbQueue[j]
              /\ w.op = "resume" => dbQueue'[i].op # "resume"
              /\ w.op # "resume" /\ dbQueue'[i].op # "resume" => dbQueue'[i].by # w.by
         /\ \A j \in DOMAIN dbQueue : dbQueue[j] = w \/ \E i \in DOMAIN dbQueue' : dbQueue'[i] = dbQueue[j]
<1> DEFINE w == Head(dbQueue)
<1>1. 1 \in DOMAIN dbQueue /\ w = dbQueue[1] /\ w \in Writes
  BY WhenServed
<1>2. /\ w.op = "pause" => w.by \in Agents /\ pc[w.by] = "announcing"
      /\ w.op = "end" => w.by \in Agents /\ pc[w.by] = "ending"
      /\ w.op = "resume" => waitTask = "resuming"
  BY <1>1, QueuedCalls
<1>3. \A i \in DOMAIN dbQueue' : (\E j \in DOMAIN dbQueue : dbQueue'[i] = dbQueue[j]) /\ dbQueue'[i] # w
  BY WhenServed, OrderWhenServed
<1>4. \A i \in DOMAIN dbQueue' : w.op = "resume" => dbQueue'[i].op # "resume"
  BY <1>1, <1>3, QueuedCalls
<1>5. ASSUME NEW i \in DOMAIN dbQueue', w.op # "resume", dbQueue'[i].op # "resume"
      PROVE  dbQueue'[i].by # w.by
  <2>1. PICK j \in DOMAIN dbQueue : dbQueue'[i] = dbQueue[j]
    BY <1>3
  <2>2. dbQueue'[i] \in Writes /\ dbQueue'[i] = Write(dbQueue'[i].op, dbQueue'[i].by) /\ w = Write(w.op, w.by)
    BY <1>1, <2>1, QueueIndices, WriteFields
  <2>3. dbQueue'[i].by = w.by => dbQueue'[i].op = w.op
    BY <1>1, <1>5, <2>1, QueuedCalls
  <2>4. QED
    BY <1>3, <2>2, <2>3
<1>6. \A j \in DOMAIN dbQueue : dbQueue[j] = w \/ \E i \in DOMAIN dbQueue' : dbQueue'[i] = dbQueue[j]
  BY <1>1, WhenServed
<1>7. QED
  BY <1>2, <1>3, <1>4, <1>5, <1>6

LEMMA InitEstablishes == Init => IndInv
<1> SUFFICES ASSUME Init PROVE IndInv
  OBVIOUS
<1> USE DEF Init
<1>1. TypeOK
  <2>1. 0 \in 0 .. MaxRetries + 1 /\ dbQueue \in Seq(Writes)
    BY RetriesAssumption
  <2>2. QED
    BY <2>1 DEF TypeOK, Live, Ended
<1>2. DOMAIN dbQueue = {}
  OBVIOUS
<1>3. /\ AttemptsLeft
      /\ GateKept
      /\ OneOwner /\ Owned
  <2>1. AttemptsLeft
    BY RetriesAssumption DEF AttemptsLeft
  <2>2. GateKept
    BY DEF GateKept, NoLostWakeup, AtGate
  <2>3. OneOwner
    BY DEF OneOwner, Announcing, Live
  <2>4. Owned
    BY DEF Owned
  <2>5. QED
    BY <2>1, <2>2, <2>3, <2>4
<1>6. Entries /\ Ordered
  BY <1>2 DEF Entries, Announcing, Ordered
<1>4. PauserAwaits /\ StatusSettled /\ CompletedAllEnded
  BY DEF PauserAwaits, Live, StatusSettled, CompletedAllEnded
<1>5. QED
  BY <1>1, <1>3, <1>4, <1>6 DEF IndInv

LEMMA EnterPreserves ==
  ASSUME IndInv, NEW a \in Agents, Enter(a) \/ PassGate(a)
  PROVE  IndInv'
<1> USE DEF IndInv
<1>1. UNCHANGED <<gate, paused, pauseCount, waitTask, reported, dbQueue, status, exec>>
  BY DEF Enter, PassGate, pauser
<1>2. /\ pc[a] \in {"start", "waiting", "blocked"}
      /\ pc[a] = "blocked" => a \in woken
      /\ woken' = woken \ {a}
  BY DEF Enter, PassGate, StartAgent
<1>3. \/ pc' = [pc EXCEPT ![a] = "agent"] /\ attempt' = [attempt EXCEPT ![a] = @ + 1]
      \/ pc' = [pc EXCEPT ![a] = "waiting"] /\ attempt' = attempt /\ ~gate
  BY DEF Enter, PassGate, StartAgent
<1>4. attempt[a] \in 0 .. MaxRetries /\ attempt[a] + 1 \in 0 .. MaxRetries + 1
  BY <1>2, RetriesAssumption DEF TypeOK, AttemptsLeft
<1>5. TypeOK'
  BY <1>1, <1>2, <1>3, <1>4 DEF TypeOK
<1>6. AttemptsLeft' /\ GateKept'
  BY <1>1, <1>2, <1>3, <1>4 DEF TypeOK, AttemptsLeft, GateKept, NoLostWakeup, AtGate
<1>7. Announcing' = Announcing /\ NoneRaised' = NoneRaised
  BY <1>2, <1>3 DEF TypeOK, Announcing, NoneRaised
<1>8. Entries' /\ Ordered' /\ OneOwner' /\ Owned' /\ StatusSettled'
  <2>1. \A b \in Agents : pc[b] \in {"announcing", "ending"} => pc'[b] = pc[b]
    BY <1>2, <1>3 DEF TypeOK
  <2>2. Entries'
    BY <1>1, <1>7, <2>1, QueuedCalls DEF Entries
  <2>3. Ordered' /\ OneOwner' /\ Owned' /\ StatusSettled'
    BY <1>1, <1>7 DEF Ordered, OneOwner, Owned, StatusSettled, Settled
  <2>4. QED
    BY <2>2, <2>3
<1>9. PauserAwaits'
  <2>1. \A b \in Agents : Sleeper(b) => Sleeper(b)'
    BY <1>2, <1>3 DEF TypeOK, Sleeper
  <2>2. \A b \in Agents : BehindResume(b) => BehindResume(b)'
    BY <1>1, <1>2, <1>3 DEF TypeOK, BehindResume, Ended
  <2>3. QED
    BY <1>1, <2>1, <2>2 DEF PauserAwaits
<1>10. CompletedAllEnded'
  BY <1>1, <1>2 DEF CompletedAllEnded
<1>11. QED
  BY <1>5, <1>6, <1>8, <1>9, <1>10

\* What a call that runs an agent adds to the queue is its only write there.
LEMMA CallEnqueues ==
  ASSUME TypeOK, Entries, Ordered, NEW a \in Agents, pc[a] = "agent",
         NEW op \in {"pause", "end"}, Enqueue(Write(op, a)),
         op = "pause" => pc' = [pc EXCEPT ![a] = "announcing"],
         op = "end" => pc' = [pc EXCEPT ![a] = "ending"],
         waitTask' = waitTask
  PROVE  /\ dbQueue' \in Seq(Writes) /\ Entries' /\ Ordered'
         /\ \A b \in Agents : BehindResume(b) => BehindResume(b)'
<1>1. Write(op, a) \in Writes
  BY WriteIsWrite
<1>2. /\ dbQueue' \in Seq(Writes)
      /\ DOMAIN dbQueue' = DOMAIN dbQueue \cup {Len(dbQueue) + 1}
      /\ \A i \in DOMAIN dbQueue : dbQueue'[i] = dbQueue[i] /\ i < Len(dbQueue) + 1
      /\ dbQueue'[Len(dbQueue) + 1] = Write(op, a)
  BY <1>1, WhenEnqueued
<1>3. Write(op, a).op = op /\ Write(op, a).by = a
  BY WriteFields
<1>4. \A i \in DOMAIN dbQueue : dbQueue[i].op # "resume" => dbQueue[i].by # a
  BY QueuedCalls
<1>5. \A i \in DOMAIN dbQueue : dbQueue[i] # Write(op, a)
  BY <1>3, <1>4
<1>6. Ordered'
  BY <1>1, <1>3, <1>5, OrderWhenEnqueued
<1>7. \A b \in Agents : b # a => pc'[b] = pc[b]
  BY DEF TypeOK
<1>8. pc'[a] = IF op = "pause" THEN "announcing" ELSE "ending"
  BY DEF TypeOK
<1>9. Entries'
  <2>1. ASSUME NEW i \in DOMAIN dbQueue'
        PROVE  /\ dbQueue'[i].op = "pause" => pc'[dbQueue'[i].by] = "announcing"
               /\ dbQueue'[i].op = "end" => pc'[dbQueue'[i].by] = "ending"
               /\ dbQueue'[i].op = "resume" => waitTask' = "resuming"
    <3>1. CASE i \in DOMAIN dbQueue
      BY <1>2, <1>4, <1>7, <3>1, QueuedCalls
    <3>2. CASE i = Len(dbQueue) + 1
      BY <1>2, <1>3, <1>8, <3>2
    <3>3. QED
      BY <1>2, <3>1, <3>2
  <2>2. ASSUME NEW b \in Announcing' PROVE \E i \in DOMAIN dbQueue' : dbQueue'[i] = Write("pause", b)
    <3>1. CASE b = a
      BY <1>2, <1>8, <2>2, <3>1 DEF Announcing
    <3>2. CASE b # a
      BY <1>2, <1>7, <2>2, <3>2 DEF Announcing, Entries
    <3>3. QED
      BY <3>1, <3>2
  <2>3. waitTask' = "resuming" => \E i \in DOMAIN dbQueue' : dbQueue'[i].op = "resume"
    BY <1>2 DEF Entries
  <2>4. QED
    BY <2>1, <2>2, <2>3 DEF Entries
<1>10. ASSUME NEW b \in Agents, BehindResume(b) PROVE BehindResume(b)'
  <2>1. pc'[b] \notin Ended
    BY <1>7, <1>8, <1>10 DEF BehindResume, Ended
  <2>2. ASSUME NEW i \in DOMAIN dbQueue', NEW j \in DOMAIN dbQueue',
               dbQueue'[i].op = "resume", dbQueue'[j].op # "resume", dbQueue'[j].by = b
        PROVE  i < j
    <3>1. i \in DOMAIN dbQueue /\ dbQueue[i].op = "resume"
      BY <1>2, <1>3, <2>2
    <3>2. CASE j \in DOMAIN dbQueue
      BY <1>2, <1>10, <2>2, <3>1, <3>2 DEF BehindResume
    <3>3. CASE j = Len(dbQueue) + 1
      BY <1>2, <3>1, <3>3
    <3>4. QED
      BY <1>2, <3>2, <3>3
  <2>3. QED
    BY <2>1, <2>2 DEF BehindResume
<1>11. QED
  BY <1>2, <1>6, <1>9, <1>10

LEMMA AgentEndsPreserves ==
  ASSUME IndInv, NEW a \in Agents, AgentEnds(a)
  PROVE  IndInv'
<1> USE DEF IndInv
<1>1. /\ pc[a] = "agent" /\ pc' = [pc EXCEPT ![a] = "ending"] /\ Enqueue(Write("end", a))
      /\ UNCHANGED <<gate, paused, pauseCount, waitTask, attempt, woken, reported, status, exec>>
  BY DEF AgentEnds, pauser
<1>2. /\ dbQueue' \in Seq(Writes) /\ Entries' /\ Ordered'
      /\ \A b \in Agents : BehindResume(b) => BehindResume(b)'
  BY <1>1, CallEnqueues
<1>3. TypeOK' /\ AttemptsLeft' /\ GateKept'
  BY <1>1, <1>2 DEF TypeOK, AttemptsLeft, GateKept, NoLostWakeup, AtGate
<1>4. Announcing' = Announcing /\ NoneRaised' = NoneRaised
  BY <1>1 DEF TypeOK, Announcing, NoneRaised
<1>5. OneOwner' /\ Owned'
  BY <1>1, <1>4 DEF OneOwner, Owned
<1>6. PauserAwaits'
  <2>1. \A b \in Agents : Sleeper(b) => Sleeper(b)'
    BY <1>1 DEF TypeOK, Sleeper
  <2>2. QED
    BY <1>1, <1>2, <2>1 DEF PauserAwaits
<1>7. StatusSettled'
  <2>1. Settled' => Settled
    BY <1>1, WhenEnqueued, WriteIsWrite DEF Settled
  <2>2. QED
    BY <1>1, <1>4, <2>1 DEF StatusSettled
<1>8. CompletedAllEnded'
  BY <1>1 DEF CompletedAllEnded
<1>9. QED
  BY <1>2, <1>3, <1>5, <1>6, <1>7, <1>8

LEMMA AgentLimitedPreserves ==
  ASSUME IndInv, NEW a \in Agents, AgentLimited(a)
  PROVE  IndInv'
<1> USE DEF IndInv
<1>1. /\ pc[a] = "agent" /\ attempt[a] <= MaxRetries
      /\ woken' = woken
      /\ reported' = [reported EXCEPT ![a] = pauseCount']
      /\ UNCHANGED <<waitTask, attempt, status, exec>>
  BY DEF AgentLimited, RetryLeft, FirstReport, AwaitGate, GateKept, pauser
<1>2. CASE paused /\ pc' = [pc EXCEPT ![a] = "blocked"] /\ UNCHANGED <<gate, paused, pauseCount, dbQueue>>
  <2>1. TypeOK' /\ AttemptsLeft' /\ GateKept'
    BY <1>1, <1>2 DEF TypeOK, AttemptsLeft, GateKept, NoLostWakeup, AtGate
  <2>2. Announcing' = Announcing /\ NoneRaised' = NoneRaised
    BY <1>1, <1>2 DEF TypeOK, Announcing, NoneRaised
  <2>3. \A b \in Agents : pc[b] \in {"announcing", "ending"} => pc'[b] = pc[b]
    BY <1>1, <1>2 DEF TypeOK
  <2>4. Entries'
    BY <1>1, <1>2, <2>2, <2>3, QueuedCalls DEF Entries
  <2>5. Ordered' /\ OneOwner' /\ Owned' /\ StatusSettled'
    BY <1>1, <1>2, <2>2 DEF Ordered, OneOwner, Owned, StatusSettled, Settled
  <2>6. \A b \in Agents : (Sleeper(b) => Sleeper(b)') /\ (BehindResume(b) => BehindResume(b)')
    BY <1>1, <1>2 DEF TypeOK, Sleeper, BehindResume, Ended
  <2>7. PauserAwaits' /\ CompletedAllEnded'
    BY <1>1, <1>2, <2>6 DEF PauserAwaits, CompletedAllEnded
  <2>8. QED
    BY <2>1, <2>4, <2>5, <2>7
<1>3. CASE /\ ~paused /\ paused' = TRUE /\ gate' = FALSE /\ pauseCount' = pauseCount + 1
           /\ pc' = [pc EXCEPT ![a] = "announcing"] /\ Enqueue(Write("pause", a))
  <2>1. /\ dbQueue' \in Seq(Writes) /\ Entries' /\ Ordered'
        /\ \A b \in Agents : BehindResume(b) => BehindResume(b)'
    BY <1>1, <1>3, CallEnqueues
  <2>2. /\ TypeOK'
        /\ AttemptsLeft'
        /\ GateKept'
    <3>1. TypeOK'
      <4>1. pc' \in [Agents -> {"start", "waiting", "agent", "announcing", "blocked",
                                "ending"} \cup Ended]
        BY <1>3 DEF TypeOK
      <4>2. pauseCount' \in Nat /\ paused' \in BOOLEAN /\ gate' \in BOOLEAN
        <5>1. pauseCount' \in Nat
          BY <1>3 DEF TypeOK
        <5>2. QED
          BY <1>3, <5>1
      <4>3. QED
        BY <1>1, <2>1, <4>1, <4>2 DEF TypeOK
    <3>2. AttemptsLeft'
      BY <1>1, <1>3 DEF TypeOK, AttemptsLeft
    <3>3. GateKept'
      BY <1>1, <1>3 DEF TypeOK, GateKept, NoLostWakeup, AtGate
    <3>4. QED
      BY <3>1, <3>2, <3>3
  <2>3. Announcing = {} /\ waitTask \notin Live
    BY <1>3 DEF OneOwner
  <2>4. Announcing' = {a}
    BY <1>3, <2>3 DEF TypeOK, Announcing
  <2>5. OneOwner' /\ Owned'
    BY <1>1, <1>3, <2>3, <2>4 DEF OneOwner, Owned
  <2>6. PauserAwaits' /\ CompletedAllEnded'
    BY <1>1, <2>1, <2>3 DEF PauserAwaits, CompletedAllEnded
  <2>7. ~Settled'
    BY <1>3, WhenEnqueued, WriteIsWrite, WriteFields DEF Settled
  <2>8. QED
    BY <2>1, <2>2, <2>5, <2>6, <2>7 DEF StatusSettled
<1>4. QED
  BY <1>2, <1>3 DEF AgentLimited, FirstReport, CloseGate, pauser

\* The window neither moves a call nor takes a write out of the queue.
LEMMA WindowPreserves ==
  ASSUME IndInv, Window
  PROVE  IndInv'
<1> USE DEF IndInv
<1>1. CASE WindowBegins
  <2>1. waitTask = "created" /\ waitTask' = "sleeping"
        /\ UNCHANGED <<gate, paused, pauseCount, pc, attempt, woken, reported, dbQueue, status, exec>>
    BY <1>1 DEF WindowBegins, calls
  <2>2. TypeOK' /\ AttemptsLeft' /\ GateKept' /\ Ordered' /\ OneOwner' /\ Owned'
    BY <2>1 DEF TypeOK, AttemptsLeft, GateKept, NoLostWakeup, Ordered, OneOwner, Owned, Announcing, NoneRaised, Live
  <2>3. Entries' /\ StatusSettled' /\ CompletedAllEnded'
    BY <2>1 DEF Entries, Announcing, StatusSettled, Settled, NoneRaised, CompletedAllEnded
  <2>4. PauserAwaits'
    BY <2>1 DEF PauserAwaits, Live, Sleeper
  <2>5. QED
    BY <2>2, <2>3, <2>4
<1>2. CASE WindowEnds \/ WindowCancelled
  <2>1. /\ waitTask \in Live /\ waitTask' \in {"resuming", "done"}
        /\ paused' = FALSE /\ gate' = TRUE /\ woken' = woken \cup Sleepers
        /\ UNCHANGED <<pauseCount, pc, attempt, reported, status, exec>>
    BY <1>2 DEF WindowEnds, WindowCancelled, OpenGate, Live
  <2>2. \/ waitTask' = "resuming" /\ Enqueue(Write("resume", "window"))
        \/ waitTask' = "done" /\ exec # "running" /\ dbQueue' = dbQueue
    BY <1>2 DEF WindowEnds, WindowCancelled, Owned
  <2>3. Announcing = {} /\ paused /\ waitTask # "resuming"
    BY <2>1 DEF OneOwner, Live
  <2>4. \A i \in DOMAIN dbQueue : dbQueue[i].op = "end"
    BY <2>3, QueuedCalls DEF Announcing
  <2>5. Announcing' = Announcing /\ NoneRaised' = NoneRaised
    BY <2>1 DEF Announcing, NoneRaised
  <2>6. AttemptsLeft' /\ GateKept' /\ OneOwner' /\ Owned' /\ CompletedAllEnded'
    BY <2>1, <2>3, <2>5 DEF AttemptsLeft, GateKept, NoLostWakeup, AtGate, Sleepers, OneOwner, Owned,
      CompletedAllEnded, Live
  <2>7. PICK a \in Agents : Sleeper(a)
    BY <2>1 DEF PauserAwaits
  <2>8. \A i \in DOMAIN dbQueue : dbQueue[i].by # a
    BY <2>4, <2>7, QueuedCalls DEF Sleeper
  <2>9. CASE waitTask' = "done" /\ exec # "running" /\ dbQueue' = dbQueue
    <3>1. TypeOK' /\ Entries'
      BY <2>1, <2>3, <2>5, <2>9, QueuedCalls DEF TypeOK, Entries, Sleepers
    <3>2. Ordered' /\ StatusSettled' /\ PauserAwaits'
      BY <2>1, <2>9 DEF Ordered, StatusSettled, PauserAwaits, Live
    <3>3. QED
      BY <2>6, <3>1, <3>2
  <2>10. CASE waitTask' = "resuming" /\ Enqueue(Write("resume", "window"))
    <3>1. /\ dbQueue' \in Seq(Writes)
          /\ DOMAIN dbQueue' = DOMAIN dbQueue \cup {Len(dbQueue) + 1}
          /\ \A i \in DOMAIN dbQueue : dbQueue'[i] = dbQueue[i] /\ i < Len(dbQueue) + 1
          /\ dbQueue'[Len(dbQueue) + 1] = Write("resume", "window")
      BY <2>10, WhenEnqueued, WriteIsWrite
    <3>2. Write("resume", "window").op = "resume"
      BY WriteFields
    <3>3. TypeOK'
      BY <2>1, <2>10, <3>1 DEF TypeOK, Sleepers
    <3>4. Entries'
      BY <2>1, <2>3, <2>4, <2>5, <2>10, <3>1, <3>2, QueuedCalls DEF Entries
    <3>5. Ordered'
      BY <2>4, <2>10, <3>2, OrderWhenEnqueued, WriteIsWrite
    <3>6. StatusSettled'
      BY <3>1, <3>2 DEF StatusSettled, Settled
    <3>7. pc'[a] = "blocked" /\ \A j \in DOMAIN dbQueue' : dbQueue'[j].op # "resume" => dbQueue'[j].by # a
      BY <2>1, <2>7, <2>8, <3>1, <3>2 DEF Sleeper
    <3>8. BehindResume(a)'
      BY <3>7 DEF BehindResume, Ended
    <3>9. PauserAwaits'
      BY <2>10, <3>8 DEF PauserAwaits, Live
    <3>10. QED
      BY <2>6, <3>3, <3>4, <3>5, <3>6, <3>9
  <2>11. QED
    BY <2>2, <2>9, <2>10
<1>3. QED
  BY <1>1, <1>2 DEF Window

\* A write of a call has been served, or has failed: its call goes on.
LEMMA ServedCall ==
  ASSUME TypeOK, Entries, Ordered, dbQueue # <<>>, dbQueue' = Tail(dbQueue),
         Head(dbQueue).op \in {"pause", "end"},
         \E p \in {"blocked", "raised", "ended"} : pc' = [pc EXCEPT ![Head(dbQueue).by] = p],
         waitTask' = waitTask \/ (Head(dbQueue).op = "pause" /\ waitTask' = "created")
  PROVE  /\ dbQueue' \in Seq(Writes) /\ Entries' /\ Ordered'
         /\ Head(dbQueue).by \in Agents
         /\ pc[Head(dbQueue).by] = IF Head(dbQueue).op = "pause" THEN "announcing" ELSE "ending"
         /\ Announcing' = Announcing \ {Head(dbQueue).by}
         /\ Head(dbQueue).op = "pause" => waitTask # "resuming"
<1> DEFINE a == Head(dbQueue).by
           op == Head(dbQueue).op
<1>0. PICK place \in {"blocked", "raised", "ended"} : pc' = [pc EXCEPT ![a] = place]
  OBVIOUS
<1>1. /\ a \in Agents /\ pc[a] = IF op = "pause" THEN "announcing" ELSE "ending"
      /\ \A i \in DOMAIN dbQueue' :
           /\ \E j \in DOMAIN dbQueue : dbQueue'[i] = dbQueue[j]
           /\ dbQueue'[i].op # "resume" => dbQueue'[i].by # a
      /\ \A j \in DOMAIN dbQueue :
           dbQueue[j] = Head(dbQueue) \/ \E i \in DOMAIN dbQueue' : dbQueue'[i] = dbQueue[j]
  BY WhatIsServed
<1>2. /\ Ordered' /\ dbQueue' \in Seq(Writes)
      /\ op = "pause" => \A i \in DOMAIN dbQueue' : dbQueue'[i].op # "resume"
  BY OrderWhenServed, WhenServed
<1> HIDE DEF a, op
<1>4. \A b \in Agents : pc'[b] = IF b = a THEN place ELSE pc[b]
  BY <1>0, <1>1 DEF TypeOK
<1>5. Announcing' = Announcing \ {a}
  BY <1>4 DEF Announcing
<1>6. ASSUME NEW i \in DOMAIN dbQueue'
      PROVE  /\ dbQueue'[i].op = "pause" => pc'[dbQueue'[i].by] = "announcing"
             /\ dbQueue'[i].op = "end" => pc'[dbQueue'[i].by] = "ending"
             /\ dbQueue'[i].op = "resume" => waitTask' = "resuming"
  BY <1>1, <1>2, <1>4, QueuedCalls DEF op
<1>7. ASSUME NEW b \in Announcing' PROVE \E i \in DOMAIN dbQueue' : dbQueue'[i] = Write("pause", b)
  <2>1. b # a /\ b \in Announcing
    BY <1>5, <1>7
  <2>2. PICK j \in DOMAIN dbQueue : dbQueue[j] = Write("pause", b)
    BY <2>1 DEF Entries
  <2>3. dbQueue[j] # Head(dbQueue)
    BY <2>1, <2>2, WriteFields DEF a
  <2>4. QED
    BY <1>1, <2>2, <2>3
<1>8. op = "pause" => waitTask # "resuming"
  <2>1. \A j \in DOMAIN dbQueue :
          dbQueue[j].op = "resume" => \E i \in DOMAIN dbQueue' : dbQueue'[i] = dbQueue[j]
    BY <1>1 DEF op
  <2>2. QED
    BY <1>2, <2>1 DEF Entries
<1>9. waitTask' = "resuming" => \E i \in DOMAIN dbQueue' : dbQueue'[i].op = "resume"
  <2>1. \A j \in DOMAIN dbQueue : dbQueue[j].op = "resume" => dbQueue[j] # Head(dbQueue)
    OBVIOUS
  <2>2. QED
    BY <1>1, <2>1 DEF Entries
<1>10. Entries'
  BY <1>6, <1>7, <1>9 DEF Entries
<1>11. QED
  BY <1>1, <1>2, <1>5, <1>8, <1>10 DEF a, op

LEMMA OnPausePreserves ==
  ASSUME IndInv, OnPause \/ OnPauseFails
  PROVE  IndInv'
<1> USE DEF IndInv
<1>0. PICK a : a = Head(dbQueue).by
  OBVIOUS
<1>1. /\ dbQueue # <<>> /\ dbQueue' = Tail(dbQueue) /\ Head(dbQueue).op = "pause"
      /\ UNCHANGED <<gate, paused, pauseCount, attempt, reported, exec>>
  BY DEF OnPause, OnPauseFails, pauser
<1>2. \/ waitTask' = "created" /\ pc' = [pc EXCEPT ![a] = "blocked"] /\ SetStatus("paused")
      \/ waitTask' = waitTask /\ pc' = [pc EXCEPT ![a] = "raised"] /\ status' = status
  BY <1>0 DEF OnPause, OnPauseFails, pauser
<1>3. /\ dbQueue' \in Seq(Writes) /\ Entries' /\ Ordered'
      /\ a \in Agents /\ pc[a] = "announcing" /\ Announcing' = Announcing \ {a}
      /\ waitTask # "resuming"
  <2>1. CASE waitTask' = waitTask /\ pc' = [pc EXCEPT ![a] = "raised"]
    <3>1. \E p \in {"blocked", "raised", "ended"} : pc' = [pc EXCEPT ![Head(dbQueue).by] = p]
      BY <1>0, <2>1
    <3>2. waitTask' = waitTask \/ (Head(dbQueue).op = "pause" /\ waitTask' = "created")
      BY <2>1
    <3>3. QED
      BY <1>0, <1>1, <3>1, <3>2, ServedCall
  <2>2. CASE waitTask' = "created" /\ pc' = [pc EXCEPT ![a] = "blocked"]
    <3>1. \E p \in {"blocked", "raised", "ended"} : pc' = [pc EXCEPT ![Head(dbQueue).by] = p]
      BY <1>0, <2>2
    <3>2. QED
      BY <1>0, <1>1, <2>2, <3>1, ServedCall
  <2>3. QED
    BY <1>2, <2>1, <2>2
<1>4. /\ paused /\ waitTask \notin Live /\ Announcing' = {} /\ a \notin woken
      /\ woken' = woken
  <2>1. paused /\ waitTask \notin Live /\ Announcing' = {} /\ a \notin woken
    BY <1>3 DEF OneOwner, Announcing, GateKept, AtGate
  <2>2. woken' = woken
    BY <2>1 DEF OnPause, OnPauseFails, AwaitGate, GateKept
  <2>3. QED
    BY <2>1, <2>2
<1>5. /\ \A b \in Agents : b # a => pc'[b] = pc[b]
      /\ pc'[a] \in {"blocked", "raised"}
      /\ pc'[a] = "blocked" => waitTask' = "created"
      /\ pc'[a] = "raised" => waitTask' = waitTask
  BY <1>2, <1>3 DEF TypeOK
<1>6. TypeOK'
  <2>1. status' \in {"running", "paused", "completed", "failed", "cancelled"}
    BY <1>2 DEF SetStatus, TypeOK
  <2>2. waitTask' \in Live \cup {"none", "resuming", "done", "failed"}
    BY <1>2 DEF TypeOK, Live
  <2>3. pc' \in [Agents -> {"start", "waiting", "agent", "announcing", "blocked", "ending"} \cup Ended]
    BY <1>2, <1>3 DEF TypeOK, Ended
  <2>4. QED
    BY <1>1, <1>3, <1>4, <2>1, <2>2, <2>3 DEF TypeOK
<1>7. AttemptsLeft' /\ GateKept'
  <2>1. AttemptsLeft'
    BY <1>1, <1>3, <1>5 DEF AttemptsLeft
  <2>2. gate' = ~paused' /\ ~gate'
    BY <1>1, <1>4 DEF GateKept
  <2>3. \A b \in woken' : b # a /\ b \in Agents /\ pc[b] \in AtGate
    BY <1>1, <1>4 DEF GateKept, TypeOK
  <2>4. GateKept'
    BY <1>5, <2>2, <2>3 DEF GateKept, NoLostWakeup, AtGate
  <2>5. QED
    BY <2>1, <2>4
<1>8. OneOwner'
  BY <1>1, <1>4 DEF OneOwner
<1>9. Owned'
  BY <1>1, <1>2, <1>3, <1>4, <1>5 DEF Owned, NoneRaised, Live
<1>10. PauserAwaits'
  <2>1. CASE pc'[a] = "blocked"
    <3>1. Sleeper(a)' /\ waitTask' = "created"
      BY <1>1, <1>4, <1>5, <2>1 DEF Sleeper
    <3>2. QED
      BY <1>3, <3>1 DEF PauserAwaits
  <2>2. CASE pc'[a] = "raised"
    <3>1. waitTask' = waitTask /\ waitTask # "resuming"
      BY <1>3, <1>5, <2>2
    <3>2. QED
      BY <1>4, <3>1 DEF PauserAwaits
  <2>3. QED
    BY <1>5, <2>1, <2>2
<1>11. StatusSettled'
  <2>1. CASE pc'[a] = "raised"
    BY <1>3, <2>1 DEF StatusSettled, NoneRaised
  <2>2. CASE pc'[a] = "blocked"
    <3>1. exec' = "running" => status' = "paused"
      BY <1>1, <1>2, <1>3, <2>2 DEF SetStatus, TypeOK
    <3>2. QED
      BY <1>1, <1>4, <3>1 DEF StatusSettled
  <2>3. QED
    BY <1>5, <2>1, <2>2
<1>12. CompletedAllEnded'
  BY <1>1, <1>2, <1>3 DEF CompletedAllEnded, SetStatus
<1>13. QED
  BY <1>3, <1>6, <1>7, <1>8, <1>9, <1>10, <1>11, <1>12

LEMMA OnResumePreserves ==
  ASSUME IndInv, OnResume \/ OnResumeFails
  PROVE  IndInv'
<1> USE DEF IndInv
<1>1. /\ dbQueue # <<>> /\ dbQueue' = Tail(dbQueue) /\ Head(dbQueue).op = "resume"
      /\ UNCHANGED <<gate, paused, pauseCount, pc, attempt, woken, reported, exec>>
  BY DEF OnResume, OnResumeFails, calls
<1>2. \/ waitTask' = "done" /\ SetStatus("running")
      \/ waitTask' = "failed" /\ status' = status
  BY DEF OnResume, OnResumeFails
<1>3. /\ dbQueue' \in Seq(Writes) /\ Ordered' /\ waitTask = "resuming"
      /\ \A i \in DOMAIN dbQueue' :
           dbQueue'[i].op # "resume" /\ \E j \in DOMAIN dbQueue : dbQueue'[i] = dbQueue[j]
      /\ \A j \in DOMAIN dbQueue :
           dbQueue[j].op # "resume" => \E i \in DOMAIN dbQueue' : dbQueue'[i] = dbQueue[j]
  BY <1>1, WhatIsServed, WhenServed, OrderWhenServed
<1>4. Announcing' = Announcing /\ NoneRaised' = NoneRaised
  BY <1>1 DEF Announcing, NoneRaised
<1>5. TypeOK' /\ AttemptsLeft' /\ GateKept'
  BY <1>1, <1>2, <1>3 DEF TypeOK, SetStatus, AttemptsLeft, GateKept, NoLostWakeup
<1>6. Entries'
  <2>1. \A a \in Announcing' : \E i \in DOMAIN dbQueue' : dbQueue'[i] = Write("pause", a)
    BY <1>3, <1>4, WriteFields DEF Entries
  <2>2. QED
    BY <1>1, <1>2, <1>3, <2>1, QueuedCalls DEF Entries
<1>7. OneOwner' /\ Owned' /\ PauserAwaits'
  BY <1>1, <1>2, <1>3, <1>4 DEF OneOwner, Owned, PauserAwaits, Live
<1>8. StatusSettled'
  <2>1. Settled' => Announcing' = {}
    BY <1>6, WriteFields DEF Settled, Entries
  <2>2. exec' = "running" /\ NoneRaised' /\ Settled' => ~paused'
    BY <1>2, <1>7, <2>1 DEF Owned, Live
  <2>3. exec' = "running" /\ waitTask' # "failed" => status' = "running"
    BY <1>1, <1>2 DEF SetStatus
  <2>4. QED
    BY <2>2, <2>3 DEF StatusSettled
<1>9. CompletedAllEnded'
  <2>1. PICK a \in Agents : pc[a] \notin Ended
    BY <1>3 DEF PauserAwaits, BehindResume
  <2>2. status' # "completed"
    BY <1>2, <2>1 DEF CompletedAllEnded, SetStatus, Ended
  <2>3. QED
    BY <2>2 DEF CompletedAllEnded
<1>10. QED
  BY <1>3, <1>5, <1>6, <1>7, <1>8, <1>9

LEMMA OnTaskEndPreserves ==
  ASSUME IndInv, OnTaskEnd
  PROVE  IndInv'
<1> USE DEF IndInv
<1>0. PICK a : a = Head(dbQueue).by
  OBVIOUS
<1>1. /\ dbQueue # <<>> /\ dbQueue' = Tail(dbQueue) /\ Head(dbQueue).op = "end"
      /\ pc' = [pc EXCEPT ![a] = "ended"]
      /\ UNCHANGED <<gate, paused, pauseCount, waitTask, attempt, woken, reported, status, exec>>
  BY <1>0 DEF OnTaskEnd, pauser
<1>2. /\ dbQueue' \in Seq(Writes) /\ Entries' /\ Ordered'
      /\ a \in Agents /\ pc[a] = "ending" /\ Announcing' = Announcing \ {a}
  <2>1. \E p \in {"blocked", "raised", "ended"} : pc' = [pc EXCEPT ![Head(dbQueue).by] = p]
    BY <1>0, <1>1
  <2>2. waitTask' = waitTask \/ (Head(dbQueue).op = "pause" /\ waitTask' = "created")
    BY <1>1
  <2>3. dbQueue # <<>> /\ dbQueue' = Tail(dbQueue) /\ Head(dbQueue).op = "end"
    BY <1>1
  <2>4. QED
    BY <1>0, <2>1, <2>2, <2>3, ServedCall
<1>3. \A b \in Agents : pc'[b] = IF b = a THEN "ended" ELSE pc[b]
  BY <1>1, <1>2 DEF TypeOK
<1>4. Announcing' = Announcing /\ NoneRaised' = NoneRaised
  BY <1>2, <1>3 DEF Announcing, NoneRaised
<1>5. TypeOK' /\ AttemptsLeft' /\ GateKept'
  <2>1. TypeOK'
    BY <1>1, <1>2 DEF TypeOK, Ended
  <2>2. AttemptsLeft' /\ GateKept'
    BY <1>1, <1>2, <1>3 DEF AttemptsLeft, GateKept, NoLostWakeup, AtGate, TypeOK
  <2>3. QED
    BY <2>1, <2>2
<1>6. OneOwner' /\ Owned' /\ CompletedAllEnded'
  BY <1>1, <1>3, <1>4 DEF OneOwner, Owned, CompletedAllEnded
<1>7. PauserAwaits'
  <2>1. \A b \in Agents : Sleeper(b) => Sleeper(b)'
    BY <1>1, <1>2, <1>3 DEF Sleeper
  <2>2. ASSUME waitTask = "resuming", NEW b \in Agents, BehindResume(b)
        PROVE  BehindResume(b)'
    <3>1. 1 \in DOMAIN dbQueue /\ dbQueue[1].by = a /\ dbQueue[1].op = "end"
      BY <1>0, <1>1, WhenServed
    <3>2. PICK r \in DOMAIN dbQueue : dbQueue[r].op = "resume"
      BY <2>2 DEF Entries
    <3>3. ~(r < 1)
      BY QueueIndices
    <3>4. b # a
      BY <2>2, <3>1, <3>2, <3>3 DEF BehindResume
    <3>5. ASSUME NEW i \in DOMAIN dbQueue', NEW j \in DOMAIN dbQueue',
                 dbQueue'[i].op = "resume", dbQueue'[j].op # "resume", dbQueue'[j].by = b
          PROVE  i < j
      <4>1. /\ i + 1 \in DOMAIN dbQueue /\ dbQueue'[i] = dbQueue[i + 1] /\ i \in Nat
            /\ j + 1 \in DOMAIN dbQueue /\ dbQueue'[j] = dbQueue[j + 1] /\ j \in Nat
        BY <1>1, WhenServed, QueueIndices
      <4>2. i + 1 < j + 1
        BY <2>2, <3>5, <4>1 DEF BehindResume
      <4>3. QED
        BY <4>1, <4>2
    <3>6. QED
      BY <1>3, <2>2, <3>4, <3>5 DEF BehindResume
  <2>3. QED
    BY <1>1, <2>1, <2>2 DEF PauserAwaits
<1>8. StatusSettled'
  <2>1. Settled' => Settled
    BY <1>1, WhatIsServed DEF Settled
  <2>2. QED
    BY <1>1, <1>4, <2>1 DEF StatusSettled
<1>9. QED
  BY <1>2, <1>5, <1>6, <1>7, <1>8

LEMMA ExecutionPreserves ==
  ASSUME IndInv, Execution \/ CancelRequested
  PROVE  IndInv'
<1> USE DEF IndInv
<1>1. UNCHANGED <<gate, paused, pauseCount, pc, attempt, woken, reported>>
  BY DEF Execution, Completes, HandleCancel, CommitCancelled, SessionCloses, CancelRequested, pauser, calls
<1>2. Announcing' = Announcing
  BY <1>1 DEF Announcing
<1>3. AttemptsLeft' /\ GateKept'
  BY <1>1 DEF AttemptsLeft, GateKept, NoLostWakeup
<1>4. CASE Completes \/ CommitCancelled \/ SessionCloses \/ CancelRequested
  <2>1. UNCHANGED <<waitTask, dbQueue>>
    BY <1>4 DEF Completes, CommitCancelled, SessionCloses, CancelRequested, pauser
  <2>2. /\ exec' \in {"cancelling", "notifying", "over"}
        /\ exec' = "cancelling" => exec = "running"
        /\ status' \in {"completed", "failed", "cancelled", status}
    BY <1>4 DEF Completes, CommitCancelled, SessionCloses, CancelRequested
  <2>3. TypeOK'
    BY <1>1, <2>1, <2>2 DEF TypeOK
  <2>4. Entries' /\ Ordered' /\ OneOwner' /\ Owned'
    BY <1>1, <1>2, <2>1, <2>2 DEF Entries, Ordered, OneOwner, Owned
  <2>5. PauserAwaits' /\ StatusSettled'
    BY <1>1, <2>1, <2>2 DEF PauserAwaits, Sleeper, BehindResume, StatusSettled
  <2>6. CompletedAllEnded'
    BY <1>1, <1>4 DEF CompletedAllEnded, Completes, CommitCancelled, SessionCloses, CancelRequested,
      Accounted, Ended, NoneRaised
  <2>7. QED
    BY <1>3, <2>3, <2>4, <2>5, <2>6
<1>5. CASE HandleCancel
  <2>1. /\ exec = "cancelling" /\ exec' = "cleanup" /\ status' = status
        /\ waitTask' = CASE waitTask = "sleeping" -> "cancelling"
                         [] waitTask \in {"created", "resuming"} -> "done"
                         [] OTHER -> waitTask
        /\ IF waitTask = "resuming" THEN GiveUp("resume") ELSE dbQueue' = dbQueue
    BY <1>5 DEF HandleCancel
  <2>2. /\ waitTask' \in {waitTask, "cancelling", "done"} /\ waitTask' # "resuming"
        /\ waitTask' \in Live => waitTask \in Live
    BY <2>1 DEF Live
  <2>3. dbQueue' \in Seq(Writes) /\ Ordered' /\ Entries'
    <3>1. CASE waitTask # "resuming"
      <4>1. dbQueue' = dbQueue
        BY <2>1, <3>1
      <4>2. Entries'
        BY <1>1, <1>2, <2>2, <3>1, <4>1, QueuedCalls DEF Entries
      <4>3. QED
        BY <4>1, <4>2 DEF TypeOK, Ordered
    <3>2. CASE waitTask = "resuming"
      <4>1. GiveUp("resume")
        BY <2>1, <3>2
      <4>2. dbQueue' \in Seq(Writes) /\ Ordered'
        BY <4>1, WhenGivenUp, OrderWhenGivenUp
      <4>3. \A a \in Announcing' : \E i \in DOMAIN dbQueue' : dbQueue'[i] = Write("pause", a)
        BY <1>2, <4>1, OrderWhenGivenUp, WriteFields DEF Entries
      <4>4. Entries'
        BY <1>1, <2>2, <4>1, <4>3, OrderWhenGivenUp, QueuedCalls DEF Entries
      <4>5. QED
        BY <4>2, <4>4
    <3>3. QED
      BY <3>1, <3>2
  <2>4. TypeOK'
    BY <1>1, <2>1, <2>2, <2>3 DEF TypeOK, Live
  <2>5. OneOwner' /\ Owned' /\ StatusSettled' /\ CompletedAllEnded'
    BY <1>1, <1>2, <2>1, <2>2 DEF OneOwner, Owned, StatusSettled, CompletedAllEnded
  <2>6. PauserAwaits'
    BY <1>1, <2>2 DEF PauserAwaits, Sleeper
  <2>7. QED
    BY <1>3, <2>3, <2>4, <2>5, <2>6
<1>6. QED
  BY <1>4, <1>5 DEF Execution

LEMMA StepPreserves == IndInv /\ [Next]_vars => IndInv'
<1> SUFFICES ASSUME IndInv, [Next]_vars PROVE IndInv'
  OBVIOUS
<1>1. ASSUME NEW a \in Agents, Call(a) PROVE IndInv'
  BY <1>1, EnterPreserves, AgentEndsPreserves, AgentLimitedPreserves DEF Call
<1>2. CASE Window
  BY <1>2, WindowPreserves
<1>3. CASE Callback
  BY <1>3, OnPausePreserves, OnResumePreserves, OnTaskEndPreserves DEF Callback
<1>4. CASE Execution \/ CancelRequested
  BY <1>4, ExecutionPreserves
<1>5. CASE UNCHANGED vars
  BY <1>5 DEF vars, pauser, calls, IndInv, TypeOK, AttemptsLeft, GateKept, NoLostWakeup, Entries,
    Announcing, Ordered, OneOwner, Owned, NoneRaised, PauserAwaits, Sleeper, BehindResume,
    StatusSettled, Settled, CompletedAllEnded
<1>6. QED
  BY <1>1, <1>2, <1>3, <1>4, <1>5 DEF Next
-----------------------------------------------------------------------------
\* The window that a call has last reported to is over, unless the call is
\* inside pause() and has not been woken there, or has been raised out of it.
\* There is no window number 0.
Spaced ==
  /\ paused => pauseCount # 0
  /\ \A a \in Agents : reported[a] <= pauseCount
  /\ \A a \in Agents :
       \/ Over(reported[a])
       \/ pc[a] \in {"announcing", "raised"}
       \/ Sleeper(a)

LEMMA SpacedPreserved == IndInv /\ Spaced /\ [Next]_vars => Spaced'
<1> SUFFICES ASSUME IndInv, Spaced, [Next]_vars PROVE Spaced'
  OBVIOUS
<1> USE DEF Spaced, Over, Sleeper
<1>0. /\ TypeOK /\ gate = ~paused /\ \A a \in woken : pc[a] \in AtGate
      /\ \A a \in Agents : pc[a] = "announcing" => paused
  BY DEF IndInv, GateKept, OneOwner, Announcing
<1>1. ASSUME NEW a \in Agents, Enter(a) \/ PassGate(a) PROVE Spaced'
  <2>1. /\ UNCHANGED <<paused, pauseCount, reported>> /\ woken' = woken \ {a}
        /\ \A b \in Agents \ {a} : pc'[b] = pc[b]
        /\ pc[a] \in {"start", "waiting"} \/ (pc[a] = "blocked" /\ a \in woken)
    BY <1>0, <1>1 DEF Enter, PassGate, StartAgent, pauser, TypeOK
  <2>2. QED
    BY <2>1
<1>2. ASSUME NEW a \in Agents, AgentEnds(a) PROVE Spaced'
  BY <1>0, <1>2 DEF AgentEnds, pauser, TypeOK
<1>3. ASSUME NEW a \in Agents, AgentLimited(a) PROVE Spaced'
  <2>1. CASE paused /\ pc' = [pc EXCEPT ![a] = "blocked"] /\ AwaitGate(a)
             /\ UNCHANGED <<gate, paused, pauseCount>>
    <3>1. woken' = woken /\ a \notin woken /\ pc'[a] = "blocked"
      BY <1>0, <1>3, <2>1 DEF AwaitGate, AgentLimited, AtGate, TypeOK
    <3>2. \A b \in Agents \ {a} : pc'[b] = pc[b] /\ reported'[b] = reported[b]
      BY <1>0, <1>3, <2>1 DEF AgentLimited, TypeOK
    <3>3. pauseCount \in Nat /\ reported'[a] = pauseCount
      BY <1>0, <1>3, <2>1 DEF AgentLimited, TypeOK
    <3>4. QED
      BY <2>1, <3>1, <3>2, <3>3
  <2>2. CASE /\ ~paused /\ paused' = TRUE /\ pauseCount' = pauseCount + 1
             /\ pc' = [pc EXCEPT ![a] = "announcing"] /\ woken' = woken
    <3>1. /\ pc'[a] = "announcing"
          /\ \A b \in Agents \ {a} : pc'[b] = pc[b] /\ reported'[b] = reported[b]
      BY <1>0, <1>3, <2>2 DEF AgentLimited, TypeOK
    <3>2. pauseCount \in Nat /\ reported \in [Agents -> Nat] /\ reported'[a] = pauseCount + 1
      BY <1>0, <1>3, <2>2 DEF AgentLimited, TypeOK
    <3>3. QED
      BY <2>2, <3>1, <3>2
  <2>3. QED
    BY <1>3, <2>1, <2>2 DEF AgentLimited, FirstReport, pauser
<1>4. CASE Window
  <2>1. pc' = pc /\ reported' = reported /\ pauseCount' = pauseCount
        /\ (UNCHANGED <<paused, woken>> \/ paused' = FALSE)
    BY <1>4 DEF Window, WindowBegins, WindowEnds, WindowCancelled, OpenGate, calls
  <2>2. QED
    BY <2>1
<1>5. CASE Callback
  <2>1. UNCHANGED <<paused, pauseCount, reported>>
    BY <1>5 DEF Callback, OnPause, OnPauseFails, OnResume, OnResumeFails, OnTaskEnd, pauser, calls
  <2>2. CASE OnResume \/ OnResumeFails
    BY <2>1, <2>2 DEF OnResume, OnResumeFails, calls
  <2>3. CASE OnPause \/ OnPauseFails \/ OnTaskEnd
    <3>1. PICK a : a = Head(dbQueue).by
      OBVIOUS
    <3>2. /\ a \in Agents /\ (Head(dbQueue).op = "pause" => pc[a] = "announcing")
          /\ (Head(dbQueue).op = "end" => pc[a] = "ending")
      BY <2>3, <3>1, WhatIsServed DEF OnPause, OnPauseFails, OnTaskEnd, IndInv
    <3>3. CASE OnPause
      <4>1. pc[a] = "announcing" /\ woken' = woken /\ a \notin woken /\ pc' = [pc EXCEPT ![a] = "blocked"]
        BY <1>0, <3>1, <3>2, <3>3 DEF OnPause, AwaitGate, AtGate
      <4>2. QED
        BY <1>0, <2>1, <3>2, <4>1 DEF TypeOK
    <3>4. CASE OnPauseFails
      BY <1>0, <2>1, <3>1, <3>2, <3>4 DEF OnPauseFails, TypeOK
    <3>5. CASE OnTaskEnd
      BY <1>0, <2>1, <3>1, <3>2, <3>5 DEF OnTaskEnd, TypeOK
    <3>6. QED
      BY <2>3, <3>3, <3>4, <3>5
  <2>4. QED
    BY <1>5, <2>2, <2>3 DEF Callback
<1>6. CASE Execution \/ CancelRequested
  BY <1>6 DEF Execution, Completes, HandleCancel, CommitCancelled, SessionCloses, CancelRequested, pauser, calls
<1>7. CASE UNCHANGED vars
  BY <1>7 DEF vars, pauser, calls
<1>8. QED
  BY <1>1, <1>2, <1>3, <1>4, <1>5, <1>6, <1>7 DEF Next, Call

-----------------------------------------------------------------------------
\* The variables keep their types: no call starts more than MaxRetries + 1 agent
\* processes, however pauses, failures and cancellations meet.
THEOREM TypeCorrect == Spec => []TypeOK
<1>1. Init => IndInv
  BY InitEstablishes
<1>2. IndInv /\ [Next]_vars => IndInv'
  BY StepPreserves
<1>3. IndInv => TypeOK
  BY DEF IndInv
<1>4. QED
  BY <1>1, <1>2, <1>3, PTL DEF Spec

\* While the execution runs and no on_pause has failed, a pause has one owner,
\* and the gate is closed for as long as it has.
THEOREM PausesHaveOneOwner == Spec => []OneWindow
<1>1. Init => IndInv
  BY InitEstablishes
<1>2. IndInv /\ [Next]_vars => IndInv'
  BY StepPreserves
<1>3. IndInv => OneWindow
  <2> SUFFICES ASSUME IndInv, exec = "running", NoneRaised
               PROVE  /\ gate = ~paused
                      /\ paused <=> Announcing # {} \/ waitTask \in Live
                      /\ Cardinality(Announcing) <= 1
                      /\ Announcing # {} => waitTask \notin Live
    BY DEF OneWindow, Announcing
  <2>1. gate = ~paused
    BY DEF IndInv, GateKept
  <2>2. /\ paused <=> Announcing # {} \/ waitTask \in Live
        /\ Announcing # {} => waitTask \notin Live
    BY DEF IndInv, OneOwner, Owned
  <2>3. Cardinality(Announcing) <= 1
    <3>1. CASE Announcing = {}
      BY <3>1, FS_EmptySet
    <3>2. CASE Announcing # {}
      <4>1. PICK a : Announcing = {a}
        BY <3>2 DEF IndInv, OneOwner
      <4>2. Cardinality({a}) = 1
        BY FS_Singleton
      <4>3. QED
        BY <4>1, <4>2
    <3>3. QED
      BY <3>1, <3>2
  <2>4. QED
    BY <2>1, <2>2, <2>3
<1>4. QED
  BY <1>1, <1>2, <1>3, PTL DEF Spec

\* RetriesAreSpaced: a call that was limited runs no agent before the window is
\* over that its last report opened or joined, whatever fails or is cancelled.
THEOREM RetriesAwaitTheirWindow == Spec => []RetriesAreSpaced
<1>1. Init => IndInv /\ Spaced
  <2>1. Init => Spaced
    BY DEF Init, Spaced, Over
  <2>2. QED
    BY <2>1, InitEstablishes
<1>2. IndInv /\ Spaced /\ [Next]_vars => IndInv' /\ Spaced'
  BY StepPreserves, SpacedPreserved
<1>3. Spaced => RetriesAreSpaced
  BY DEF Spaced, Sleeper, RetriesAreSpaced
<1>4. QED
  BY <1>1, <1>2, <1>3, PTL DEF Spec

\* When no write is outstanding the status that the user sees is the state of
\* the pauser.
THEOREM StatusAgrees == Spec => []StatusFollowsPauser
<1>1. Init => IndInv
  BY InitEstablishes
<1>2. IndInv /\ [Next]_vars => IndInv'
  BY StepPreserves
<1>3. IndInv => StatusFollowsPauser
  <2> SUFFICES ASSUME IndInv, exec = "running", NoneRaised, waitTask # "failed", dbQueue = <<>>
               PROVE  status = IF paused THEN "paused" ELSE "running"
    BY DEF StatusFollowsPauser
  <2>1. Settled
    BY DEF Settled
  <2>2. QED
    BY <2>1 DEF IndInv, StatusSettled
<1>4. QED
  BY <1>1, <1>2, <1>3, PTL DEF Spec

\* A completed execution is not reopened by an on_pause or on_resume that was
\* still queued: none is.
THEOREM CompletionIsFinal == Spec => CompletedIsFinal
<1>1. Init => IndInv
  BY InitEstablishes
<1>2. IndInv /\ [Next]_vars => IndInv'
  BY StepPreserves
<1>3. IndInv /\ [Next]_vars => [status = "completed" => UNCHANGED status]_vars
  <2> SUFFICES ASSUME IndInv, [Next]_vars, status = "completed" PROVE status' = status
    OBVIOUS
  <2>1. exec \in {"notifying", "over"} /\ \A a \in Agents : pc[a] = "ended"
    BY DEF IndInv, CompletedAllEnded
  <2>2. ASSUME OnPause PROVE FALSE
    <3>1. dbQueue # <<>> /\ dbQueue' = Tail(dbQueue) /\ Head(dbQueue).op = "pause"
      BY <2>2 DEF OnPause
    <3>2. Head(dbQueue).by \in Agents /\ pc[Head(dbQueue).by] = "announcing"
      BY <3>1, WhatIsServed DEF IndInv
    <3>3. QED
      BY <2>1, <3>2
  <2>3. ASSUME OnResume PROVE FALSE
    <3>1. dbQueue # <<>> /\ dbQueue' = Tail(dbQueue) /\ Head(dbQueue).op = "resume"
      BY <2>3 DEF OnResume
    <3>2. waitTask = "resuming"
      BY <3>1, WhatIsServed DEF IndInv
    <3>3. QED
      BY <2>1, <3>2 DEF IndInv, PauserAwaits, BehindResume, Ended
  <2>4. CASE UNCHANGED vars
    BY <2>4 DEF vars
  <2>5. QED
    BY <2>1, <2>2, <2>3, <2>4 DEF Next, Call, Enter, PassGate, AgentEnds, AgentLimited, Window,
      WindowBegins, WindowEnds, WindowCancelled, Callback, OnPauseFails, OnResumeFails, OnTaskEnd,
      Execution, Completes, HandleCancel, CommitCancelled, SessionCloses, CancelRequested
<1>4. QED
  BY <1>1, <1>2, <1>3, PTL DEF Spec, CompletedIsFinal
=============================================================================
