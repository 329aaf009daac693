---------------------- MODULE ExecutionLifecycle_proofs ----------------------
(***************************************************************************)
(* Theorems about ExecutionLifecycle for any number of executions, cancel  *)
(* requests at any moment, any number of crashes and of rate limits.       *)
(*                                                                         *)
(* The heart of the invariant is Stopped: from the moment the cancel       *)
(* endpoint has looked for the background task, that task has ended, or    *)
(* will take a CancelledError as its next step, or is in the except clause *)
(* that writes "cancelled" once more.  So no other status can come after   *)
(* the answer but one that an agent's callback writes.  Written follows    *)
(* the status, the object it is written from and the event to the end.     *)
(* Undisturbed is why the list of sequences shows the execution at work:   *)
(* one launched while no task was alive is the only one as long as it is   *)
(* the latest, so nobody overwrites what it found or wrote as the status   *)
(* of the sequence.                                                        *)
(***************************************************************************)
EXTENDS ExecutionLifecycle, TLAPS

Stopped(e) ==
  \/ e \in cancelled
  \/ stage[e] \in {"none", "over"}
  \/ e \in handling /\ ending[e] = "cancelled"
       /\ stage[e] \in {"cleanup", "closing", "calling"}

Requests ==
  \A e \in Executions :
    /\ request[e] # "none" => status[e] # "none"
    /\ request[e] = "granted" \/ e \in answered => Stopped(e)
    /\ e \in answered => \/ status[e] = "cancelled"
                         \/ e \in overtaken /\ status[e] \in Rate
    /\ e \in cancelled => request[e] = "granted" \/ e \in answered

Written ==
  \A e \in Executions :
    /\ stage[e] = "none" <=> status[e] = "none"
    /\ stage[e] \in {"cleanup", "closing", "notifying", "calling"}
         => ending[e] \in Terminal
    /\ stage[e] = "closing" =>
         entity[e] = ending[e] \/ (e \in overtaken /\ entity[e] \in Rate)
    /\ stage[e] = "notifying" => ending[e] # "cancelled"
    /\ stage[e] = "notifying" =>
         entity[e] = "none" \/ (e \in overtaken /\ entity[e] \in Rate)
    /\ stage[e] \in {"notifying", "calling"} /\ e \notin overtaken =>
         status[e] \in {ending[e], "cancelled"}
    /\ stage[e] = "calling" /\ ending[e] # "cancelled" => verdict[e] = ending[e]
    /\ flushing[e] # "none" => e \in overtaken
    /\ e \in overtaken => status[e] # "none"

\* Ids are given out in order; the variable sawRunning is that of a task
\* between its first two steps.
InOrder ==
  \A e \in Executions : status[e] # "none" => \A d \in 1 .. e - 1 : status[d] # "none"

Undisturbed ==
  \A e \in Executions :
    /\ e \in sawRunning => stage[e] = "loading"
    /\ IsLatest(e) /\ stage[e] \in Live /\ e \notin overlapped =>
         /\ \A d \in Executions \ {e} : stage[d] \notin Live
         /\ AtWork(e) \/ e \in sawRunning => sequence = "running"

IndInv ==
  /\ TypeOK /\ Requests /\ Written /\ EndedIsTerminal /\ VerdictAgrees
  /\ InOrder /\ Undisturbed

LEMMA InitEstablishes == Init => IndInv
<1> SUFFICES ASSUME Init PROVE IndInv
  OBVIOUS
<1> USE BoundsAssumption DEF Init
<1>1. TypeOK
  BY DEF TypeOK, Executions, Nobody, Terminal, Live, Rate
<1>2. Requests /\ Written /\ EndedIsTerminal /\ VerdictAgrees
  BY DEF Requests, Written, EndedIsTerminal, VerdictAgrees
<1>3. InOrder /\ Undisturbed
  BY DEF InOrder, Undisturbed, Live, Executions
<1>4. QED
  BY <1>1, <1>2, <1>3 DEF IndInv

LEMMA StepPreserves == IndInv /\ [Next]_vars => (TypeOK /\ Requests /\ Written /\ EndedIsTerminal /\ VerdictAgrees)'
<1> SUFFICES ASSUME IndInv, [Next]_vars PROVE (TypeOK /\ Requests /\ Written /\ EndedIsTerminal /\ VerdictAgrees)'
  OBVIOUS
<1> USE BoundsAssumption DEF IndInv, TypeOK, Requests, Stopped, Written
<1> USE DEF EndedIsTerminal, VerdictAgrees, Terminal, Live, Rate, task, user, rate, fate
<1>1. ASSUME NEW e \in Executions, NEW b \in {Nobody} \cup Executions, Launch(e, b)
      PROVE  (TypeOK /\ Requests /\ Written /\ EndedIsTerminal /\ VerdictAgrees)'
  BY <1>1 DEF Launch
<1>2. ASSUME NEW e \in Executions, CancelReads(e)
      PROVE  (TypeOK /\ Requests /\ Written /\ EndedIsTerminal /\ VerdictAgrees)'
  BY <1>2 DEF CancelReads, Cancellable
<1>3. ASSUME NEW e \in Executions, CancelInterrupts(e)
      PROVE  (TypeOK /\ Requests /\ Written /\ EndedIsTerminal /\ VerdictAgrees)'
  BY <1>3 DEF CancelInterrupts, Active
<1>4. ASSUME NEW e \in Executions, CancelCommits(e)
      PROVE  (TypeOK /\ Requests /\ Written /\ EndedIsTerminal /\ VerdictAgrees)'
  BY <1>4 DEF CancelCommits, Granted
<1>5. ASSUME NEW e \in Executions, Begin(e)
      PROVE  (TypeOK /\ Requests /\ Written /\ EndedIsTerminal /\ VerdictAgrees)'
  BY <1>5 DEF Begin, Step, MayStep
<1>6. ASSUME NEW e \in Executions, Reject(e)
      PROVE  (TypeOK /\ Requests /\ Written /\ EndedIsTerminal /\ VerdictAgrees)'
  BY <1>6 DEF Reject, Step, MayStep, Rejected, Rejection, Leave
<1>7. ASSUME NEW e \in Executions, Start(e)
      PROVE  (TypeOK /\ Requests /\ Written /\ EndedIsTerminal /\ VerdictAgrees)'
  BY <1>7 DEF Start, Step, MayStep, SequenceAtStart
<1>8. ASSUME NEW e \in Executions, Prepare(e)
      PROVE  (TypeOK /\ Requests /\ Written /\ EndedIsTerminal /\ VerdictAgrees)'
  BY <1>8 DEF Prepare, Step, MayStep
<1>9. ASSUME NEW e \in Executions, MakeTree(e)
      PROVE  (TypeOK /\ Requests /\ Written /\ EndedIsTerminal /\ VerdictAgrees)'
  BY <1>9 DEF MakeTree, Step, MayStep, WorkBranch
<1>10. ASSUME NEW e \in Executions, NEW left \in {Nobody, e}, RejectTree(e, left)
      PROVE  (TypeOK /\ Requests /\ Written /\ EndedIsTerminal /\ VerdictAgrees)'
  BY <1>10 DEF RejectTree, Step, MayStep, Rejected, Rejection, Leave, WorkBranch
<1>11. ASSUME NEW e \in Executions, TakeTree(e)
      PROVE  (TypeOK /\ Requests /\ Written /\ EndedIsTerminal /\ VerdictAgrees)'
  BY <1>11 DEF TakeTree, Step, MayStep
<1>12. ASSUME NEW e \in Executions, SaveBranch(e)
      PROVE  (TypeOK /\ Requests /\ Written /\ EndedIsTerminal /\ VerdictAgrees)'
  BY <1>12 DEF SaveBranch, Step, MayStep, WorkBranch
<1>13. ASSUME NEW e \in Executions, NEW outcome \in {"completed", "failed"}, WavesEnd(e, outcome)
      PROVE  (TypeOK /\ Requests /\ Written /\ EndedIsTerminal /\ VerdictAgrees)'
  BY <1>13 DEF WavesEnd, Step, MayStep
<1>14. ASSUME NEW e \in Executions, RemoveTree(e)
      PROVE  (TypeOK /\ Requests /\ Written /\ EndedIsTerminal /\ VerdictAgrees)'
  BY <1>14 DEF RemoveTree, Step, MayStep, WorkBranch
<1>15. ASSUME NEW e \in Executions, WriteEnd(e)
      PROVE  (TypeOK /\ Requests /\ Written /\ EndedIsTerminal /\ VerdictAgrees)'
  BY <1>15 DEF WriteEnd, Step, MayStep, EndStatus
<1>16. ASSUME NEW e \in Executions, Notify(e)
      PROVE  (TypeOK /\ Requests /\ Written /\ EndedIsTerminal /\ VerdictAgrees)'
  BY <1>16 DEF Notify, Step, MayStep
<1>17. ASSUME NEW e \in Executions, Return(e)
      PROVE  (TypeOK /\ Requests /\ Written /\ EndedIsTerminal /\ VerdictAgrees)'
  BY <1>17 DEF Return, Step, MayStep, Leave
<1>18. ASSUME NEW e \in Executions, Raise(e)
      PROVE  (TypeOK /\ Requests /\ Written /\ EndedIsTerminal /\ VerdictAgrees)'
  BY <1>18 DEF Raise, MayStep, Except, Covered, Leave
<1>19. ASSUME NEW e \in Executions, Interrupted(e)
      PROVE  (TypeOK /\ Requests /\ Written /\ EndedIsTerminal /\ VerdictAgrees)'
  BY <1>19 DEF Interrupted, Except, Covered, Leave
<1>20. ASSUME NEW e \in Executions, NEW s \in Rate, CallbackInTime(e, s)
      PROVE  (TypeOK /\ Requests /\ Written /\ EndedIsTerminal /\ VerdictAgrees)'
  BY <1>20 DEF CallbackInTime, InCharge, Callback
<1>21. ASSUME NEW e \in Executions, NEW s \in Rate, CallbackSets(e, s)
      PROVE  (TypeOK /\ Requests /\ Written /\ EndedIsTerminal /\ VerdictAgrees)'
  BY <1>21 DEF CallbackSets, InCharge, Callback
<1>22. ASSUME NEW e \in Executions, CallbackCommits(e)
      PROVE  (TypeOK /\ Requests /\ Written /\ EndedIsTerminal /\ VerdictAgrees)'
  BY <1>22 DEF CallbackCommits
<1>23. CASE Crash
  BY <1>23 DEF Crash, Active, Leave
<1>24. CASE UNCHANGED vars
  BY <1>24 DEF vars
<1>25. ASSUME NEW e \in Executions,
             Create(e) \/ \E p \in 1 .. e - 1 : Continue(e, p) \/ Rerun(e, p)
      PROVE  (TypeOK /\ Requests /\ Written /\ EndedIsTerminal /\ VerdictAgrees)'
  <2>1. \E b \in {Nobody} \cup Executions : Launch(e, b)
    <3>1. \A p \in 1 .. e - 1 : branch[p] \in {Nobody} \cup Executions
      BY BoundsAssumption DEF Executions, IndInv, TypeOK
    <3>2. QED
      BY <1>25, <3>1 DEF Create, Continue, Rerun
  <2>2. QED
    BY <1>1, <2>1
<1>26. QED
  BY <1>2, <1>3, <1>4, <1>5, <1>6, <1>7, <1>8, <1>9, <1>10, <1>11, <1>12, <1>13, <1>14, <1>15, <1>16, <1>17, <1>18, <1>19, <1>20, <1>21, <1>22, <1>23, <1>24, <1>25 DEF Next, Background, Answer, Report

LEMMA OrderPreserved == IndInv /\ [Next]_vars => (InOrder /\ Undisturbed)'
<1> SUFFICES ASSUME IndInv, [Next]_vars PROVE (InOrder /\ Undisturbed)'
  OBVIOUS
<1> USE BoundsAssumption DEF IndInv, TypeOK, Written, InOrder, Undisturbed, IsLatest, AtWork, Active, Terminal, Live, Rate, task, user, rate, fate
<1>1. ASSUME NEW e \in Executions, NEW b \in {Nobody} \cup Executions, Launch(e, b)
      PROVE  (InOrder /\ Undisturbed)'
  <2>1. \A d \in Executions : d > e => status[d] = "none"
    BY <1>1 DEF Launch, Executions
  <2>2. InOrder'
    BY <1>1, <2>1 DEF Launch
  <2>3. \A d \in Executions : d # e => ~IsLatest(d)'
    BY <1>1, <2>1 DEF Launch, Executions
  <2>4. Undisturbed'
    BY <1>1, <2>3 DEF Launch
  <2>5. QED
    BY <2>2, <2>4
<1>2. ASSUME NEW e \in Executions, CancelReads(e)
      PROVE  (InOrder /\ Undisturbed)'
  BY <1>2 DEF CancelReads, Cancellable
<1>3. ASSUME NEW e \in Executions, CancelInterrupts(e)
      PROVE  (InOrder /\ Undisturbed)'
  BY <1>3 DEF CancelInterrupts, Active
<1>4. ASSUME NEW e \in Executions, CancelCommits(e)
      PROVE  (InOrder /\ Undisturbed)'
  <2>1. \A d \in Executions : status'[d] = "none" <=> status[d] = "none"
    BY <1>4 DEF CancelCommits, Granted, Requests
  <2>2. InOrder'
    BY <2>1 DEF Executions
  <2>3. QED
    BY <1>4, <2>1, <2>2 DEF CancelCommits
<1>5. ASSUME NEW e \in Executions, Begin(e)
      PROVE  (InOrder /\ Undisturbed)'
  BY <1>5 DEF Begin, Step, MayStep
<1>6. ASSUME NEW e \in Executions, Reject(e)
      PROVE  (InOrder /\ Undisturbed)'
  BY <1>6 DEF Reject, Step, MayStep, Rejected, Rejection, Leave
<1>7. ASSUME NEW e \in Executions, Start(e)
      PROVE  (InOrder /\ Undisturbed)'
  BY <1>7 DEF Start, Step, MayStep, SequenceAtStart
<1>8. ASSUME NEW e \in Executions, Prepare(e)
      PROVE  (InOrder /\ Undisturbed)'
  BY <1>8 DEF Prepare, Step, MayStep
<1>9. ASSUME NEW e \in Executions, MakeTree(e)
      PROVE  (InOrder /\ Undisturbed)'
  BY <1>9 DEF MakeTree, Step, MayStep, WorkBranch
<1>10. ASSUME NEW e \in Executions, NEW left \in {Nobody, e}, RejectTree(e, left)
      PROVE  (InOrder /\ Undisturbed)'
  BY <1>10 DEF RejectTree, Step, MayStep, Rejected, Rejection, Leave, WorkBranch
<1>11. ASSUME NEW e \in Executions, TakeTree(e)
      PROVE  (InOrder /\ Undisturbed)'
  BY <1>11 DEF TakeTree, Step, MayStep
<1>12. ASSUME NEW e \in Executions, SaveBranch(e)
      PROVE  (InOrder /\ Undisturbed)'
  BY <1>12 DEF SaveBranch, Step, MayStep, WorkBranch
<1>13. ASSUME NEW e \in Executions, NEW outcome \in {"completed", "failed"}, WavesEnd(e, outcome)
      PROVE  (InOrder /\ Undisturbed)'
  BY <1>13 DEF WavesEnd, Step, MayStep
<1>14. ASSUME NEW e \in Executions, RemoveTree(e)
      PROVE  (InOrder /\ Undisturbed)'
  BY <1>14 DEF RemoveTree, Step, MayStep, WorkBranch
<1>15. ASSUME NEW e \in Executions, WriteEnd(e)
      PROVE  (InOrder /\ Undisturbed)'
  BY <1>15 DEF WriteEnd, Step, MayStep, EndStatus
<1>16. ASSUME NEW e \in Executions, Notify(e)
      PROVE  (InOrder /\ Undisturbed)'
  BY <1>16 DEF Notify, Step, MayStep
<1>17. ASSUME NEW e \in Executions, Return(e)
      PROVE  (InOrder /\ Undisturbed)'
  BY <1>17 DEF Return, Step, MayStep, Leave
<1>18. ASSUME NEW e \in Executions, Raise(e)
      PROVE  (InOrder /\ Undisturbed)'
  BY <1>18 DEF Raise, MayStep, Except, Covered, Leave
<1>19. ASSUME NEW e \in Executions, Interrupted(e)
      PROVE  (InOrder /\ Undisturbed)'
  BY <1>19 DEF Interrupted, Except, Covered, Leave
<1>20. ASSUME NEW e \in Executions, NEW s \in Rate, CallbackInTime(e, s)
      PROVE  (InOrder /\ Undisturbed)'
  BY <1>20 DEF CallbackInTime, InCharge, Callback
<1>21. ASSUME NEW e \in Executions, NEW s \in Rate, CallbackSets(e, s)
      PROVE  (InOrder /\ Undisturbed)'
  BY <1>21 DEF CallbackSets, InCharge, Callback
<1>22. ASSUME NEW e \in Executions, CallbackCommits(e)
      PROVE  (InOrder /\ Undisturbed)'
  BY <1>22 DEF CallbackCommits
<1>23. CASE Crash
  BY <1>23 DEF Crash, Active, Leave
<1>24. CASE UNCHANGED vars
  BY <1>24 DEF vars
<1>25. ASSUME NEW e \in Executions,
             Create(e) \/ \E p \in 1 .. e - 1 : Continue(e, p) \/ Rerun(e, p)
      PROVE  (InOrder /\ Undisturbed)'
  <2>1. \E b \in {Nobody} \cup Executions : Launch(e, b)
    <3>1. \A p \in 1 .. e - 1 : branch[p] \in {Nobody} \cup Executions
      BY BoundsAssumption DEF Executions, IndInv, TypeOK
    <3>2. QED
      BY <1>25, <3>1 DEF Create, Continue, Rerun
  <2>2. QED
    BY <1>1, <2>1
<1>26. QED
  BY <1>2, <1>3, <1>4, <1>5, <1>6, <1>7, <1>8, <1>9, <1>10, <1>11, <1>12, <1>13, <1>14, <1>15, <1>16, <1>17, <1>18, <1>19, <1>20, <1>21, <1>22, <1>23, <1>24, <1>25 DEF Next, Background, Answer, Report

LEMMA Invariance == Spec => []IndInv
<1>1. IndInv /\ [Next]_vars => IndInv'
  BY StepPreserves, OrderPreserved DEF IndInv
<1>2. QED
  BY <1>1, InitEstablishes, PTL DEF Spec

\* TypeOK: the types of the state, with a CancelledError pending for tasks that
\* are alive only.
THEOREM TypeCorrect == Spec => []TypeOK
<1>1. IndInv => TypeOK
  BY DEF IndInv
<1>2. QED
  BY <1>1, Invariance, PTL

\* EndedIsTerminal: a background task that came to its end left a terminal
\* status, unless a crash, an unhandled exception or an agent's callback came
\* in between.
THEOREM EndsAreTerminal == Spec => []EndedIsTerminal
<1>1. IndInv => EndedIsTerminal
  BY DEF IndInv
<1>2. QED
  BY <1>1, Invariance, PTL

\* VerdictAgrees: the event of an execution says what its status says, with the
\* same exceptions.
THEOREM EventsAgree == Spec => []VerdictAgrees
<1>1. IndInv => VerdictAgrees
  BY DEF IndInv
<1>2. QED
  BY <1>1, Invariance, PTL

\* CancelSticks: of an execution whose cancellation was answered no step
\* changes the status again but a callback of one of its agents, and whatever
\* follows that it does not become a completed or failed one.
THEOREM CancellationIsFinal == Spec => CancelSticks
<1>1. IndInv /\ IndInv' /\ [Next]_vars => [StaysCancelled]_vars
  <2> SUFFICES ASSUME IndInv, IndInv', [Next]_vars
               PROVE StaysCancelled \/ UNCHANGED vars
    OBVIOUS
  <2>1. answered \subseteq answered'
    <3> USE DEF user
    <3>1. ASSUME NEW e \in Executions,
                 Create(e) \/ \E p \in 1 .. e - 1 : Continue(e, p) \/ Rerun(e, p)
          PROVE  answered' = answered
      BY <3>1 DEF Create, Continue, Rerun, Launch
    <3>2. ASSUME NEW e \in Executions, CancelReads(e) \/ Answer(e)
          PROVE  answered \subseteq answered'
      BY <3>2 DEF CancelReads, Answer, CancelInterrupts, CancelCommits
    <3>3. ASSUME NEW e \in Executions, Background(e)
          PROVE  answered' = answered
      BY <3>3 DEF Background, Begin, Reject, Start, Prepare, MakeTree,
         RejectTree, TakeTree, SaveBranch, WavesEnd, RemoveTree, WriteEnd,
         Notify, Return, Raise, Interrupted, Rejected, Except
    <3>4. ASSUME NEW e \in Executions,
                 (\E s \in Rate : Report(e, s)) \/ CallbackCommits(e)
          PROVE  answered' = answered
      BY <3>4 DEF Report, CallbackInTime, CallbackSets, CallbackCommits, Callback
    <3>5. CASE Crash \/ UNCHANGED vars
      BY <3>5 DEF Crash, vars
    <3>6. QED
      BY <3>1, <3>2, <3>3, <3>4, <3>5 DEF Next
  <2>2. QED
    BY <2>1 DEF IndInv, Requests, TypeOK, StaysCancelled
<1>2. QED
  BY <1>1, Invariance, PTL DEF Spec, CancelSticks

\* ShownIsCurrent: the status of a sequence is that of its latest execution
\* while that one is at work, whatever older executions left behind in the
\* database, if none of them was still running when it was launched.
THEOREM LatestIsShown == Spec => []ShownIsCurrent
<1>1. IndInv => ShownIsCurrent
  <2> SUFFICES ASSUME IndInv, NEW e \in Executions,
                      IsLatest(e), AtWork(e), e \notin overlapped
               PROVE  Shown = status[e]
    BY DEF ShownIsCurrent
  <2>1. sequence = "running"
    BY DEF IndInv, Undisturbed, AtWork
  <2>2. \A d \in Executions : IsLatest(d) => d = e
    BY DEF IsLatest, Executions
  <2>3. Latest = status[e]
    BY <2>2 DEF Latest
  <2>4. status[e] # "none"
    BY DEF IsLatest
  <2>5. QED
    BY <2>1, <2>3, <2>4 DEF Shown, Believed, Terminal
<1>2. QED
  BY <1>1, Invariance, PTL
=============================================================================
