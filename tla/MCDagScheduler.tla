--------------------------- MODULE MCDagScheduler ---------------------------
(* Instances of DagScheduler for TLC. *)
EXTENDS DagScheduler, SequencesExt

CONSTANTS t1, t2, t3, t4

ThreeTasks == {t1, t2, t3}
FourTasks  == {t1, t2, t3, t4}

\* Every acyclic dependency relation over the tasks, up to renaming: a task
\* depends on earlier ones only.  No dependency is listed twice (with one,
\* as in "Depends: a, a", ReadyIsLaunched and EndsUnlessFatal do not hold).
Lists(S) == {SetToSeq(D) : D \in SUBSET S}

AllGraphs4 ==
  {t1 :> <<>> @@ t2 :> a @@ t3 :> b @@ t4 :> c :
     a \in Lists({t1}), b \in Lists({t1, t2}), c \in Lists({t1, t2, t3})}
AllGraphs3 ==
  {t1 :> <<>> @@ t2 :> a @@ t3 :> b : a \in Lists({t1}), b \in Lists({t1, t2})}
=============================================================================
