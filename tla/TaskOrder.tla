------------------------------ MODULE TaskOrder ------------------------------
(***************************************************************************)
(* What a call of execute_dag promises to the wave executor, without its   *)
(* tables, coroutines and events: tasks run in dependency order, at most   *)
(* MaxConcurrency at a time; a task is skipped only after a dependency     *)
(* failed; the call returns when every task has a result, and raises when  *)
(* a task has raised and none is running.                                  *)
(***************************************************************************)
EXTENDS Naturals, Sequences, FiniteSets

CONSTANTS Tasks, Graphs, MaxConcurrency

VARIABLES
  depends,   \* the dependency lists of the call
  phase,     \* how far each task is
  call       \* how the call itself ended, "open" until then

vars == <<depends, phase, call>>

Deps(t)  == {depends[t][i] : i \in DOMAIN depends[t]}
InPhase(S) == {t \in Tasks : phase[t] \in S}

Init ==
  /\ depends \in Graphs
  /\ phase = [t \in Tasks |-> "pending"]
  /\ call = "open"

Move(t, from, to) ==
  /\ phase[t] = from
  /\ phase' = [phase EXCEPT ![t] = to]
  /\ UNCHANGED <<depends, call>>

Begin(t) ==
  /\ call \in {"open", "cancelled"}
  /\ Deps(t) \subseteq InPhase({"ok"})
  /\ Cardinality(InPhase({"running"})) < MaxConcurrency
  /\ Move(t, "pending", "running")

End(t) == \E to \in {"ok", "failed", "raised"} : Move(t, "running", to)

Skip(t) ==
  /\ Deps(t) \cap InPhase({"failed", "skipped"}) # {}
  /\ Deps(t) \subseteq InPhase({"ok", "failed", "skipped"})
  /\ Move(t, "pending", "skipped")

Return ==
  /\ call = "open"
  /\ InPhase({"ok", "failed", "skipped"}) = Tasks
  /\ call' = "returned"
  /\ UNCHANGED <<depends, phase>>

Raise ==
  /\ call = "open"
  /\ InPhase({"raised"}) # {}
  /\ InPhase({"running"}) = {}
  /\ call' = "raised"
  /\ UNCHANGED <<depends, phase>>

Cancel ==
  /\ call = "open"
  /\ call' = "cancelled"
  /\ UNCHANGED <<depends, phase>>

Next ==
  \/ \E t \in Tasks : Begin(t) \/ End(t) \/ Skip(t)
  \/ Return \/ Raise \/ Cancel

Spec == Init /\ [][Next]_vars
=============================================================================
