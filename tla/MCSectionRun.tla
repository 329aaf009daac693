---------------------------- MODULE MCSectionRun ----------------------------
(* Instances of SectionRun for TLC. *)
EXTENDS SectionRun, Sequences, TLC

CONSTANTS a, b, v

ThreeTasks == {a, b, v}

\* The verifier after one of two parallel tasks, after both, and a chain.
Shapes ==
  {a :> <<>> @@ b :> <<>> @@ v :> <<a>>,
   a :> <<>> @@ b :> <<>> @@ v :> <<a, b>>,
   a :> <<>> @@ b :> <<v>> @@ v :> <<a>>}
Resumptions == {{}, {a}}
=============================================================================
