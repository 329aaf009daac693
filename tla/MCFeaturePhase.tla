--------------------------- MODULE MCFeaturePhase ---------------------------
(* Instances of FeaturePhase for TLC. *)
EXTENDS FeaturePhase, TLC

CONSTANTS a, b, c, d

\* The first feature has tasks a, b and c, the second the task d.
FourTasks == {a, b, c, d}
TwoFeatures == a :> 1 @@ b :> 1 @@ c :> 1 @@ d :> 2

\* A join, a fork and a chain.
Shapes ==
  {a :> {} @@ b :> {} @@ c :> {a, b} @@ d :> {},
   a :> {} @@ b :> {a} @@ c :> {a} @@ d :> {},
   a :> {} @@ b :> {a} @@ c :> {b} @@ d :> {}}

WithGit    == [useGit |-> TRUE, isolated |-> {1, 2}, resumed |-> {}]
WithoutGit == [useGit |-> FALSE, isolated |-> {}, resumed |-> {}]
Resuming   == [useGit |-> TRUE, isolated |-> {1, 2}, resumed |-> {a}]
AllLayouts == {WithGit, WithoutGit, Resuming}
=============================================================================
